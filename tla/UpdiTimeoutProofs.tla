--------------------------- MODULE UpdiTimeoutProofs ---------------------------
(***************************************************************************)
(* What UpdiTimeout's handlers do with timer and flag, proved for every    *)
(* set of commands.  A command is the sequence of its primitives; what     *)
(* makes it sound is said of a sequence (WellMade), shown for the pieces   *)
(* of UPDI.h, and kept when sequences are put one after another.           *)
(***************************************************************************)
EXTENDS UpdiTimeout, SequenceTheorems, TLAPS

Regs     == {"ack", "statusb", "key", "pin", "data", "sys", "nvm"}
Tests    == {"ack", "zero", "received", "accepted", "progmode", "notReset", "unlocked",
             "erased", "notBusy"}
Failures == {"noack", "error", "rxerr", "erasefail"}

\* The primitives of commands that fail in one of the ways given
Primitives(fails) ==
  [op : {"start", "stop", "serial", "check"}]
  \cup [op : {"take"}, reg : Regs]
  \cup [op : {"require"}, test : Tests, failure : fails]
  \cup [op : {"poll"}, test : Tests, back : {4}, guarded : BOOLEAN]

\* When primitive k of p is next, there was one of kind act, and none of kind what since
Since(p, k, act, what) ==
  \E s \in 1 .. k - 1 : p[s].op = act /\ \A i \in s + 1 .. k - 1 : p[i].op # what

Timed(p, k) == Since(p, k, "start", "stop")    \* the timer was started
Fresh(p, k) == Since(p, k, "start", "serial")  \* no flag is left from waiting for the controller
Asked(p, k) == Since(p, k, "take", "start")    \* the flag tells whether the target answered

\* What primitive k of p relies on
Founded(p, k) ==
  /\ p[k].op = "take" => Timed(p, k)
  /\ p[k].op = "check" => Asked(p, k) /\ Fresh(p, k)
  /\ p[k].op = "require" =>
       /\ Asked(p, k) /\ Fresh(p, k)
       /\ p[k].failure = "rxerr" => p[k].test = "received"
  /\ p[k].op = "poll" => Asked(p, k) /\ Fresh(p, k) /\ k > 4 /\ p[k - 4].op = "stop"

WellMade(p, fails) ==
  /\ p \in Seq(Primitives(fails))
  /\ \A k \in 1 .. Len(p) : Founded(p, k)

\* After p, the flag can be looked at
Answered(p) == Asked(p, Len(p) + 1) /\ Fresh(p, Len(p) + 1)

\* Whoever waits for the target looks at the flag later
Watched(p) ==
  \A k \in 1 .. Len(p) : p[k].op = "take" => \E j \in k + 1 .. Len(p) : p[j].op = "check"

-------------------------------------------------------------------------------
(* Sequences *)

\* Pieces put together are what they look like: of one and one,
LEMMA Join11 ==
  ASSUME NEW a1, NEW b1
  PROVE  << a1 >> \o << b1 >> = << a1, b1 >>
<1> DEFINE S == {a1, b1}
<1>1. /\ << a1 >> \in Seq(S) /\ Len(<< a1 >>) = 1
      /\ << b1 >> \in Seq(S) /\ Len(<< b1 >>) = 1
      /\ << a1, b1 >> \in Seq(S) /\ Len(<< a1, b1 >>) = 2
  OBVIOUS
<1> HIDE DEF S
<1>2. /\ << a1 >> \o << b1 >> \in Seq(S) /\ Len(<< a1 >> \o << b1 >>) = 2
      /\ \A i \in 1 .. 2 : (<< a1 >> \o << b1 >>)[i] = IF i <= 1 THEN << a1 >>[i] ELSE << b1 >>[i - 1]
  BY <1>1, ConcatProperties
<1>3. \A i \in 1 .. 2 : (<< a1 >> \o << b1 >>)[i] = << a1, b1 >>[i]  BY <1>2
<1>. QED  BY <1>1, <1>2, <1>3, SeqEqual

\* two and one,
LEMMA Join21 ==
  ASSUME NEW a1, NEW a2, NEW b1
  PROVE  << a1, a2 >> \o << b1 >> = << a1, a2, b1 >>
<1> DEFINE S == {a1, a2, b1}
<1>1. /\ << a1, a2 >> \in Seq(S) /\ Len(<< a1, a2 >>) = 2
      /\ << b1 >> \in Seq(S) /\ Len(<< b1 >>) = 1
      /\ << a1, a2, b1 >> \in Seq(S) /\ Len(<< a1, a2, b1 >>) = 3
  OBVIOUS
<1> HIDE DEF S
<1>2. /\ << a1, a2 >> \o << b1 >> \in Seq(S) /\ Len(<< a1, a2 >> \o << b1 >>) = 3
      /\ \A i \in 1 .. 3 : (<< a1, a2 >> \o << b1 >>)[i] = IF i <= 2 THEN << a1, a2 >>[i] ELSE << b1 >>[i - 2]
  BY <1>1, ConcatProperties
<1>3. \A i \in 1 .. 3 : (<< a1, a2 >> \o << b1 >>)[i] = << a1, a2, b1 >>[i]  BY <1>2
<1>. QED  BY <1>1, <1>2, <1>3, SeqEqual

\* three and one,
LEMMA Join31 ==
  ASSUME NEW a1, NEW a2, NEW a3, NEW b1
  PROVE  << a1, a2, a3 >> \o << b1 >> = << a1, a2, a3, b1 >>
<1> DEFINE S == {a1, a2, a3, b1}
<1>1. /\ << a1, a2, a3 >> \in Seq(S) /\ Len(<< a1, a2, a3 >>) = 3
      /\ << b1 >> \in Seq(S) /\ Len(<< b1 >>) = 1
      /\ << a1, a2, a3, b1 >> \in Seq(S) /\ Len(<< a1, a2, a3, b1 >>) = 4
  OBVIOUS
<1> HIDE DEF S
<1>2. /\ << a1, a2, a3 >> \o << b1 >> \in Seq(S) /\ Len(<< a1, a2, a3 >> \o << b1 >>) = 4
      /\ \A i \in 1 .. 4 : (<< a1, a2, a3 >> \o << b1 >>)[i] = IF i <= 3 THEN << a1, a2, a3 >>[i] ELSE << b1 >>[i - 3]
  BY <1>1, ConcatProperties
<1>3. \A i \in 1 .. 4 : (<< a1, a2, a3 >> \o << b1 >>)[i] = << a1, a2, a3, b1 >>[i]  BY <1>2
<1>. QED  BY <1>1, <1>2, <1>3, SeqEqual

\* one and two,
LEMMA Join12 ==
  ASSUME NEW a1, NEW b1, NEW b2
  PROVE  << a1 >> \o << b1, b2 >> = << a1, b1, b2 >>
<1> DEFINE S == {a1, b1, b2}
<1>1. /\ << a1 >> \in Seq(S) /\ Len(<< a1 >>) = 1
      /\ << b1, b2 >> \in Seq(S) /\ Len(<< b1, b2 >>) = 2
      /\ << a1, b1, b2 >> \in Seq(S) /\ Len(<< a1, b1, b2 >>) = 3
  OBVIOUS
<1> HIDE DEF S
<1>2. /\ << a1 >> \o << b1, b2 >> \in Seq(S) /\ Len(<< a1 >> \o << b1, b2 >>) = 3
      /\ \A i \in 1 .. 3 : (<< a1 >> \o << b1, b2 >>)[i] = IF i <= 1 THEN << a1 >>[i] ELSE << b1, b2 >>[i - 1]
  BY <1>1, ConcatProperties
<1>3. \A i \in 1 .. 3 : (<< a1 >> \o << b1, b2 >>)[i] = << a1, b1, b2 >>[i]  BY <1>2
<1>. QED  BY <1>1, <1>2, <1>3, SeqEqual

\* one and three,
LEMMA Join13 ==
  ASSUME NEW a1, NEW b1, NEW b2, NEW b3
  PROVE  << a1 >> \o << b1, b2, b3 >> = << a1, b1, b2, b3 >>
<1> DEFINE S == {a1, b1, b2, b3}
<1>1. /\ << a1 >> \in Seq(S) /\ Len(<< a1 >>) = 1
      /\ << b1, b2, b3 >> \in Seq(S) /\ Len(<< b1, b2, b3 >>) = 3
      /\ << a1, b1, b2, b3 >> \in Seq(S) /\ Len(<< a1, b1, b2, b3 >>) = 4
  OBVIOUS
<1> HIDE DEF S
<1>2. /\ << a1 >> \o << b1, b2, b3 >> \in Seq(S) /\ Len(<< a1 >> \o << b1, b2, b3 >>) = 4
      /\ \A i \in 1 .. 4 : (<< a1 >> \o << b1, b2, b3 >>)[i] = IF i <= 1 THEN << a1 >>[i] ELSE << b1, b2, b3 >>[i - 1]
  BY <1>1, ConcatProperties
<1>3. \A i \in 1 .. 4 : (<< a1 >> \o << b1, b2, b3 >>)[i] = << a1, b1, b2, b3 >>[i]  BY <1>2
<1>. QED  BY <1>1, <1>2, <1>3, SeqEqual

\* and one and six elements
LEMMA Join16 ==
  ASSUME NEW a1, NEW b1, NEW b2, NEW b3, NEW b4, NEW b5, NEW b6
  PROVE  << a1 >> \o << b1, b2, b3, b4, b5, b6 >> = << a1, b1, b2, b3, b4, b5, b6 >>
<1> DEFINE S == {a1, b1, b2, b3, b4, b5, b6}
<1>1. /\ << a1 >> \in Seq(S) /\ Len(<< a1 >>) = 1
      /\ << b1, b2, b3, b4, b5, b6 >> \in Seq(S) /\ Len(<< b1, b2, b3, b4, b5, b6 >>) = 6
      /\ << a1, b1, b2, b3, b4, b5, b6 >> \in Seq(S) /\ Len(<< a1, b1, b2, b3, b4, b5, b6 >>) = 7
  OBVIOUS
<1> HIDE DEF S
<1>2. /\ << a1 >> \o << b1, b2, b3, b4, b5, b6 >> \in Seq(S) /\ Len(<< a1 >> \o << b1, b2, b3, b4, b5, b6 >>) = 7
      /\ \A i \in 1 .. 7 : (<< a1 >> \o << b1, b2, b3, b4, b5, b6 >>)[i] = IF i <= 1 THEN << a1 >>[i] ELSE << b1, b2, b3, b4, b5, b6 >>[i - 1]
  BY <1>1, ConcatProperties
<1>3. \A i \in 1 .. 7 : (<< a1 >> \o << b1, b2, b3, b4, b5, b6 >>)[i] = << a1, b1, b2, b3, b4, b5, b6 >>[i]  BY <1>2
<1>. QED  BY <1>1, <1>2, <1>3, SeqEqual

\* Elements of a concatenation
LEMMA Joined ==
  ASSUME NEW S, NEW p \in Seq(S), NEW q \in Seq(S)
  PROVE  /\ Len(p) \in Nat /\ Len(q) \in Nat
         /\ p \o q \in Seq(S) /\ Len(p \o q) = Len(p) + Len(q)
         /\ \A i \in 1 .. Len(p) : (p \o q)[i] = p[i]
         /\ \A i \in 1 .. Len(q) : (p \o q)[Len(p) + i] = q[i]
<1>1. Len(p) \in Nat /\ Len(q) \in Nat  OBVIOUS
<1>2. /\ p \o q \in Seq(S) /\ Len(p \o q) = Len(p) + Len(q)
      /\ \A i \in 1 .. Len(p) + Len(q) : (p \o q)[i] = IF i <= Len(p) THEN p[i] ELSE q[i - Len(p)]
  BY ConcatProperties
<1> DEFINE m == Len(p)
           n == Len(q)
           r == p \o q
<1>3. m \in Nat /\ n \in Nat /\ \A i \in 1 .. m + n : r[i] = IF i <= m THEN p[i] ELSE q[i - m]
  BY <1>1, <1>2
<1> HIDE DEF m, n, r
<1>4. \A i \in 1 .. m : r[i] = p[i]  BY <1>3
<1>5. \A i \in 1 .. n : m + i \in 1 .. m + n /\ ~(m + i <= m) /\ m + i - m = i  BY <1>3
<1>6. \A i \in 1 .. n : r[m + i] = q[i]  BY <1>3, <1>5
<1>. QED  BY <1>1, <1>2, <1>4, <1>6 DEF m, n, r

\* And of a sequence with one more element
LEMMA JoinedOne ==
  ASSUME NEW S, NEW p \in Seq(S), NEW e \in S
  PROVE  /\ Len(p) \in Nat /\ << e >> \in Seq(S)
         /\ p \o << e >> \in Seq(S) /\ Len(p \o << e >>) = Len(p) + 1
         /\ \A i \in 1 .. Len(p) : (p \o << e >>)[i] = p[i]
         /\ (p \o << e >>)[Len(p) + 1] = e
<1>1. << e >> \in Seq(S) /\ Len(<< e >>) = 1 /\ << e >>[1] = e  OBVIOUS
<1>2. 1 \in 1 .. Len(<< e >>)  BY <1>1
<1>3. (p \o << e >>)[Len(p) + 1] = e  BY <1>1, <1>2, Joined
<1>. QED  BY <1>1, <1>3, Joined

-------------------------------------------------------------------------------
(* Since *)

\* One primitive further
LEMMA SinceNext ==
  ASSUME NEW p, NEW k \in Nat \ {0}, NEW act, NEW what, act # what
  PROVE  Since(p, k + 1, act, what)
           <=> p[k].op = act \/ (Since(p, k, act, what) /\ p[k].op # what)
<1>1. k + 1 - 1 = k  OBVIOUS
<1>2. ASSUME Since(p, k + 1, act, what), p[k].op # act
      PROVE  Since(p, k, act, what) /\ p[k].op # what
  <2>1. PICK s \in 1 .. k : p[s].op = act /\ \A i \in s + 1 .. k : p[i].op # what
    BY <1>1, <1>2 DEF Since
  <2>2. s # k  BY <2>1, <1>2
  <2>3. s \in 1 .. k - 1 /\ k \in s + 1 .. k  BY <2>2
  <2>4. \A i \in s + 1 .. k - 1 : i \in s + 1 .. k  OBVIOUS
  <2>. QED  BY <2>1, <2>3, <2>4 DEF Since
<1>3. ASSUME p[k].op = act  PROVE Since(p, k + 1, act, what)
  <2>1. k \in 1 .. k /\ \A i \in k + 1 .. k : FALSE  OBVIOUS
  <2>. QED  BY <1>1, <1>3, <2>1 DEF Since
<1>4. ASSUME Since(p, k, act, what), p[k].op # what  PROVE Since(p, k + 1, act, what)
  <2>1. PICK s \in 1 .. k - 1 : p[s].op = act /\ \A i \in s + 1 .. k - 1 : p[i].op # what
    BY <1>4 DEF Since
  <2>2. s \in 1 .. k /\ \A i \in s + 1 .. k : i \in s + 1 .. k - 1 \/ i = k
    OBVIOUS
  <2>. QED  BY <1>1, <1>4, <2>1, <2>2 DEF Since
<1>. QED  BY <1>2, <1>3, <1>4

\* In the first part of a concatenation everything is as in that part
LEMMA SinceFront ==
  ASSUME NEW S, NEW p \in Seq(S), NEW q \in Seq(S), NEW k \in 1 .. Len(p) + 1,
         NEW act, NEW what, Since(p, k, act, what)
  PROVE  Since(p \o q, k, act, what)
<1> DEFINE n == Len(p)
           r == p \o q
<1>1. n \in Nat /\ \A i \in 1 .. n : r[i] = p[i]  BY Joined
<1> HIDE DEF n, r
<1>2. k \in 1 .. n + 1  BY DEF n
<1>3. PICK s \in 1 .. k - 1 : p[s].op = act /\ \A i \in s + 1 .. k - 1 : p[i].op # what
  BY DEF Since
<1>4. s \in 1 .. n /\ \A i \in s + 1 .. k - 1 : i \in 1 .. n  BY <1>1, <1>2
<1>5. r[s].op = act /\ \A i \in s + 1 .. k - 1 : r[i].op # what  BY <1>1, <1>3, <1>4
<1>. QED  BY <1>5 DEF r, Since

\* In the second part what was so in that part alone is still so
LEMMA SinceBack ==
  ASSUME NEW S, NEW p \in Seq(S), NEW q \in Seq(S), NEW k \in 1 .. Len(q) + 1,
         NEW act, NEW what, Since(q, k, act, what)
  PROVE  Since(p \o q, Len(p) + k, act, what)
<1> DEFINE n == Len(p)
           m == Len(q)
           r == p \o q
<1>1. n \in Nat /\ m \in Nat /\ \A i \in 1 .. m : r[n + i] = q[i]  BY Joined
<1> HIDE DEF n, m, r
<1>2. k \in 1 .. m + 1  BY DEF m
<1>3. PICK s \in 1 .. k - 1 : q[s].op = act /\ \A i \in s + 1 .. k - 1 : q[i].op # what
  BY DEF Since
<1>4. s \in 1 .. m  BY <1>1, <1>2
<1>5. n + s \in 1 .. n + k - 1 /\ r[n + s].op = act  BY <1>1, <1>2, <1>3, <1>4
<1>6. ASSUME NEW i \in n + s + 1 .. n + k - 1  PROVE r[i].op # what
  <2>1. i - n \in s + 1 .. k - 1 /\ i - n \in 1 .. m /\ n + (i - n) = i  BY <1>1, <1>2, <1>4
  <2>. QED  BY <1>1, <1>3, <2>1
<1> DEFINE t == n + s
<1>7. t \in 1 .. n + k - 1 /\ r[t].op = act /\ \A i \in t + 1 .. n + k - 1 : r[i].op # what
  BY <1>5, <1>6
<1> HIDE DEF t
<1>8. Since(r, n + k, act, what)  BY <1>1, <1>2, <1>7 DEF Since
<1>. QED  BY <1>8 DEF n, r

-------------------------------------------------------------------------------
(* Putting well made pieces together *)

\* A sequence of well made pieces is well made
LEMMA WellMadeJoin ==
  ASSUME NEW F, NEW p, NEW q, WellMade(p, F), WellMade(q, F)
  PROVE  WellMade(p \o q, F)
<1> DEFINE S == Primitives(F)
<1>1. p \in Seq(S) /\ q \in Seq(S)  BY DEF WellMade
<1> HIDE DEF S
<1>2. /\ p \o q \in Seq(S) /\ Len(p \o q) = Len(p) + Len(q)
      /\ Len(p) \in Nat /\ Len(q) \in Nat
      /\ \A i \in 1 .. Len(p) : (p \o q)[i] = p[i]
      /\ \A i \in 1 .. Len(q) : (p \o q)[Len(p) + i] = q[i]
  BY <1>1, Joined
<1>3. ASSUME NEW k \in 1 .. Len(p)  PROVE Founded(p \o q, k)
  <2>1. Founded(p, k) /\ (p \o q)[k] = p[k] /\ k \in 1 .. Len(p) + 1  BY <1>2 DEF WellMade
  <2>2. /\ Timed(p, k) => Timed(p \o q, k)
        /\ Fresh(p, k) => Fresh(p \o q, k)
        /\ Asked(p, k) => Asked(p \o q, k)
    BY <1>1, <2>1, SinceFront DEF Timed, Fresh, Asked
  <2>3. k > 4 => k - 4 \in 1 .. Len(p) /\ (p \o q)[k - 4] = p[k - 4]  BY <1>2
  <2>. QED  BY <2>1, <2>2, <2>3 DEF Founded
<1>4. ASSUME NEW k \in 1 .. Len(q)  PROVE Founded(p \o q, Len(p) + k)
  <2>1. Founded(q, k) /\ (p \o q)[Len(p) + k] = q[k] /\ k \in 1 .. Len(q) + 1
    BY <1>2 DEF WellMade
  <2>2. /\ Timed(q, k) => Timed(p \o q, Len(p) + k)
        /\ Fresh(q, k) => Fresh(p \o q, Len(p) + k)
        /\ Asked(q, k) => Asked(p \o q, Len(p) + k)
    BY <1>1, <2>1, SinceBack DEF Timed, Fresh, Asked
  <2>3. ASSUME k > 4
        PROVE  Len(p) + k > 4 /\ (p \o q)[Len(p) + k - 4] = q[k - 4]
    <3>1. k - 4 \in 1 .. Len(q) /\ Len(p) + k - 4 = Len(p) + (k - 4) /\ Len(p) + k > 4
      BY <1>2, <2>3
    <3>. QED  BY <1>2, <3>1
  <2>. QED  BY <2>1, <2>2, <2>3 DEF Founded
<1>5. ASSUME NEW k \in 1 .. Len(p \o q)  PROVE Founded(p \o q, k)
  <2>1. CASE k <= Len(p)  BY <1>2, <1>3, <2>1
  <2>2. CASE k > Len(p)
    <3>1. k - Len(p) \in 1 .. Len(q) /\ Len(p) + (k - Len(p)) = k  BY <1>2, <2>2
    <3>. QED  BY <1>4, <3>1
  <2>. QED  BY <1>2, <2>1, <2>2
<1>. QED  BY <1>2, <1>5 DEF WellMade, S

\* What the second part has waited for is waited for at the end of the whole
LEMMA AnsweredJoin ==
  ASSUME NEW F, NEW p, NEW q, WellMade(p, F), WellMade(q, F), Answered(q)
  PROVE  Answered(p \o q)
<1>1. p \in Seq(Primitives(F)) /\ q \in Seq(Primitives(F))  BY DEF WellMade
<1>2. /\ Len(p) \in Nat /\ Len(q) \in Nat /\ Len(p \o q) = Len(p) + Len(q)
      /\ Len(q) + 1 \in 1 .. Len(q) + 1
  BY <1>1, Joined
<1>3. Asked(p \o q, Len(p) + (Len(q) + 1)) /\ Fresh(p \o q, Len(p) + (Len(q) + 1))
  BY <1>1, <1>2, SinceBack DEF Answered, Asked, Fresh
<1>4. Len(p) + (Len(q) + 1) = Len(p \o q) + 1  BY <1>2
<1>. QED  BY <1>3, <1>4 DEF Answered

\* After an answer the flag may be looked at, the byte tested, or the timer stopped
LEMMA WellMadeAppend ==
  ASSUME NEW F, NEW p, WellMade(p, F), Answered(p),
         NEW e \in Primitives(F), e.op \in {"check", "require", "stop"},
         e.op = "require" /\ e.failure = "rxerr" => e.test = "received"
  PROVE  WellMade(p \o << e >>, F) /\ Answered(p \o << e >>)
<1> DEFINE S == Primitives(F)
           n == Len(p)
           r == p \o << e >>
<1>1. p \in Seq(S) /\ e \in S  BY DEF WellMade
<1> HIDE DEF S
<1>2. /\ n \in Nat /\ << e >> \in Seq(S) /\ r \in Seq(S) /\ Len(r) = n + 1
      /\ \A i \in 1 .. n : r[i] = p[i]
      /\ r[n + 1] = e
  BY <1>1, JoinedOne
<1>3. ASSUME NEW k \in 1 .. n + 1
      PROVE  /\ Timed(p, k) => Timed(r, k)
             /\ Fresh(p, k) => Fresh(r, k)
             /\ Asked(p, k) => Asked(r, k)
  BY <1>1, <1>2, SinceFront DEF Timed, Fresh, Asked
<1>4. ASSUME NEW k \in 1 .. n  PROVE Founded(r, k)
  <2>1. Founded(p, k) /\ r[k] = p[k] /\ k \in 1 .. n + 1  BY <1>2 DEF WellMade
  <2>2. k > 4 => k - 4 \in 1 .. n /\ r[k - 4] = p[k - 4]  BY <1>2
  <2>. QED  BY <1>3, <2>1, <2>2 DEF Founded
<1>5. Asked(r, n + 1) /\ Fresh(r, n + 1)
  <2>1. n + 1 \in 1 .. n + 1  BY <1>2
  <2>. QED  BY <1>3, <2>1 DEF Answered
<1>6. Founded(r, n + 1)  BY <1>2, <1>5 DEF Founded
<1>7. WellMade(r, F)
  <2>1. \A k \in 1 .. Len(r) : k \in 1 .. n \/ k = n + 1  BY <1>2
  <2>. QED  BY <1>2, <1>4, <1>6, <2>1 DEF WellMade, S
<1>8. Answered(r)
  <2>1. n + 1 \in Nat \ {0} /\ r[n + 1].op \notin {"start", "serial"}  BY <1>2
  <2>2. Asked(r, n + 1 + 1) /\ Fresh(r, n + 1 + 1)
    BY <1>5, <2>1, SinceNext DEF Asked, Fresh
  <2>. QED  BY <1>2, <2>2 DEF Answered
<1>. QED  BY <1>7, <1>8

-------------------------------------------------------------------------------
(* The pieces of UPDI.h *)

\* The failures of every command but chip erase, and of every command
Usual == Failures \ {"erasefail"}

LEMMA PrimitiveOps ==
  ASSUME NEW F \in {Usual, Failures}
  PROVE  /\ TimerStart \in Primitives(F) /\ TimerStop \in Primitives(F)
         /\ Serial \in Primitives(F) /\ Check \in Primitives(F)
         /\ \A reg \in Regs : Take(reg) \in Primitives(F)
         /\ \A test \in Tests, failure \in Usual : Require(test, failure) \in Primitives(F)
         /\ \A test \in Tests, guarded \in BOOLEAN : Poll(test, 4, guarded) \in Primitives(F)
  BY DEF Primitives, TimerStart, TimerStop, Serial, Check, Take, Require, Poll, Usual, Failures

\* One primitive that relies on nothing
LEMMA WellMadeSingle ==
  ASSUME NEW F, NEW e \in Primitives(F), e.op \in {"start", "stop", "serial"}
  PROVE  WellMade(<< e >>, F)
<1>1. << e >> \in Seq(Primitives(F)) /\ Len(<< e >>) = 1 /\ << e >>[1] = e  OBVIOUS
<1>2. Founded(<< e >>, 1)  BY <1>1 DEF Founded
<1>. QED  BY <1>1, <1>2 DEF WellMade

LEMMA WellMadeStartStop ==
  ASSUME NEW F \in {Usual, Failures}
  PROVE  WellMade(<< TimerStart >>, F) /\ WellMade(<< TimerStop >>, F)
<1>1. TimerStart.op = "start" /\ TimerStop.op = "stop"  BY DEF TimerStart, TimerStop
<1>. QED  BY <1>1, PrimitiveOps, WellMadeSingle

LEMMA WellMadeSerials ==
  ASSUME NEW F \in {Usual, Failures}, NEW n \in Nat
  PROVE  WellMade(Serials(n), F)
<1>1. /\ Serials(n) \in Seq(Primitives(F)) /\ Len(Serials(n)) = n
      /\ \A k \in 1 .. n : Serials(n)[k] = Serial
  BY PrimitiveOps DEF Serials
<1>2. Serial.op = "serial"  BY DEF Serial
<1>. QED  BY <1>1, <1>2 DEF WellMade, Founded

\* LDCS, LDS: the firmware stops listening to its own echo, asks, and waits
LEMMA WellMadeLoad ==
  ASSUME NEW F \in {Usual, Failures}, NEW reg \in Regs
  PROVE  /\ Load(reg) = << TimerStop, TimerStart, Take(reg), TimerStop >>
         /\ WellMade(Load(reg), F) /\ Answered(Load(reg))
<1> DEFINE p == << TimerStop, TimerStart, Take(reg), TimerStop >>
<1>1. Load(reg) = p
  <2> DEFINE a == TimerStop
             b == TimerStart
             c == Take(reg)
  <2>1. Load(reg) = << a >> \o << b >> \o << c >> \o << a >>
    BY DEF Load, StartSend, StartReceive, Idle
  <2> HIDE DEF a, b, c
  <2>2. << a >> \o << b >> = << a, b >>  BY Join11
  <2>3. << a, b >> \o << c >> = << a, b, c >>  BY Join21
  <2>4. << a, b, c >> \o << a >> = << a, b, c, a >>  BY Join31
  <2>5. Load(reg) = << a, b, c, a >>  BY <2>1, <2>2, <2>3, <2>4
  <2>. QED  BY <2>5 DEF a, b, c
<1>2. /\ p \in Seq(Primitives(F)) /\ Len(p) = 4
      /\ p[1].op = "stop" /\ p[2].op = "start" /\ p[3].op = "take" /\ p[4].op = "stop"
  BY PrimitiveOps DEF TimerStop, TimerStart, Take
<1> HIDE DEF p
<1>3. \A k \in 3 .. 5 : Fresh(p, k)
  <2>. SUFFICES ASSUME NEW k \in 3 .. 5  PROVE Fresh(p, k)  OBVIOUS
  <2>1. 2 \in 1 .. k - 1 /\ \A i \in 3 .. k - 1 : i = 3 \/ i = 4  OBVIOUS
  <2>. QED  BY <1>2, <2>1 DEF Fresh, Since
<1>4. Timed(p, 3)
  <2>1. 2 \in 1 .. 3 - 1 /\ \A i \in 2 + 1 .. 3 - 1 : FALSE  OBVIOUS
  <2>. QED  BY <1>2, <2>1 DEF Timed, Since
<1>5. Asked(p, 5)
  <2>1. 3 \in 1 .. 5 - 1 /\ \A i \in 3 + 1 .. 5 - 1 : i = 4  OBVIOUS
  <2>. QED  BY <1>2, <2>1 DEF Asked, Since
<1>6. \A k \in 1 .. 4 : Founded(p, k)
  <2>1. \A k \in 1 .. 4 : k = 1 \/ k = 2 \/ k = 3 \/ k = 4  OBVIOUS
  <2>. QED  BY <1>2, <1>4, <2>1 DEF Founded
<1>7. 5 = Len(p) + 1  BY <1>2
<1>8. WellMade(p, F)  BY <1>2, <1>6 DEF WellMade
<1>9. Answered(p)  BY <1>3, <1>5, <1>7 DEF Answered
<1>. QED  BY <1>1, <1>8, <1>9 DEF p

\* A loop that loads a register until it holds what is wanted
LEMMA WellMadeLoadUntil ==
  ASSUME NEW F \in {Usual, Failures}, NEW reg \in Regs, NEW test \in Tests, NEW g \in BOOLEAN
  PROVE  WellMade(LoadUntil(reg, test, g), F) /\ Answered(LoadUntil(reg, test, g))
<1> DEFINE p == Load(reg)
           e == Poll(test, 4, g)
           r == p \o << e >>
<1>1. /\ WellMade(p, F) /\ Answered(p) /\ p \in Seq(Primitives(F)) /\ Len(p) = 4
      /\ p[1].op = "stop"
  <2>1. p = << TimerStop, TimerStart, Take(reg), TimerStop >> /\ WellMade(p, F) /\ Answered(p)
    BY WellMadeLoad
  <2>2. Len(p) = 4 /\ p[1] = TimerStop  BY <2>1
  <2>. QED  BY <2>1, <2>2 DEF WellMade, TimerStop
<1>2. e \in Primitives(F) /\ e.op = "poll"  BY PrimitiveOps DEF Poll
<1> HIDE DEF p, e, r
<1>3. /\ << e >> \in Seq(Primitives(F)) /\ r \in Seq(Primitives(F)) /\ Len(r) = 5
      /\ \A i \in 1 .. 4 : r[i] = p[i]
      /\ r[5] = e
  <2> DEFINE S == Primitives(F)
  <2>1. p \in Seq(S) /\ e \in S  BY <1>1, <1>2
  <2> HIDE DEF S
  <2>2. /\ << e >> \in Seq(S) /\ r \in Seq(S) /\ Len(r) = Len(p) + 1
        /\ \A i \in 1 .. Len(p) : r[i] = p[i]
        /\ r[Len(p) + 1] = e
    BY <2>1, JoinedOne DEF r
  <2>. QED  BY <1>1, <2>2 DEF S
<1>4. ASSUME NEW k \in 1 .. 5
      PROVE  /\ Timed(p, k) => Timed(r, k)
             /\ Fresh(p, k) => Fresh(r, k)
             /\ Asked(p, k) => Asked(r, k)
  <2>1. k \in 1 .. Len(p) + 1  BY <1>1
  <2>. QED  BY <1>1, <1>3, <2>1, SinceFront DEF Timed, Fresh, Asked, r
<1>5. Asked(r, 5) /\ Fresh(r, 5)
  <2>1. Asked(p, 5) /\ Fresh(p, 5)  BY <1>1 DEF Answered
  <2>. QED  BY <1>4, <2>1
<1>6. \A k \in 1 .. 5 : Founded(r, k)
  <2>1. ASSUME NEW k \in 1 .. 4  PROVE Founded(r, k)
    <3>1. Founded(p, k) /\ r[k] = p[k] /\ k \in 1 .. 5  BY <1>1, <1>3 DEF WellMade
    <3>2. ~(k > 4)  OBVIOUS
    <3>. QED  BY <1>4, <3>1, <3>2 DEF Founded
  <2>2. Founded(r, 5)
    <3>1. r[5].op = "poll" /\ r[5 - 4].op = "stop" /\ 5 > 4  BY <1>1, <1>2, <1>3
    <3>. QED  BY <1>5, <3>1 DEF Founded
  <2>3. \A k \in 1 .. 5 : k \in 1 .. 4 \/ k = 5  OBVIOUS
  <2>. QED  BY <2>1, <2>2, <2>3
<1>7. Asked(r, 5 + 1) /\ Fresh(r, 5 + 1)
  <2>1. 5 \in Nat \ {0} /\ r[5].op \notin {"start", "serial"}  BY <1>2, <1>3
  <2>. QED  BY <1>5, <2>1, SinceNext DEF Asked, Fresh
<1>8. WellMade(r, F) /\ Answered(r)  BY <1>3, <1>6, <1>7 DEF WellMade, Answered
<1>. QED  BY <1>8 DEF LoadUntil, p, e, r

\* A byte of the target's, and the flag or the byte looked at when it is there
LEMMA WellMadeAnswer ==
  ASSUME NEW F \in {Usual, Failures}, NEW reg \in Regs
  PROVE  /\ WellMade(<< TimerStart, Take(reg) >>, F) /\ Answered(<< TimerStart, Take(reg) >>)
<1> DEFINE p == << TimerStart, Take(reg) >>
<1>1. /\ p \in Seq(Primitives(F)) /\ Len(p) = 2
      /\ p[1].op = "start" /\ p[2].op = "take"
  BY PrimitiveOps DEF TimerStart, Take
<1> HIDE DEF p
<1>2. Timed(p, 2)
  <2>1. 1 \in 1 .. 2 - 1 /\ \A i \in 1 + 1 .. 2 - 1 : FALSE  OBVIOUS
  <2>. QED  BY <1>1, <2>1 DEF Timed, Since
<1>3. Fresh(p, 3)
  <2>1. 1 \in 1 .. 3 - 1 /\ \A i \in 1 + 1 .. 3 - 1 : i = 2  OBVIOUS
  <2>. QED  BY <1>1, <2>1 DEF Fresh, Since
<1>4. Asked(p, 3)
  <2>1. 2 \in 1 .. 3 - 1 /\ \A i \in 2 + 1 .. 3 - 1 : FALSE  OBVIOUS
  <2>. QED  BY <1>1, <2>1 DEF Asked, Since
<1>5. \A k \in 1 .. 2 : Founded(p, k)
  <2>1. \A k \in 1 .. 2 : k = 1 \/ k = 2  OBVIOUS
  <2>. QED  BY <1>1, <1>2, <2>1 DEF Founded
<1>6. WellMade(p, F)  BY <1>1, <1>5 DEF WellMade
<1>7. Answered(p)  BY <1>1, <1>3, <1>4 DEF Answered
<1>. QED  BY <1>6, <1>7 DEF p

LEMMA WellMadeAck ==
  ASSUME NEW F \in {Usual, Failures}, NEW failure \in Usual \ {"rxerr"}
  PROVE  /\ WellMade(StartReceive \o << Take("ack"), Require("ack", failure) >>, F)
         /\ Answered(StartReceive \o << Take("ack"), Require("ack", failure) >>)
<1> DEFINE p == << TimerStart, Take("ack") >>
           e == Require("ack", failure)
<1>1. WellMade(p, F) /\ Answered(p)  BY WellMadeAnswer DEF Regs
<1>2. e \in Primitives(F) /\ e.op = "require" /\ e.failure # "rxerr"
  <2>1. e \in Primitives(F)  BY PrimitiveOps DEF Tests
  <2>. QED  BY <2>1 DEF Require
<1>3. p \o << e >> = << TimerStart, Take("ack"), e >>  BY Join21
<1>4. StartReceive \o << Take("ack"), e >> = << TimerStart, Take("ack"), e >>
  BY Join12 DEF StartReceive
<1> HIDE DEF p, e
<1>5. WellMade(p \o << e >>, F) /\ Answered(p \o << e >>)  BY <1>1, <1>2, WellMadeAppend
<1>. QED  BY <1>3, <1>4, <1>5 DEF e

LEMMA WellMadeWaitForAck ==
  ASSUME NEW F \in {Usual, Failures}
  PROVE  WellMade(WaitForAck, F)
<1>1. "noack" \in Usual \ {"rxerr"}  BY DEF Usual, Failures
<1>. QED  BY <1>1, WellMadeAck DEF WaitForAck

\* STCS and keys
LEMMA WellMadeStore ==
  ASSUME NEW F \in {Usual, Failures}
  PROVE  WellMade(StartSend, F) /\ WellMade(Idle, F) /\ WellMade(Store, F)
<1>1. WellMade(StartSend, F) /\ WellMade(Idle, F)  BY WellMadeStartStop DEF StartSend, Idle
<1>2. WellMade(StartSend \o Idle, F)  BY <1>1, WellMadeJoin
<1>. QED  BY <1>1, <1>2 DEF Store

\* UPDI_STS
LEMMA WellMadeStoreAcked ==
  ASSUME NEW F \in {Usual, Failures}
  PROVE  WellMade(StoreAcked, F)
<1> DEFINE Acked == StartReceive \o << Take("ack"), Require("ack", "error") >>
<1>1. "error" \in Usual \ {"rxerr"}  BY DEF Usual, Failures
<1>2. WellMade(Acked, F)  BY <1>1, WellMadeAck
<1>3. WellMade(StartSend, F) /\ WellMade(Idle, F)  BY WellMadeStore
<1> HIDE DEF Acked
<1>4. WellMade(StartSend \o Acked \o StartSend \o Acked \o Idle, F)
  BY <1>2, <1>3, WellMadeJoin
<1>. QED  BY <1>4 DEF StoreAcked, Acked

\* A register loaded and tested
LEMMA WellMadeTest ==
  ASSUME NEW F \in {Usual, Failures}, NEW reg \in Regs, NEW test \in Tests
  PROVE  /\ WellMade(Load(reg) \o << Require(test, "error") >>, F)
         /\ Answered(Load(reg) \o << Require(test, "error") >>)
<1> DEFINE e == Require(test, "error")
<1>1. e \in Primitives(F) /\ e.op = "require" /\ e.failure # "rxerr"
  <2>1. e \in Primitives(F)  BY PrimitiveOps DEF Usual, Failures
  <2>. QED  BY <2>1 DEF Require
<1>2. WellMade(Load(reg), F) /\ Answered(Load(reg))  BY WellMadeLoad
<1> HIDE DEF e
<1>3. WellMade(Load(reg) \o << e >>, F) /\ Answered(Load(reg) \o << e >>)
  BY <1>1, <1>2, WellMadeAppend
<1>. QED  BY <1>3 DEF e

LEMMA WellMadeSystemReset ==
  ASSUME NEW F \in {Usual, Failures}
  PROVE  WellMade(SystemReset, F) /\ Answered(SystemReset)
<1>1. /\ WellMade(LoadUntil("sys", "notReset", FALSE), F)
      /\ Answered(LoadUntil("sys", "notReset", FALSE))
  BY WellMadeLoadUntil DEF Regs, Tests
<1>2. WellMade(StartSend, F)  BY WellMadeStore
<1>. QED  BY <1>1, <1>2, WellMadeJoin, AnsweredJoin DEF SystemReset

LEMMA WellMadeEnterProgmode ==
  ASSUME NEW F \in {Usual, Failures}
  PROVE  WellMade(EnterProgmode, F) /\ Answered(EnterProgmode)
<1> DEFINE q == LoadUntil("sys", "progmode", TRUE)
           p == << TimerStart >> \o SystemReset \o Store \o SystemReset
<1>1. WellMade(q, F) /\ Answered(q)  BY WellMadeLoadUntil DEF Regs, Tests
<1>2. WellMade(<< TimerStart >>, F) /\ WellMade(SystemReset, F) /\ WellMade(Store, F)
  BY WellMadeStartStop, WellMadeSystemReset, WellMadeStore
<1>3. WellMade(p, F)  BY <1>2, WellMadeJoin
<1>4. TimerStop \in Primitives(F) /\ TimerStop.op = "stop"
  <2>1. TimerStop \in Primitives(F)  BY PrimitiveOps
  <2>. QED  BY <2>1 DEF TimerStop
<1> HIDE DEF p, q
<1>5. WellMade(p \o q, F) /\ Answered(p \o q)  BY <1>1, <1>3, WellMadeJoin, AnsweredJoin
<1>6. WellMade(p \o q \o << TimerStop >>, F) /\ Answered(p \o q \o << TimerStop >>)
  BY <1>4, <1>5, WellMadeAppend
<1>. QED  BY <1>6 DEF EnterProgmode, p, q

-------------------------------------------------------------------------------
(* Watched sequences *)

\* Watched sequences one after another are watched
LEMMA WatchedJoin ==
  ASSUME NEW F, NEW p, NEW q, WellMade(p, F), WellMade(q, F), Watched(p), Watched(q)
  PROVE  Watched(p \o q)
<1> DEFINE S == Primitives(F)
           n == Len(p)
           m == Len(q)
           r == p \o q
<1>1. p \in Seq(S) /\ q \in Seq(S)  BY DEF WellMade
<1> HIDE DEF S
<1>2. /\ n \in Nat /\ m \in Nat /\ Len(r) = n + m
      /\ \A i \in 1 .. n : r[i] = p[i]
      /\ \A i \in 1 .. m : r[n + i] = q[i]
  BY <1>1, Joined
<1>3. \A k \in 1 .. n : p[k].op = "take" => \E j \in k + 1 .. n : p[j].op = "check"
  BY DEF Watched
<1>4. \A k \in 1 .. m : q[k].op = "take" => \E j \in k + 1 .. m : q[j].op = "check"
  BY DEF Watched
<1> HIDE DEF n, m, r
<1>5. ASSUME NEW k \in 1 .. n + m, r[k].op = "take"
      PROVE  \E j \in k + 1 .. n + m : r[j].op = "check"
  <2>1. CASE k <= n
    <3>1. k \in 1 .. n /\ p[k].op = "take"  BY <1>2, <1>5, <2>1
    <3>2. PICK j \in k + 1 .. n : p[j].op = "check"  BY <1>3, <3>1
    <3>3. j \in k + 1 .. n + m /\ r[j].op = "check"  BY <1>2, <3>1, <3>2
    <3>. QED  BY <3>3
  <2>2. CASE k > n
    <3>1. k - n \in 1 .. m /\ n + (k - n) = k  BY <1>2, <2>2
    <3>2. q[k - n].op = "take"  BY <1>2, <1>5, <3>1
    <3>3. PICK j \in k - n + 1 .. m : q[j].op = "check"  BY <1>4, <3>1, <3>2
    <3>4. j \in 1 .. m /\ n + j \in k + 1 .. n + m  BY <1>2, <3>1, <3>3
    <3>5. r[n + j].op = "check"  BY <1>2, <3>3, <3>4
    <3>. QED  BY <3>4, <3>5
  <2>. QED  BY <1>2, <2>1, <2>2
<1>6. \A k \in 1 .. Len(r) : r[k].op = "take" => \E j \in k + 1 .. Len(r) : r[j].op = "check"
  BY <1>2, <1>5
<1>. QED  BY <1>6 DEF Watched, r

\* What ends by looking at the flag is watched
LEMMA WatchedLast ==
  ASSUME NEW S, NEW p \in Seq(S), Len(p) # 0, p[Len(p)].op = "check"
  PROVE  Watched(p)
<1> DEFINE n == Len(p)
<1>1. n \in Nat /\ p[n].op = "check"  OBVIOUS
<1> HIDE DEF n
<1>2. ASSUME NEW k \in 1 .. n, p[k].op = "take"
      PROVE  \E j \in k + 1 .. n : p[j].op = "check"
  <2>1. k # n  BY <1>1, <1>2
  <2>2. n \in k + 1 .. n  BY <1>1, <2>1
  <2>. QED  BY <1>1, <2>2
<1>. QED  BY <1>2 DEF Watched, n

LEMMA WatchedCheck ==
  ASSUME NEW F, NEW p, WellMade(p, F)
  PROVE  Watched(p \o << Check >>)
<1> DEFINE S == Primitives(F)
           n == Len(p)
           r == p \o << Check >>
<1>1. p \in Seq(S) /\ Check \in S /\ Check.op = "check"  BY DEF Primitives, Check, WellMade
<1> HIDE DEF S
<1>2. r \in Seq(S) /\ n \in Nat /\ Len(r) = n + 1 /\ r[n + 1].op = "check"
  BY <1>1, JoinedOne
<1> HIDE DEF n, r
<1>3. Len(r) # 0 /\ r[Len(r)].op = "check"  BY <1>2
<1>4. Watched(r)  BY <1>2, <1>3, WatchedLast
<1>. QED  BY <1>4 DEF r

\* Nothing waits for the target in these
LEMMA WatchedSilent ==
  /\ \A n \in Nat : Watched(Serials(n))
  /\ Watched(StartSend) /\ Watched(Idle) /\ Watched(Store)
<1>1. ASSUME NEW n \in Nat  PROVE Watched(Serials(n))
  <2>1. Len(Serials(n)) = n /\ \A k \in 1 .. n : Serials(n)[k] = Serial  BY DEF Serials
  <2>2. Serial.op # "take"  BY DEF Serial
  <2>. QED  BY <2>1, <2>2 DEF Watched
<1>2. Watched(StartSend) /\ Watched(Idle)
  <2>1. Len(<< TimerStop >>) = 1 /\ << TimerStop >>[1] = TimerStop  OBVIOUS
  <2>2. TimerStop.op # "take"  BY DEF TimerStop
  <2>3. Watched(<< TimerStop >>)
    <3>1. \A k \in 1 .. 1 : k = 1  OBVIOUS
    <3>. QED  BY <2>1, <2>2, <3>1 DEF Watched
  <2>. QED  BY <2>3 DEF StartSend, Idle
<1>3. Watched(Store)
  <2>1. Usual \in {Usual, Failures}  OBVIOUS
  <2>2. WellMade(StartSend, Usual) /\ WellMade(Idle, Usual)  BY <2>1, WellMadeStore
  <2>. QED  BY <1>2, <2>2, WatchedJoin DEF Store
<1>. QED  BY <1>1, <1>2, <1>3

-------------------------------------------------------------------------------
(* The commands *)

\* After an answer the flag still tells of it when a register was written meanwhile
LEMMA AnsweredStore ==
  ASSUME NEW F \in {Usual, Failures}, NEW p, WellMade(p, F), Answered(p)
  PROVE  Answered(p \o Store)
<1> DEFINE n == Len(p)
           r == p \o Store
<1>1. Store = << TimerStop, TimerStop >>
  <2> DEFINE a == TimerStop
  <2>1. Store = << a >> \o << a >>  BY DEF Store, StartSend, Idle
  <2> HIDE DEF a
  <2>2. Store = << a, a >>  BY <2>1, Join11
  <2>. QED  BY <2>2 DEF a
<1> DEFINE S == Primitives(F)
<1>2. p \in Seq(S) /\ Store \in Seq(S)  BY WellMadeStore DEF WellMade
<1>3. Len(Store) = 2 /\ Store[1].op = "stop" /\ Store[2].op = "stop"
  BY <1>1 DEF TimerStop
<1> HIDE DEF S
<1>4. n \in Nat /\ Len(r) = n + 2 /\ r[n + 1].op = "stop" /\ r[n + 2].op = "stop"
  <2>1. 1 \in 1 .. Len(Store) /\ 2 \in 1 .. Len(Store)  BY <1>3
  <2>2. r[n + 1] = Store[1] /\ r[n + 2] = Store[2]  BY <1>2, <2>1, Joined
  <2>3. n \in Nat /\ Len(r) = n + Len(Store)  BY <1>2, Joined
  <2> HIDE DEF n, r
  <2>. QED  BY <1>3, <2>2, <2>3
<1> HIDE DEF n
<1>5. Asked(r, n + 1) /\ Fresh(r, n + 1)
  <2>1. n + 1 \in 1 .. Len(p) + 1 /\ Asked(p, n + 1) /\ Fresh(p, n + 1)
    BY <1>4 DEF Answered, n
  <2>. QED  BY <1>2, <2>1, SinceFront DEF Asked, Fresh
<1> HIDE DEF r
<1>6. Asked(r, n + 1 + 1) /\ Fresh(r, n + 1 + 1)
  <2>1. n + 1 \in Nat \ {0}  BY <1>4
  <2>. QED  BY <1>4, <1>5, <2>1, SinceNext DEF Asked, Fresh
<1>7. Asked(r, n + 2 + 1) /\ Fresh(r, n + 2 + 1)
  <2>1. n + 2 \in Nat \ {0} /\ n + 1 + 1 = n + 2  BY <1>4
  <2>. QED  BY <1>4, <1>6, <2>1, SinceNext DEF Asked, Fresh
<1>8. Answered(r)  BY <1>4, <1>7 DEF Answered
<1>. QED  BY <1>8 DEF r

\* The three bytes of the pointer read back
LEMMA WellMadePointer ==
  ASSUME NEW F \in {Usual, Failures}
  PROVE  LET p == StartReceive \o << Take("data"), Take("data"), Take("data") >>
         IN  WellMade(p, F) /\ Answered(p)
<1> DEFINE p == << TimerStart, Take("data"), Take("data"), Take("data") >>
<1>1. /\ p \in Seq(Primitives(F)) /\ Len(p) = 4
      /\ p[1].op = "start" /\ p[2].op = "take" /\ p[3].op = "take" /\ p[4].op = "take"
  <2>1. TimerStart \in Primitives(F) /\ Take("data") \in Primitives(F)
    BY PrimitiveOps DEF Regs
  <2>. QED  BY <2>1 DEF TimerStart, Take
<1>2. StartReceive \o << Take("data"), Take("data"), Take("data") >> = p
  BY Join13 DEF StartReceive
<1> HIDE DEF p
<1>3. \A k \in 2 .. 5 : Timed(p, k) /\ Fresh(p, k)
  <2>. SUFFICES ASSUME NEW k \in 2 .. 5  PROVE Timed(p, k) /\ Fresh(p, k)  OBVIOUS
  <2>1. 1 \in 1 .. k - 1 /\ \A i \in 1 + 1 .. k - 1 : i = 2 \/ i = 3 \/ i = 4  OBVIOUS
  <2>2. \A i \in 1 + 1 .. k - 1 : p[i].op = "take"  BY <1>1, <2>1
  <2>. QED  BY <1>1, <2>1, <2>2 DEF Timed, Fresh, Since
<1>4. Asked(p, 5)
  <2>1. 4 \in 1 .. 5 - 1 /\ \A i \in 4 + 1 .. 5 - 1 : FALSE  OBVIOUS
  <2>. QED  BY <1>1, <2>1 DEF Asked, Since
<1>5. \A k \in 1 .. 4 : Founded(p, k)
  <2>1. Founded(p, 1)  BY <1>1 DEF Founded
  <2>2. \A k \in 2 .. 4 : p[k].op = "take" /\ Timed(p, k)
    <3>1. \A k \in 2 .. 4 : (k = 2 \/ k = 3 \/ k = 4) /\ k \in 2 .. 5  OBVIOUS
    <3>. QED  BY <1>1, <1>3, <3>1
  <2>3. \A k \in 1 .. 4 : k = 1 \/ k \in 2 .. 4  OBVIOUS
  <2>. QED  BY <2>1, <2>2, <2>3 DEF Founded
<1>6. WellMade(p, F)  BY <1>1, <1>5 DEF WellMade
<1>7. Answered(p)
  <2>1. 5 \in 2 .. 5 /\ Len(p) + 1 = 5  BY <1>1
  <2>. QED  BY <1>3, <1>4, <2>1 DEF Answered
<1>. QED  BY <1>2, <1>6, <1>7

LEMMA WellMadeStart ==
  ASSUME NEW F \in {Usual, Failures}
  PROVE  WellMade(Start, F) /\ Watched(Start)
<1>1. Check \in Primitives(F) /\ TimerStop \in Primitives(F) /\ Check.op = "check"
      /\ TimerStop.op = "stop"
  <2>1. Check.op = "check" /\ TimerStop.op = "stop"  BY DEF Check, TimerStop
  <2>. QED  BY <2>1, PrimitiveOps
<1> DEFINE a == << TimerStart, Take("pin") >>
           a1 == << TimerStart, Take("pin"), TimerStop, Check >>
           a2 == a1 \o Idle \o Load("statusb")
           a3 == a2 \o << Check >> \o EnterProgmode
           a4 == a3 \o << Check >> \o Serials(3) \o StartSend \o WaitForAck
                   \o StartSend \o StartSend
           a5 == a4 \o (StartReceive \o << Take("data"), Take("data"), Take("data") >>)
           a6 == a5 \o << TimerStop >> \o << Check >>
           a7 == a6 \o Store \o << Check >>
<1>2. WellMade(a1, F)
  <2>1. WellMade(a, F) /\ Answered(a)  BY WellMadeAnswer DEF Regs
  <2>2. a1 = a \o << TimerStop >> \o << Check >>
    <3> DEFINE u == TimerStart
               v == Take("pin")
               x == TimerStop
               y == Check
    <3> HIDE DEF u, v, x, y
    <3>1. << u, v >> \o << x >> = << u, v, x >>  BY Join21
    <3>2. << u, v, x >> \o << y >> = << u, v, x, y >>  BY Join31
    <3>3. << u, v >> \o << x >> \o << y >> = << u, v, x, y >>  BY <3>1, <3>2
    <3>. QED  BY <3>3 DEF u, v, x, y
  <2> HIDE DEF a
  <2>3. WellMade(a \o << TimerStop >>, F) /\ Answered(a \o << TimerStop >>)
    BY <1>1, <2>1, WellMadeAppend
  <2>. QED  BY <1>1, <2>2, <2>3, WellMadeAppend
<1>3. WellMade(a2, F) /\ Answered(a2)
  <2>1. WellMade(Load("statusb"), F) /\ Answered(Load("statusb"))  BY WellMadeLoad DEF Regs
  <2>2. WellMade(Idle, F)  BY WellMadeStore
  <2> HIDE DEF a1
  <2>3. WellMade(a1 \o Idle, F)  BY <1>2, <2>2, WellMadeJoin
  <2>. QED  BY <2>1, <2>3, WellMadeJoin, AnsweredJoin
<1> HIDE DEF a1, a2
<1>4. WellMade(a3, F) /\ Answered(a3)
  <2>1. WellMade(a2 \o << Check >>, F)  BY <1>1, <1>3, WellMadeAppend
  <2>. QED  BY <2>1, WellMadeEnterProgmode, WellMadeJoin, AnsweredJoin
<1> HIDE DEF a3
<1>5. WellMade(a4, F)
  <2>1. WellMade(a3 \o << Check >>, F)  BY <1>1, <1>4, WellMadeAppend
  <2>2. WellMade(Serials(3), F) /\ WellMade(StartSend, F) /\ WellMade(WaitForAck, F)
    BY WellMadeSerials, WellMadeStore, WellMadeWaitForAck
  <2>. QED  BY <2>1, <2>2, WellMadeJoin
<1> HIDE DEF a4
<1>6. WellMade(a5, F) /\ Answered(a5)  BY <1>5, WellMadePointer, WellMadeJoin, AnsweredJoin
<1> HIDE DEF a5
<1>7. WellMade(a6, F) /\ Answered(a6)
  <2>1. WellMade(a5 \o << TimerStop >>, F) /\ Answered(a5 \o << TimerStop >>)
    BY <1>1, <1>6, WellMadeAppend
  <2>. QED  BY <1>1, <2>1, WellMadeAppend
<1> HIDE DEF a6
<1>8. WellMade(a7, F) /\ Watched(a7)
  <2>1. WellMade(a6 \o Store, F) /\ Answered(a6 \o Store)
    BY <1>7, WellMadeStore, WellMadeJoin, AnsweredStore
  <2>. QED  BY <1>1, <2>1, WellMadeAppend, WatchedCheck
<1>. QED  BY <1>8 DEF Start, Idle, a1, a2, a3, a4, a5, a6, a7

\* The bytes of a block, one after another in one wait of the timer
BlockBytes ==
  << TimerStart, Take("data"), Require("received", "rxerr"), Check,
                 Take("data"), Require("received", "rxerr"), Check >>

LEMMA WellMadeBlockBytes ==
  ASSUME NEW F \in {Usual, Failures}
  PROVE  WellMade(BlockBytes, F) /\ Watched(BlockBytes)
<1> DEFINE p == BlockBytes
<1>1. /\ p \in Seq(Primitives(F)) /\ Len(p) = 7
      /\ p[1].op = "start" /\ p[2].op = "take" /\ p[3].op = "require" /\ p[4].op = "check"
      /\ p[5].op = "take" /\ p[6].op = "require" /\ p[7].op = "check"
      /\ p[3].test = "received" /\ p[6].test = "received"
  <2>1. /\ TimerStart \in Primitives(F) /\ Take("data") \in Primitives(F)
        /\ Require("received", "rxerr") \in Primitives(F) /\ Check \in Primitives(F)
    BY PrimitiveOps DEF Regs, Tests, Usual, Failures
  <2>2. p \in Seq(Primitives(F)) /\ Len(p) = 7  BY <2>1 DEF BlockBytes
  <2>. QED  BY <2>2 DEF BlockBytes, TimerStart, Take, Require, Check
<1> HIDE DEF p
<1>2. \A k \in 2 .. 7 : Timed(p, k) /\ Fresh(p, k)
  <2>. SUFFICES ASSUME NEW k \in 2 .. 7  PROVE Timed(p, k) /\ Fresh(p, k)  OBVIOUS
  <2>1. 1 \in 1 .. k - 1 /\ \A i \in 1 + 1 .. k - 1 : i = 2 \/ i = 3 \/ i = 4 \/ i = 5 \/ i = 6
    OBVIOUS
  <2>2. \A i \in 1 + 1 .. k - 1 : p[i].op # "stop" /\ p[i].op # "serial"  BY <1>1, <2>1
  <2>. QED  BY <1>1, <2>1, <2>2 DEF Timed, Fresh, Since
<1>3. \A k \in {3, 4, 6, 7} : Asked(p, k)
  <2>1. ASSUME NEW k \in {3, 4}  PROVE Asked(p, k)
    <3>1. 2 \in 1 .. k - 1 /\ \A i \in 2 + 1 .. k - 1 : i = 3  OBVIOUS
    <3>. QED  BY <1>1, <3>1 DEF Asked, Since
  <2>2. ASSUME NEW k \in {6, 7}  PROVE Asked(p, k)
    <3>1. 5 \in 1 .. k - 1 /\ \A i \in 5 + 1 .. k - 1 : i = 6  OBVIOUS
    <3>. QED  BY <1>1, <3>1 DEF Asked, Since
  <2>. QED  BY <2>1, <2>2
<1>4. \A k \in 1 .. 7 : Founded(p, k)
  <2>1. Founded(p, 1)  BY <1>1 DEF Founded
  <2>2. \A k \in {2, 5} : Founded(p, k)  BY <1>1, <1>2 DEF Founded
  <2>3. \A k \in {3, 4, 6, 7} : Founded(p, k)  BY <1>1, <1>2, <1>3 DEF Founded
  <2>4. \A k \in 1 .. 7 : k = 1 \/ k \in {2, 5} \/ k \in {3, 4, 6, 7}  OBVIOUS
  <2>. QED  BY <2>1, <2>2, <2>3, <2>4
<1>5. WellMade(p, F)  BY <1>1, <1>4 DEF WellMade
<1>6. Watched(p)
  <2>1. Len(p) # 0 /\ p[Len(p)].op = "check"  BY <1>1
  <2>. QED  BY <1>1, <2>1, WatchedLast
<1>. QED  BY <1>5, <1>6 DEF p

LEMMA GetBlockParts ==
  GetBlock = Serials(2) \o StartSend \o StartSend \o BlockBytes \o Idle
<1> DEFINE u == TimerStart
           v == Take("data")
           x == Require("received", "rxerr")
           y == Check
<1>1. GetBlock = Serials(2) \o StartSend \o StartSend
                   \o (<< u >> \o << v, x, y, v, x, y >>) \o Idle
  BY DEF GetBlock, StartReceive
<1>2. BlockBytes = << u, v, x, y, v, x, y >>  BY DEF BlockBytes
<1> HIDE DEF u, v, x, y
<1>3. << u >> \o << v, x, y, v, x, y >> = << u, v, x, y, v, x, y >>  BY Join16
<1>. QED  BY <1>1, <1>2, <1>3

LEMMA WellMadeGet ==
  ASSUME NEW F \in {Usual, Failures}
  PROVE  /\ WellMade(GetBlock, F) /\ Watched(GetBlock)
         /\ WellMade(GetByte, F) /\ Watched(GetByte)
<1>1. Check \in Primitives(F) /\ TimerStop \in Primitives(F) /\ Check.op = "check"
      /\ TimerStop.op = "stop"
  <2>1. Check.op = "check" /\ TimerStop.op = "stop"  BY DEF Check, TimerStop
  <2>. QED  BY <2>1, PrimitiveOps
<1>2. WellMade(Serials(2), F) /\ WellMade(Serials(3), F)  BY WellMadeSerials
<1>3. WellMade(StartSend, F) /\ WellMade(Idle, F)  BY WellMadeStore
<1>4. WellMade(GetBlock, F) /\ Watched(GetBlock)
  <2>1. Watched(Serials(2)) /\ Watched(StartSend) /\ Watched(Idle)  BY WatchedSilent
  <2> DEFINE a == Serials(2) \o StartSend \o StartSend
  <2>2. WellMade(a, F) /\ Watched(a)  BY <1>2, <1>3, <2>1, WellMadeJoin, WatchedJoin
  <2>3. GetBlock = a \o BlockBytes \o Idle  BY GetBlockParts
  <2> HIDE DEF a
  <2>4. WellMade(a \o BlockBytes, F) /\ Watched(a \o BlockBytes)
    BY <2>2, WellMadeBlockBytes, WellMadeJoin, WatchedJoin
  <2>. QED  BY <1>3, <2>1, <2>3, <2>4, WellMadeJoin, WatchedJoin
<1>5. WellMade(GetByte, F) /\ Watched(GetByte)
  <2> DEFINE a == StartSend \o Serials(3)
             b == StartReceive \o << Take("data") >>
  <2>1. WellMade(a, F)  BY <1>2, <1>3, WellMadeJoin
  <2>2. WellMade(b, F) /\ Answered(b)
    <3>1. b = << TimerStart, Take("data") >>  BY Join11 DEF StartReceive
    <3>. QED  BY <3>1, WellMadeAnswer DEF Regs
  <2>3. GetByte = a \o b \o << TimerStop >> \o << Check >>  BY DEF GetByte, Idle
  <2> HIDE DEF a, b
  <2>4. WellMade(a \o b, F) /\ Answered(a \o b)  BY <2>1, <2>2, WellMadeJoin, AnsweredJoin
  <2>5. WellMade(a \o b \o << TimerStop >>, F) /\ Answered(a \o b \o << TimerStop >>)
    BY <1>1, <2>4, WellMadeAppend
  <2>. QED  BY <1>1, <2>3, <2>5, WellMadeAppend, WatchedCheck
<1>. QED  BY <1>4, <1>5

\* The two that test a status and then look at the flag
LEMMA WellMadeStatus ==
  ASSUME NEW F \in {Usual, Failures}
  PROVE  /\ WellMade(SetBaud, F) /\ Watched(SetBaud)
         /\ WellMade(ResetTarget, F) /\ Watched(ResetTarget)
<1>1. Check \in Primitives(F) /\ Check.op = "check"
  <2>1. Check.op = "check"  BY DEF Check
  <2>. QED  BY <2>1, PrimitiveOps
<1>2. WellMade(StatusIsZero, F) /\ Answered(StatusIsZero)
  BY WellMadeTest DEF StatusIsZero, Regs, Tests
<1>3. WellMade(Serials(4), F) /\ WellMade(SystemReset, F)
  BY WellMadeSerials, WellMadeSystemReset
<1>4. /\ WellMade(Serials(4) \o StatusIsZero, F) /\ Answered(Serials(4) \o StatusIsZero)
      /\ WellMade(SystemReset \o StatusIsZero, F) /\ Answered(SystemReset \o StatusIsZero)
  BY <1>2, <1>3, WellMadeJoin, AnsweredJoin
<1>5. /\ WellMade(Serials(4) \o StatusIsZero \o << Check >>, F)
      /\ Watched(Serials(4) \o StatusIsZero \o << Check >>)
  BY <1>1, <1>4, WellMadeAppend, WatchedCheck
<1>6. /\ WellMade(SystemReset \o StatusIsZero \o << Check >>, F)
      /\ Watched(SystemReset \o StatusIsZero \o << Check >>)
  BY <1>1, <1>4, WellMadeAppend, WatchedCheck
<1>. QED  BY <1>5, <1>6 DEF SetBaud, ResetTarget

LEMMA WellMadeWrites ==
  ASSUME NEW F \in {Usual, Failures}
  PROVE  /\ WellMade(Stop, F) /\ WellMade(SendBlock, F) /\ WellMade(SendByte, F)
         /\ WellMade(SendByteNvm, F) /\ WellMade(SetAddr, F) /\ WellMade(FlashPageErase, F)
         /\ WellMade(EepromWriteEnable, F) /\ WellMade(NvmWriteDisable, F)
         /\ WellMade(FlashWriteEnable, F)
<1>1. /\ WellMade(Serials(1), F) /\ WellMade(Serials(2), F) /\ WellMade(Serials(3), F)
      /\ WellMade(Serials(7), F)
  BY WellMadeSerials
<1>2. /\ WellMade(StartSend, F) /\ WellMade(Idle, F) /\ WellMade(Store, F)
      /\ WellMade(WaitForAck, F) /\ WellMade(StoreAcked, F) /\ WellMade(SystemReset, F)
  BY WellMadeStore, WellMadeWaitForAck, WellMadeStoreAcked, WellMadeSystemReset
<1>3. WellMade(NotBusy, F)
  <2>1. WellMade(LoadUntil("nvm", "notBusy", FALSE), F)  BY WellMadeLoadUntil DEF Regs, Tests
  <2>. QED  BY <2>1 DEF NotBusy
<1>4. WellMade(Stop, F)  BY <1>2, WellMadeJoin DEF Stop
<1>5. WellMade(SendBlock, F)  BY <1>1, <1>2, WellMadeJoin DEF SendBlock
<1>6. WellMade(SendByte, F)  BY <1>1, <1>2, WellMadeJoin DEF SendByte
<1>7. WellMade(SendByteNvm, F)  BY <1>3, <1>6, WellMadeJoin DEF SendByteNvm
<1>8. WellMade(SetAddr, F)  BY <1>1, <1>2, WellMadeJoin DEF SetAddr
<1>9. WellMade(FlashPageErase, F)
  <2> DEFINE a == Serials(7) \o StoreAcked \o StoreAcked \o StoreAcked
             b == a \o StartSend \o WaitForAck \o StartSend \o WaitForAck \o Idle \o NotBusy
  <2>1. WellMade(a, F)  BY <1>1, <1>2, WellMadeJoin
  <2> HIDE DEF a
  <2>2. WellMade(b, F)  BY <1>2, <1>3, <2>1, WellMadeJoin
  <2> HIDE DEF b
  <2>3. WellMade(b \o StoreAcked \o StoreAcked, F)  BY <1>2, <2>2, WellMadeJoin
  <2>. QED  BY <2>3 DEF FlashPageErase, a, b
<1>10. WellMade(EepromWriteEnable, F) /\ WellMade(NvmWriteDisable, F)
  BY <1>2, WellMadeJoin DEF EepromWriteEnable, NvmWriteDisable
<1>11. WellMade(FlashWriteEnable, F)
  <2> DEFINE a == Load("sys") \o << Require("progmode", "error") >>
  <2>1. WellMade(a, F)  BY WellMadeTest DEF Regs, Tests
  <2> HIDE DEF a
  <2>2. WellMade(a \o StoreAcked \o StoreAcked \o StoreAcked, F)  BY <1>2, <2>1, WellMadeJoin
  <2>. QED  BY <2>2 DEF FlashWriteEnable, a
<1>. QED  BY <1>4, <1>5, <1>6, <1>7, <1>8, <1>9, <1>10, <1>11

\* Chip erase alone may fail to erase
LEMMA WellMadeChipErase == WellMade(ChipErase, Failures)
<1> DEFINE F == Failures
           e == Require("accepted", "error")
           f == Require("erased", "erasefail")
           a == Store \o Load("key")
           u == LoadUntil("sys", "unlocked", FALSE)
           b == a \o << e >> \o SystemReset
           c == b \o u \o << f >>
<1>1. F \in {Usual, Failures}  OBVIOUS
<1>2. /\ e \in Primitives(F) /\ e.op = "require" /\ e.failure # "rxerr"
      /\ f \in Primitives(F) /\ f.op = "require" /\ f.failure # "rxerr"
  BY DEF Primitives, Require, Tests, Failures
<1>3. WellMade(a, F) /\ Answered(a)
  <2>1. WellMade(Load("key"), F) /\ Answered(Load("key"))  BY WellMadeLoad DEF Regs
  <2>2. WellMade(Store, F)  BY WellMadeStore
  <2>. QED  BY <2>1, <2>2, WellMadeJoin, AnsweredJoin
<1>4. WellMade(u, F) /\ Answered(u)  BY WellMadeLoadUntil DEF Regs, Tests
<1>5. WellMade(SystemReset, F) /\ WellMade(Idle, F) /\ WellMade(EnterProgmode, F)
  BY <1>1, WellMadeSystemReset, WellMadeStore, WellMadeEnterProgmode
<1> HIDE DEF F, e, f, a, u
<1>6. WellMade(b, F)
  <2>1. WellMade(a \o << e >>, F)  BY <1>2, <1>3, WellMadeAppend
  <2>. QED  BY <1>5, <2>1, WellMadeJoin
<1> HIDE DEF b
<1>7. WellMade(c, F)
  <2>1. WellMade(b \o u, F) /\ Answered(b \o u)  BY <1>4, <1>6, WellMadeJoin, AnsweredJoin
  <2>. QED  BY <1>2, <2>1, WellMadeAppend
<1> HIDE DEF c
<1>8. WellMade(c \o Idle \o EnterProgmode, F)  BY <1>5, <1>7, WellMadeJoin
<1>. QED  BY <1>8 DEF ChipErase, F, a, b, c, e, f, u

\* The failures of a command
FailuresOf(c) == IF c = "CHIPERASE" THEN Failures ELSE Usual

\* Every command of main.cpp is well made
LEMMA ProgramsWellMade == \A c \in CommandNames : WellMade(Program[c], FailuresOf(c))
<1>1. Usual \in {Usual, Failures}  OBVIOUS
<1> SUFFICES ASSUME NEW c \in CommandNames  PROVE WellMade(Program[c], FailuresOf(c))
  OBVIOUS
<1>2. CASE c = "START"
  BY <1>1, <1>2, WellMadeStart DEF Program, FailuresOf, CommandNames
<1>3. CASE c \in {"GETBLOCK", "GETBYTE"}
  BY <1>1, <1>3, WellMadeGet DEF Program, FailuresOf, CommandNames
<1>4. CASE c \in {"SETBAUD", "RESETTGT"}
  BY <1>1, <1>4, WellMadeStatus DEF Program, FailuresOf, CommandNames
<1>5. CASE c = "CHIPERASE"
  BY <1>5, WellMadeChipErase DEF Program, FailuresOf, CommandNames
<1>6. CASE c \in {"STOP", "SENDBLOCK", "SENDBYTE", "SENDBYTE_NVM", "SETADDR",
                  "FLASH_PAGE_ERASE", "EEPROM_WR_EN", "FLASH_WR_EN", "NVM_WR_DIS"}
  BY <1>1, <1>6, WellMadeWrites DEF Program, FailuresOf, CommandNames
<1>. QED  BY <1>2, <1>3, <1>4, <1>5, <1>6 DEF CommandNames

\* The commands that look at the flag after every wait are the ones that say so
LEMMA ProgramsWatched == \A c \in CommandNames \ Unguarded : Watched(Program[c])
<1>1. Usual \in {Usual, Failures}  OBVIOUS
<1>2. Watched(Program["START"])  BY <1>1, WellMadeStart DEF Program, CommandNames
<1>3. Watched(Program["GETBLOCK"]) /\ Watched(Program["GETBYTE"])
  BY <1>1, WellMadeGet DEF Program, CommandNames
<1>4. Watched(Program["SETBAUD"]) /\ Watched(Program["RESETTGT"])
  BY <1>1, WellMadeStatus DEF Program, CommandNames
<1>5. Watched(Program["SENDBLOCK"])
  <2>1. /\ WellMade(Serials(2), Usual) /\ WellMade(Store, Usual)
        /\ WellMade(StartSend, Usual) /\ WellMade(Idle, Usual)
    BY <1>1, WellMadeSerials, WellMadeStore
  <2>2. Watched(Serials(2)) /\ Watched(Store) /\ Watched(StartSend) /\ Watched(Idle)
    BY WatchedSilent
  <2>3. Watched(SendBlock)  BY <2>1, <2>2, WellMadeJoin, WatchedJoin DEF SendBlock
  <2>. QED  BY <2>3 DEF Program, CommandNames
<1>. QED  BY <1>2, <1>3, <1>4, <1>5 DEF CommandNames, Unguarded

-------------------------------------------------------------------------------
(* Noticing silence *)

\* From primitive k of p, with the flag as given, some check is yet to come that finds
\* the flag set: it is set already, or something is waited for before the check
Noticing(p, k, f) ==
  \E j \in k .. Len(p) :
    p[j].op = "check" /\ (f \/ \E i \in k .. j - 1 : p[i].op = "take")

LEMMA NoticingNext ==
  ASSUME NEW F, NEW p, WellMade(p, F), NEW k \in 1 .. Len(p), NEW f \in BOOLEAN,
         Noticing(p, k, f), p[k].op # "check", f \/ p[k].op # "take"
  PROVE  Noticing(p, k + 1, f)
<1>1. Len(p) \in Nat  BY DEF WellMade
<1>2. PICK j \in k .. Len(p) :
        p[j].op = "check" /\ (f \/ \E i \in k .. j - 1 : p[i].op = "take")
  BY DEF Noticing
<1>3. j \in k + 1 .. Len(p)  BY <1>1, <1>2
<1>4. f \/ \E i \in k + 1 .. j - 1 : p[i].op = "take"
  <2>. SUFFICES ASSUME ~f  PROVE \E i \in k + 1 .. j - 1 : p[i].op = "take"  OBVIOUS
  <2>1. PICK i \in k .. j - 1 : p[i].op = "take"  BY <1>2
  <2>2. i # k  BY <2>1
  <2>3. i \in k + 1 .. j - 1  BY <2>2
  <2>. QED  BY <2>1, <2>3
<1>. QED  BY <1>2, <1>3, <1>4 DEF Noticing

\* A flag that is set is noticed from earlier primitives too
LEMMA NoticingBack ==
  ASSUME NEW F, NEW p, WellMade(p, F), NEW k \in Nat, NEW l \in 1 .. k, NEW f \in BOOLEAN,
         Noticing(p, k, f)
  PROVE  Noticing(p, l, TRUE)
<1>1. PICK j \in k .. Len(p) : p[j].op = "check"  BY DEF Noticing
<1>2. Len(p) \in Nat  BY DEF WellMade
<1>3. j \in l .. Len(p)  BY <1>2
<1>. QED  BY <1>1, <1>3 DEF Noticing

\* Clearing the flag does no harm: before a check, the target is waited for again
LEMMA NoticingStart ==
  ASSUME NEW F, NEW p, WellMade(p, F), NEW k \in 1 .. Len(p), NEW f \in BOOLEAN,
         Noticing(p, k, f), p[k].op = "start"
  PROVE  Noticing(p, k + 1, FALSE)
<1>1. Len(p) \in Nat  BY DEF WellMade
<1>2. PICK j \in k .. Len(p) : p[j].op = "check"  BY DEF Noticing
<1>3. j # k  BY <1>2
<1>4. j \in k + 1 .. Len(p) /\ j \in 1 .. Len(p)  BY <1>1, <1>3
<1>5. Asked(p, j)  BY <1>2, <1>4 DEF WellMade, Founded
<1>6. PICK s \in 1 .. j - 1 : p[s].op = "take" /\ \A i \in s + 1 .. j - 1 : p[i].op # "start"
  BY <1>5 DEF Asked, Since
<1>7. s # k /\ ~(s < k)
  <2>1. s # k  BY <1>6
  <2>2. s < k => k \in s + 1 .. j - 1  BY <1>4
  <2>. QED  BY <1>6, <2>1, <2>2
<1>8. s \in k + 1 .. j - 1  BY <1>7
<1>. QED  BY <1>2, <1>4, <1>6, <1>8 DEF Noticing

LEMMA NoticingTake ==
  ASSUME NEW F, NEW p, WellMade(p, F), Watched(p), NEW k \in 1 .. Len(p), p[k].op = "take"
  PROVE  Noticing(p, k + 1, TRUE)
  BY DEF Watched, Noticing

-------------------------------------------------------------------------------
(* The inductive invariant *)

\* The timer runs or has expired since it was started last
TimerRuns ==
  pc \in 1 .. Len(Program[cmd]) /\ Op.op # "stop" /\ Timed(Program[cmd], pc)
    => timer = "on" \/ flag

\* A flag that is not left from waiting for the controller is about the target
FlagIsFresh ==
  pc \in 1 .. Len(Program[cmd]) /\ Op.op # "serial" /\ Fresh(Program[cmd], pc) /\ flag
    => silent \/ (Op.op = "take" /\ ~Alive)

\* A target that went silent is dead, left no byte, and the flag tells of it once the
\* target has been waited for since the flag was cleared
SilenceIsTold ==
  pc # 0 /\ silent => ~Alive /\ last # RxError /\ (Asked(Program[cmd], pc) => flag)

\* And the commands that watch will notice
SilenceIsComing ==
  pc # 0 /\ silent /\ cmd \notin Unguarded => Noticing(Program[cmd], pc, flag)

IInv ==
  /\ TypeOK /\ TimerRuns /\ FlagIsFresh /\ SilenceIsTold /\ SilenceIsComing
  /\ NoFalseTimeout /\ SilenceNoticed

\* What the invariant says of the primitive that is next
LEMMA NextPrimitive ==
  ASSUME TypeOK
  PROVE  /\ WellMade(Program[cmd], FailuresOf(cmd))
         /\ Len(Program[cmd]) \in Nat /\ DOMAIN Program[cmd] = 1 .. Len(Program[cmd])
         /\ pc \in Nat
         /\ cmd \notin Unguarded => Watched(Program[cmd])
         /\ pc \in 1 .. Len(Program[cmd]) =>
              /\ pc + 1 \in 1 .. Len(Program[cmd]) + 1
              /\ Op \in Primitives(FailuresOf(cmd))
              /\ Founded(Program[cmd], pc)
              /\ Timed(Program[cmd], pc + 1)
                   <=> Op.op = "start" \/ (Timed(Program[cmd], pc) /\ Op.op # "stop")
              /\ Fresh(Program[cmd], pc + 1)
                   <=> Op.op = "start" \/ (Fresh(Program[cmd], pc) /\ Op.op # "serial")
              /\ Asked(Program[cmd], pc + 1)
                   <=> Op.op = "take" \/ (Asked(Program[cmd], pc) /\ Op.op # "start")
<1> DEFINE p == Program[cmd]
<1>1. cmd \in CommandNames  BY CommandsAssumption DEF TypeOK
<1>2. WellMade(p, FailuresOf(cmd)) /\ (cmd \notin Unguarded => Watched(p))
  BY <1>1, ProgramsWellMade, ProgramsWatched
<1>3. p \in Seq(Primitives(FailuresOf(cmd)))  BY <1>2 DEF WellMade
<1>4. Len(p) \in Nat /\ DOMAIN p = 1 .. Len(p) /\ pc \in Nat  BY <1>3 DEF TypeOK
<1>5. ASSUME pc \in 1 .. Len(p)
      PROVE  /\ pc + 1 \in 1 .. Len(p) + 1
             /\ p[pc] \in Primitives(FailuresOf(cmd))
             /\ Founded(p, pc)
             /\ Timed(p, pc + 1) <=> p[pc].op = "start" \/ (Timed(p, pc) /\ p[pc].op # "stop")
             /\ Fresh(p, pc + 1) <=> p[pc].op = "start" \/ (Fresh(p, pc) /\ p[pc].op # "serial")
             /\ Asked(p, pc + 1) <=> p[pc].op = "take" \/ (Asked(p, pc) /\ p[pc].op # "start")
  <2> HIDE DEF p
  <2>1. pc \in Nat \ {0} /\ pc + 1 \in 1 .. Len(p) + 1  BY <1>4, <1>5
  <2>2. p[pc] \in Primitives(FailuresOf(cmd)) /\ Founded(p, pc)
    BY <1>2, <1>3, <1>5 DEF WellMade
  <2>. QED  BY <2>1, <2>2, SinceNext DEF Timed, Fresh, Asked
<1>. QED  BY <1>2, <1>4, <1>5 DEF Op

-------------------------------------------------------------------------------
(* One lemma per action *)

LEMMA InitHolds == Init => IInv
<1> SUFFICES ASSUME Init  PROVE IInv  OBVIOUS
<1>1. TimeoutTotalValue \in Word16
  BY DEF Word16, TimeoutTotalValue, UPDI_TIMEOUT_MS, FCpuBy1024, LongBy1024
<1>2. Len(Program[cmd]) \in Nat
  <2>1. cmd \in CommandNames  BY CommandsAssumption DEF Init
  <2>2. Program[cmd] \in Seq(Primitives(FailuresOf(cmd)))
    BY <2>1, ProgramsWellMade DEF WellMade
  <2>. QED  BY <2>2
<1>3. TypeOK
  <2>1. /\ cmd \in Commands /\ pc \in 0 .. Len(Program[cmd]) + 1 /\ timer \in {"on", "off"}
        /\ last \in 0 .. RxError /\ reply = "none" /\ target \in Targets
        /\ rounds \in 0 .. MaxRounds /\ ocr1a \in Word16
    BY <1>1, <1>2, MaxRoundsAssumption DEF Init, RxError
  <2>2. flag \in BOOLEAN /\ silent \in BOOLEAN  BY DEF Init
  <2>. QED  BY <2>1, <2>2 DEF TypeOK
<1>. QED
  BY <1>3 DEF Init, IInv, TimerRuns, FlagIsFresh, SilenceIsTold, SilenceIsComing,
              NoFalseTimeout, SilenceNoticed

LEMMA NextCommandKeeps == IInv /\ NextCommand => IInv'
<1> SUFFICES ASSUME IInv, NextCommand  PROVE IInv'  OBVIOUS
<1>1. TypeOK /\ cmd' \in Commands /\ pc' = 1 /\ silent' = FALSE /\ reply' = "none"
  BY DEF IInv, NextCommand
<1>2. Len(Program[cmd]') \in Nat /\ DOMAIN Program[cmd]' = 1 .. Len(Program[cmd]')
  <2>1. cmd' \in CommandNames  BY <1>1, CommandsAssumption
  <2>2. Program[cmd'] \in Seq(Primitives(FailuresOf(cmd')))
    BY <2>1, ProgramsWellMade DEF WellMade
  <2>. QED  BY <2>2
<1>3. TypeOK'
  <2>1. UNCHANGED <<timer, flag, last, ocr1a>> /\ rounds' = 0
        /\ target' \in {target} \cup Answering
    BY DEF NextCommand
  <2>2. pc' \in 0 .. Len(Program[cmd]') + 1  BY <1>1, <1>2
  <2>3. target' \in Targets /\ rounds' \in 0 .. MaxRounds
    BY <1>1, <2>1, MaxRoundsAssumption DEF TypeOK, Targets
  <2>. QED  BY <1>1, <2>1, <2>2, <2>3 DEF TypeOK
<1>4. ~Timed(Program[cmd'], 1) /\ ~Fresh(Program[cmd'], 1)  BY DEF Timed, Fresh, Since
<1>5. TimerRuns' /\ FlagIsFresh'  BY <1>1, <1>4 DEF TimerRuns, FlagIsFresh
<1>6. SilenceIsTold' /\ SilenceIsComing' /\ NoFalseTimeout' /\ SilenceNoticed'
  BY <1>1 DEF SilenceIsTold, SilenceIsComing, NoFalseTimeout, SilenceNoticed
<1>. QED  BY <1>3, <1>5, <1>6 DEF IInv

\* How a command ends: as the invariant wants it
LEMMA EndKeeps ==
  ASSUME IInv, pc # 0, NEW how, Ends(how), flag' \in BOOLEAN,
         how \in {"ok", "timeout", "noack", "error", "rxerr", "erasefail"},
         how = "timeout" => silent,
         silent => \/ how = "timeout"
                   \/ how = "ok" /\ cmd \in Unguarded
                   \/ how = "erasefail" /\ cmd = "CHIPERASE"
  PROVE  IInv'
<1>1. /\ TypeOK /\ pc' = 0 /\ reply' = how /\ cmd' = cmd /\ silent' = silent
      /\ UNCHANGED <<timer, last, target, rounds, ocr1a>>
  BY DEF IInv, Ends
<1>2. Len(Program[cmd]) \in Nat  BY <1>1, NextPrimitive
<1>3. TypeOK'
  <2>1. 0 \in 0 .. Len(Program[cmd]) + 1  BY <1>2
  <2>. QED  BY <1>1, <2>1 DEF TypeOK
<1>4. TimerRuns' /\ FlagIsFresh' /\ SilenceIsTold' /\ SilenceIsComing'
  BY <1>1 DEF TimerRuns, FlagIsFresh, SilenceIsTold, SilenceIsComing
<1>5. NoFalseTimeout' /\ SilenceNoticed'  BY <1>1 DEF NoFalseTimeout, SilenceNoticed
<1>. QED  BY <1>3, <1>4, <1>5 DEF IInv

LEMMA FinishKeeps == IInv /\ Finish => IInv'
<1> SUFFICES ASSUME IInv, Finish  PROVE IInv'  OBVIOUS
<1>1. /\ TypeOK /\ pc = Len(Program[cmd]) + 1 /\ Ends("ok") /\ flag' = flag
      /\ Len(Program[cmd]) \in Nat
  BY NextPrimitive DEF IInv, Finish
<1>2. pc # 0 /\ flag' \in BOOLEAN  BY <1>1 DEF TypeOK
<1>3. silent => cmd \in Unguarded
  <2>1. ~Noticing(Program[cmd], pc, flag)  BY <1>1 DEF Noticing
  <2>. QED  BY <1>2, <2>1 DEF IInv, SilenceIsComing
<1>. QED  BY <1>1, <1>2, <1>3, EndKeeps

\* A step to the next primitive
LEMMA AdvanceKeeps ==
  ASSUME IInv, pc \in 1 .. Len(Program[cmd]), pc' = pc + 1, cmd' = cmd, reply' = reply,
         timer' \in {"on", "off"}, flag' \in BOOLEAN, last' \in 0 .. RxError,
         target' = target, silent' \in BOOLEAN, rounds' \in 0 .. MaxRounds, ocr1a' = ocr1a,
         silent => silent',
         Timed(Program[cmd], pc + 1) => timer' = "on" \/ flag',
         Fresh(Program[cmd], pc + 1) /\ flag' => silent',
         silent' => ~Alive /\ last' # RxError /\ (Asked(Program[cmd], pc + 1) => flag'),
         silent' /\ cmd \notin Unguarded => Noticing(Program[cmd], pc + 1, flag')
  PROVE  IInv'
<1>1. TypeOK /\ pc' # 0 /\ pc + 1 \in 0 .. Len(Program[cmd]) + 1
  <2>1. TypeOK /\ Len(Program[cmd]) \in Nat  BY NextPrimitive DEF IInv
  <2>. QED  BY <2>1
<1>2. TypeOK'  BY <1>1 DEF TypeOK
<1>3. TimerRuns' /\ FlagIsFresh'  BY DEF TimerRuns, FlagIsFresh
<1>4. SilenceIsTold' /\ SilenceIsComing'  BY DEF SilenceIsTold, SilenceIsComing, Alive
<1>5. NoFalseTimeout' /\ SilenceNoticed'
  BY <1>1 DEF IInv, NoFalseTimeout, SilenceNoticed
<1>. QED  BY <1>2, <1>3, <1>4, <1>5 DEF IInv

\* What the invariant says where a primitive is next
LEMMA AtPrimitive ==
  ASSUME IInv, NEW op, At(op)
  PROVE  /\ TypeOK /\ pc \in 1 .. Len(Program[cmd]) /\ pc # 0 /\ Program[cmd][pc].op = op
         /\ op # "stop" /\ Timed(Program[cmd], pc) => timer = "on" \/ flag
         /\ op # "serial" /\ Fresh(Program[cmd], pc) /\ flag
              => silent \/ (op = "take" /\ ~Alive)
         /\ silent => ~Alive /\ last # RxError /\ (Asked(Program[cmd], pc) => flag)
         /\ silent /\ cmd \notin Unguarded => Noticing(Program[cmd], pc, flag)
<1>1. TypeOK /\ pc \in 1 .. Len(Program[cmd]) /\ Op.op = op
  <2>1. TypeOK /\ pc \in DOMAIN Program[cmd] /\ Op.op = op  BY DEF IInv, At
  <2>. QED  BY <2>1, NextPrimitive
<1>2. pc # 0  BY <1>1
<1>. QED
  BY <1>1, <1>2 DEF IInv, Op, TimerRuns, FlagIsFresh, SilenceIsTold, SilenceIsComing


LEMMA StartTimerKeeps == IInv /\ StartTimer => IInv'
<1> SUFFICES ASSUME IInv, StartTimer  PROVE IInv'  OBVIOUS
<1>1. At("start") /\ pc' = pc + 1 /\ timer' = "on" /\ flag' = FALSE
      /\ UNCHANGED <<cmd, last, reply, target, silent, rounds, ocr1a>>
  BY DEF StartTimer
<1>2. /\ TypeOK /\ pc \in 1 .. Len(Program[cmd]) /\ Program[cmd][pc].op = "start"
      /\ silent => ~Alive /\ last # RxError
      /\ silent /\ cmd \notin Unguarded => Noticing(Program[cmd], pc, flag)
  BY <1>1, AtPrimitive
<1>3. ~Asked(Program[cmd], pc + 1) /\ WellMade(Program[cmd], FailuresOf(cmd))
  BY <1>2, NextPrimitive DEF Op
<1>4. silent /\ cmd \notin Unguarded => Noticing(Program[cmd], pc + 1, FALSE)
  <2>1. flag \in BOOLEAN  BY <1>2 DEF TypeOK
  <2>. QED  BY <1>2, <1>3, <2>1, NoticingStart
<1>5. /\ silent \in BOOLEAN /\ last \in 0 .. RxError /\ rounds \in 0 .. MaxRounds
  BY <1>2 DEF TypeOK
<1>. QED  BY <1>1, <1>2, <1>3, <1>4, <1>5, AdvanceKeeps

LEMMA StopTimerKeeps == IInv /\ StopTimer => IInv'
<1> SUFFICES ASSUME IInv, StopTimer  PROVE IInv'  OBVIOUS
<1>1. At("stop") /\ pc' = pc + 1 /\ timer' = "off"
      /\ UNCHANGED <<cmd, flag, last, reply, target, silent, rounds, ocr1a>>
  BY DEF StopTimer
<1>2. /\ TypeOK /\ pc \in 1 .. Len(Program[cmd]) /\ Program[cmd][pc].op = "stop"
      /\ Fresh(Program[cmd], pc) /\ flag => silent
      /\ silent => ~Alive /\ last # RxError /\ (Asked(Program[cmd], pc) => flag)
      /\ silent /\ cmd \notin Unguarded => Noticing(Program[cmd], pc, flag)
  BY <1>1, AtPrimitive
<1>3. /\ ~Timed(Program[cmd], pc + 1) /\ WellMade(Program[cmd], FailuresOf(cmd))
      /\ Fresh(Program[cmd], pc + 1) => Fresh(Program[cmd], pc)
      /\ Asked(Program[cmd], pc + 1) => Asked(Program[cmd], pc)
  BY <1>2, NextPrimitive DEF Op
<1>4. silent /\ cmd \notin Unguarded => Noticing(Program[cmd], pc + 1, flag)
  <2>1. flag \in BOOLEAN  BY <1>2 DEF TypeOK
  <2>. QED  BY <1>2, <1>3, <2>1, NoticingNext
<1>5. /\ silent \in BOOLEAN /\ last \in 0 .. RxError /\ rounds \in 0 .. MaxRounds
      /\ flag \in BOOLEAN
  BY <1>2 DEF TypeOK
<1>. QED  BY <1>1, <1>2, <1>3, <1>4, <1>5, AdvanceKeeps

LEMMA ReceiveSerialKeeps == IInv /\ ReceiveSerial => IInv'
<1> SUFFICES ASSUME IInv, ReceiveSerial  PROVE IInv'  OBVIOUS
<1>1. At("serial") /\ pc' = pc + 1
      /\ UNCHANGED <<cmd, timer, flag, last, reply, target, silent, rounds, ocr1a>>
  BY DEF ReceiveSerial
<1>2. /\ TypeOK /\ pc \in 1 .. Len(Program[cmd]) /\ Program[cmd][pc].op = "serial"
      /\ Timed(Program[cmd], pc) => timer = "on" \/ flag
      /\ silent => ~Alive /\ last # RxError /\ (Asked(Program[cmd], pc) => flag)
      /\ silent /\ cmd \notin Unguarded => Noticing(Program[cmd], pc, flag)
  BY <1>1, AtPrimitive
<1>3. /\ ~Fresh(Program[cmd], pc + 1) /\ WellMade(Program[cmd], FailuresOf(cmd))
      /\ Timed(Program[cmd], pc + 1) => Timed(Program[cmd], pc)
      /\ Asked(Program[cmd], pc + 1) => Asked(Program[cmd], pc)
  BY <1>2, NextPrimitive DEF Op
<1>4. silent /\ cmd \notin Unguarded => Noticing(Program[cmd], pc + 1, flag)
  <2>1. flag \in BOOLEAN  BY <1>2 DEF TypeOK
  <2>. QED  BY <1>2, <1>3, <2>1, NoticingNext
<1>5. /\ silent \in BOOLEAN /\ last \in 0 .. RxError /\ rounds \in 0 .. MaxRounds
      /\ flag \in BOOLEAN /\ timer \in {"on", "off"}
  BY <1>2 DEF TypeOK
<1>. QED  BY <1>1, <1>2, <1>3, <1>4, <1>5, AdvanceKeeps

\* What a live target may answer is a byte, or the receiver's error
LEMMA AnswersAreBytes == ASSUME NEW reg \in Regs  PROVE Answers(reg) \subseteq 0 .. RxError
<1>1. CASE reg = "sys"
  BY <1>1 DEF Answers, RxError
<1>2. CASE reg # "sys"
  BY <1>2 DEF Answers, RxError, Regs
<1>. QED  BY <1>1, <1>2

LEMMA TakeByteKeeps == IInv /\ TakeByte => IInv'
<1> SUFFICES ASSUME IInv, TakeByte  PROVE IInv'  OBVIOUS
<1>1. At("take") /\ Alive /\ ~flag /\ last' \in Answers(Op.reg) /\ pc' = pc + 1
      /\ UNCHANGED <<cmd, timer, flag, reply, target, silent, rounds, ocr1a>>
  BY DEF TakeByte
<1>2. /\ TypeOK /\ pc \in 1 .. Len(Program[cmd]) /\ Program[cmd][pc].op = "take" /\ ~silent
      /\ Timed(Program[cmd], pc) => timer = "on" \/ flag
  BY <1>1, AtPrimitive
<1>3. /\ Timed(Program[cmd], pc + 1) => Timed(Program[cmd], pc)
      /\ Op \in Primitives(FailuresOf(cmd)) /\ Op.op = "take"
  BY <1>2, NextPrimitive DEF Op
<1>4. last' \in 0 .. RxError
  <2>1. Op.reg \in Regs  BY <1>3 DEF Primitives
  <2>. QED  BY <1>1, <2>1, AnswersAreBytes
<1>5. /\ silent \in BOOLEAN /\ rounds \in 0 .. MaxRounds
      /\ flag \in BOOLEAN /\ timer \in {"on", "off"}
  BY <1>2 DEF TypeOK
<1>. QED  BY <1>1, <1>2, <1>3, <1>4, <1>5, AdvanceKeeps

LEMMA TakeNothingKeeps == IInv /\ TakeNothing => IInv'
<1> SUFFICES ASSUME IInv, TakeNothing  PROVE IInv'  OBVIOUS
<1>1. At("take") /\ flag /\ last' \in Leftover \ {RxError} /\ pc' = pc + 1
      /\ UNCHANGED <<cmd, timer, flag, reply, target, rounds, ocr1a>>
  BY DEF TakeNothing
<1>2. /\ TypeOK /\ pc \in 1 .. Len(Program[cmd]) /\ Program[cmd][pc].op = "take"
      /\ Fresh(Program[cmd], pc) => silent \/ ~Alive
      /\ silent => ~Alive
  <2>1. At("take") /\ flag  BY <1>1
  <2>2. TypeOK /\ pc \in 1 .. Len(Program[cmd]) /\ Program[cmd][pc].op = "take"
    BY <2>1, AtPrimitive
  <2>3. silent => ~Alive  BY <2>1, AtPrimitive
  <2>4. Fresh(Program[cmd], pc) /\ flag => silent \/ ~Alive
    BY <2>1, <2>2 DEF IInv, FlagIsFresh, Op
  <2>. QED  BY <2>1, <2>2, <2>3, <2>4
<1>3. silent' \in BOOLEAN /\ (silent' <=> silent \/ ~Alive)
  <2>1. silent' = (silent \/ ~Alive)  BY DEF TakeNothing
  <2>. QED  BY <2>1
<1>4. /\ Fresh(Program[cmd], pc + 1) => Fresh(Program[cmd], pc)
      /\ WellMade(Program[cmd], FailuresOf(cmd))
      /\ cmd \notin Unguarded => Watched(Program[cmd])
  BY <1>2, NextPrimitive DEF Op
<1>5. cmd \notin Unguarded => Noticing(Program[cmd], pc + 1, TRUE)
  BY <1>2, <1>4, NoticingTake
<1>6. /\ rounds \in 0 .. MaxRounds /\ flag \in BOOLEAN /\ timer \in {"on", "off"}
      /\ last' \in 0 .. RxError /\ last' # RxError
  <2>1. /\ rounds \in 0 .. MaxRounds /\ flag \in BOOLEAN /\ timer \in {"on", "off"}
        /\ last \in 0 .. RxError
    BY <1>2 DEF TypeOK
  <2>2. last' \in {last, 0, 255} /\ last' # RxError  BY <1>1 DEF Leftover
  <2>3. last' \in 0 .. RxError  BY <2>1, <2>2 DEF RxError
  <2>. QED  BY <2>1, <2>2, <2>3
<1>7. flag' = TRUE  BY <1>1, <1>6
<1>. QED  BY <1>1, <1>2, <1>3, <1>4, <1>5, <1>6, <1>7, AdvanceKeeps

\* A primitive that lets the command go on without a change
LEMMA PassKeeps ==
  ASSUME IInv, NEW op \in {"check", "require", "poll"}, At(op), pc' = pc + 1,
         op = "check" => ~flag, rounds' \in 0 .. MaxRounds,
         UNCHANGED <<cmd, timer, flag, last, reply, target, silent, ocr1a>>
  PROVE  IInv'
<1>1. /\ TypeOK /\ pc \in 1 .. Len(Program[cmd]) /\ Program[cmd][pc].op = op
      /\ Timed(Program[cmd], pc) => timer = "on" \/ flag
      /\ Fresh(Program[cmd], pc) /\ flag => silent
      /\ silent => ~Alive /\ last # RxError /\ (Asked(Program[cmd], pc) => flag)
      /\ silent /\ cmd \notin Unguarded => Noticing(Program[cmd], pc, flag)
  BY AtPrimitive
<1>2. /\ WellMade(Program[cmd], FailuresOf(cmd))
      /\ Timed(Program[cmd], pc + 1) => Timed(Program[cmd], pc)
      /\ Fresh(Program[cmd], pc + 1) => Fresh(Program[cmd], pc)
      /\ Asked(Program[cmd], pc + 1) => Asked(Program[cmd], pc)
      /\ Asked(Program[cmd], pc)
  BY <1>1, NextPrimitive DEF Op, Founded
<1>3. silent => op # "check"  BY <1>1, <1>2
<1>4. silent /\ cmd \notin Unguarded => Noticing(Program[cmd], pc + 1, flag)
  <2>1. flag \in BOOLEAN  BY <1>1 DEF TypeOK
  <2>. QED  BY <1>1, <1>2, <1>3, <2>1, NoticingNext
<1>5. /\ silent \in BOOLEAN /\ last \in 0 .. RxError
      /\ flag \in BOOLEAN /\ timer \in {"on", "off"}
  BY <1>1 DEF TypeOK
<1>. QED  BY <1>1, <1>2, <1>4, <1>5, AdvanceKeeps

LEMMA CheckTimeoutKeeps == IInv /\ CheckTimeout => IInv'
<1> SUFFICES ASSUME IInv, CheckTimeout  PROVE IInv'  OBVIOUS
<1>1. /\ At("check") /\ TypeOK /\ pc \in 1 .. Len(Program[cmd]) /\ pc # 0
      /\ Program[cmd][pc].op = "check"
      /\ Fresh(Program[cmd], pc) /\ flag => silent
  BY AtPrimitive DEF CheckTimeout
<1>2. CASE flag /\ TimesOut
  <2>1. Fresh(Program[cmd], pc)  BY <1>1, NextPrimitive DEF Founded
  <2>2. silent /\ Ends("timeout") /\ flag' \in BOOLEAN  BY <1>1, <1>2, <2>1 DEF TimesOut
  <2>. QED  BY <1>1, <2>2, EndKeeps
<1>3. CASE /\ ~flag /\ pc' = pc + 1
           /\ UNCHANGED <<cmd, timer, flag, last, reply, target, silent, rounds, ocr1a>>
  <2>1. rounds' \in 0 .. MaxRounds  BY <1>1, <1>3 DEF TypeOK
  <2>. QED  BY <1>1, <1>3, <2>1, PassKeeps
<1>. QED  BY <1>2, <1>3 DEF CheckTimeout

LEMMA CheckByteKeeps == IInv /\ CheckByte => IInv'
<1> SUFFICES ASSUME IInv, CheckByte  PROVE IInv'  OBVIOUS
<1>1. /\ At("require") /\ TypeOK /\ pc \in 1 .. Len(Program[cmd]) /\ pc # 0
      /\ Program[cmd][pc].op = "require"
      /\ Fresh(Program[cmd], pc) /\ flag => silent
      /\ silent => last # RxError /\ (Asked(Program[cmd], pc) => flag)
  BY AtPrimitive DEF CheckByte
<1>2. /\ Asked(Program[cmd], pc) /\ Fresh(Program[cmd], pc)
      /\ Op.failure = "rxerr" => Op.test = "received"
      /\ Op \in Primitives(FailuresOf(cmd)) /\ Op.op = "require"
  BY <1>1, NextPrimitive DEF Op, Founded
<1>3. Op.failure \in FailuresOf(cmd)  BY <1>2 DEF Primitives
<1>4. CASE /\ Holds(Op.test, last) /\ pc' = pc + 1
           /\ UNCHANGED <<cmd, timer, flag, last, reply, target, silent, rounds, ocr1a>>
  <2>1. rounds' \in 0 .. MaxRounds  BY <1>1, <1>4 DEF TypeOK
  <2>. QED  BY <1>1, <1>4, <2>1, PassKeeps
<1>5. CASE flag /\ TimesOut
  <2>1. silent /\ Ends("timeout") /\ flag' \in BOOLEAN  BY <1>1, <1>2, <1>5 DEF TimesOut
  <2>. QED  BY <1>1, <2>1, EndKeeps
<1>6. CASE /\ ~Holds(Op.test, last)
           /\ ~flag \/ Op.failure \in {"erasefail", "rxerr"}
           /\ Ends(Op.failure) /\ UNCHANGED flag
  <2>1. Op.failure = "rxerr" => last = RxError  BY <1>2, <1>6 DEF Holds
  <2>2. silent => Op.failure = "erasefail"  BY <1>1, <1>2, <1>6, <2>1
  <2>3. Op.failure = "erasefail" => cmd = "CHIPERASE"
    BY <1>3 DEF FailuresOf, Usual
  <2>4. Op.failure \in Failures  BY <1>3 DEF FailuresOf, Usual
  <2>5. /\ Op.failure \in {"ok", "timeout", "noack", "error", "rxerr", "erasefail"}
        /\ Op.failure # "timeout"
    BY <2>4 DEF Failures
  <2>6. flag' \in BOOLEAN  BY <1>1, <1>6 DEF TypeOK
  <2>. QED  BY <1>1, <1>6, <2>2, <2>3, <2>5, <2>6, EndKeeps
<1>. QED  BY <1>4, <1>5, <1>6 DEF CheckByte

LEMMA PollAgainKeeps == IInv /\ PollAgain => IInv'
<1> SUFFICES ASSUME IInv, PollAgain  PROVE IInv'  OBVIOUS
<1>1. /\ At("poll") /\ TypeOK /\ pc \in 1 .. Len(Program[cmd]) /\ pc # 0
      /\ Program[cmd][pc].op = "poll"
      /\ Fresh(Program[cmd], pc) /\ flag => silent
      /\ silent => ~Alive /\ last # RxError /\ (Asked(Program[cmd], pc) => flag)
      /\ silent /\ cmd \notin Unguarded => Noticing(Program[cmd], pc, flag)
  BY AtPrimitive DEF PollAgain
<1>2. /\ Asked(Program[cmd], pc) /\ Fresh(Program[cmd], pc)
      /\ pc > 4 /\ Program[cmd][pc - 4].op = "stop"
      /\ Op \in Primitives(FailuresOf(cmd)) /\ Op.op = "poll"
      /\ WellMade(Program[cmd], FailuresOf(cmd)) /\ Len(Program[cmd]) \in Nat
  BY <1>1, NextPrimitive DEF Op, Founded
<1>3. Op.back = 4  BY <1>2 DEF Primitives
<1>4. UNCHANGED <<cmd, timer, flag, last, reply, target, silent, ocr1a>>
      /\ (pc' = pc - 4 \/ pc' = pc + 1) /\ rounds' \in 0 .. MaxRounds
  <2>1. rounds \in 0 .. MaxRounds  BY <1>1 DEF TypeOK
  <2>2. (IF rounds < MaxRounds THEN rounds + 1 ELSE rounds) \in 0 .. MaxRounds
    BY <2>1, MaxRoundsAssumption
  <2>. QED  BY <1>3, <2>1, <2>2 DEF PollAgain
<1>5. CASE pc' = pc + 1  BY <1>1, <1>4, <1>5, PassKeeps
<1>6. CASE pc' = pc - 4
  <2>1. pc - 4 \in 1 .. pc /\ pc - 4 \in 1 .. Len(Program[cmd]) /\ pc - 4 # 0
        /\ pc - 4 \in 0 .. Len(Program[cmd]) + 1 /\ pc \in Nat
    BY <1>1, <1>2
  <2>2. TypeOK'  BY <1>1, <1>4, <1>6, <2>1 DEF TypeOK
  <2>3. Op'.op = "stop"  BY <1>2, <1>4, <1>6 DEF Op
  <2>4. TimerRuns'  BY <2>3 DEF TimerRuns
  <2>5. flag => silent  BY <1>1, <1>2
  <2>6. FlagIsFresh'  BY <1>4, <2>5 DEF FlagIsFresh
  <2>7. silent => flag  BY <1>1, <1>2
  <2>8. SilenceIsTold'  BY <1>1, <1>4, <2>7 DEF SilenceIsTold, Alive
  <2>9. SilenceIsComing'
    <3>1. ASSUME silent, cmd \notin Unguarded
          PROVE  Noticing(Program[cmd], pc - 4, TRUE)
      <4>1. Noticing(Program[cmd], pc, flag) /\ flag \in BOOLEAN
        BY <1>1, <3>1 DEF TypeOK
      <4>2. WellMade(Program[cmd], FailuresOf(cmd))  BY <1>2
      <4> DEFINE l == pc - 4
      <4>3. pc \in Nat /\ l \in 1 .. pc  BY <2>1
      <4> HIDE DEF l
      <4>4. Noticing(Program[cmd], l, TRUE)  BY <4>1, <4>2, <4>3, NoticingBack
      <4>. QED  BY <4>4 DEF l
    <3>2. flag \in BOOLEAN  BY <1>1 DEF TypeOK
    <3>3. silent => flag = TRUE  BY <2>7, <3>2
    <3>. QED  BY <1>4, <1>6, <3>1, <3>3 DEF SilenceIsComing
  <2>10. NoFalseTimeout' /\ SilenceNoticed'
    BY <1>4, <1>6, <2>1 DEF IInv, NoFalseTimeout, SilenceNoticed
  <2>. QED  BY <2>2, <2>4, <2>6, <2>8, <2>9, <2>10 DEF IInv
<1>. QED  BY <1>4, <1>5, <1>6

LEMMA ExpireKeeps == IInv /\ Expire => IInv'
<1> SUFFICES ASSUME IInv, Expire  PROVE IInv'  OBVIOUS
<1>1. /\ pc = 0 \/ At("serial") \/ (At("take") /\ ~Alive)
      /\ timer' = "off" /\ flag' = TRUE
      /\ UNCHANGED <<cmd, pc, last, reply, target, silent, rounds, ocr1a>>
  BY DEF Expire
<1>2. TypeOK'  BY <1>1 DEF IInv, TypeOK
<1>3. TimerRuns'  BY <1>1 DEF TimerRuns
<1>4. FlagIsFresh'
  <2>1. pc = 0 \/ Op.op = "serial" \/ (Op.op = "take" /\ ~Alive)  BY <1>1 DEF At
  <2>2. Op' = Op /\ (Alive <=> Alive')  BY <1>1 DEF Op, Alive
  <2>3. pc = 0 => pc \notin 1 .. Len(Program[cmd])
    <3>1. Len(Program[cmd]) \in Nat  BY NextPrimitive DEF IInv
    <3>. QED  BY <3>1
  <2>. QED  BY <1>1, <2>1, <2>2, <2>3 DEF FlagIsFresh
<1>5. SilenceIsTold'  BY <1>1 DEF IInv, SilenceIsTold, Alive
<1>6. SilenceIsComing'
  <2>1. ASSUME pc # 0, silent, cmd \notin Unguarded
        PROVE  Noticing(Program[cmd], pc, TRUE)
    <3>1. Noticing(Program[cmd], pc, flag) /\ flag \in BOOLEAN
      BY <2>1 DEF IInv, SilenceIsComing, TypeOK
    <3>2. WellMade(Program[cmd], FailuresOf(cmd)) /\ pc \in Nat  BY NextPrimitive DEF IInv
    <3>3. pc \in 1 .. pc  BY <2>1, <3>2
    <3>. QED  BY <3>1, <3>2, <3>3, NoticingBack
  <2>. QED  BY <1>1, <2>1 DEF SilenceIsComing
<1>7. NoFalseTimeout' /\ SilenceNoticed'  BY <1>1 DEF IInv, NoFalseTimeout, SilenceNoticed
<1>. QED  BY <1>2, <1>3, <1>4, <1>5, <1>6, <1>7 DEF IInv

LEMMA DiesKeeps == IInv /\ Dies => IInv'
<1> SUFFICES ASSUME IInv, Dies  PROVE IInv'  OBVIOUS
<1>1. /\ Alive /\ pc # 0 /\ target' = "dead"
      /\ UNCHANGED <<cmd, pc, timer, flag, last, reply, silent, rounds, ocr1a>>
  BY DEF Dies
<1>2. TypeOK'  BY <1>1 DEF IInv, TypeOK, Targets
<1>3. TimerRuns' /\ FlagIsFresh'
  <2>1. Op' = Op /\ ~Alive'  BY <1>1 DEF Op, Alive
  <2>. QED  BY <1>1, <2>1 DEF IInv, TimerRuns, FlagIsFresh
<1>4. SilenceIsTold' /\ SilenceIsComing'
  BY <1>1 DEF IInv, SilenceIsTold, SilenceIsComing, Alive
<1>5. NoFalseTimeout' /\ SilenceNoticed'  BY <1>1 DEF IInv, NoFalseTimeout, SilenceNoticed
<1>. QED  BY <1>2, <1>3, <1>4, <1>5 DEF IInv

LEMMA StutterKeeps == IInv /\ UNCHANGED vars => IInv'
  BY DEF vars, IInv, TypeOK, TimerRuns, FlagIsFresh, SilenceIsTold, SilenceIsComing,
         NoFalseTimeout, SilenceNoticed, Op, Alive

LEMMA NextKeeps == IInv /\ [Next]_vars => IInv'
  BY NextCommandKeeps, FinishKeeps, StartTimerKeeps, StopTimerKeeps, ReceiveSerialKeeps,
     TakeByteKeeps, TakeNothingKeeps, CheckTimeoutKeeps, CheckByteKeeps, PollAgainKeeps,
     ExpireKeeps, DiesKeeps, StutterKeeps
  DEF Next, Firmware

-------------------------------------------------------------------------------
(* The theorems *)

\* The invariant holds in every run of the firmware, whatever commands it is sent and
\* whenever the target dies
THEOREM Invariant == Spec => []IInv
<1>1. Init => IInv  BY InitHolds
<1>2. IInv /\ [Next]_vars => IInv'  BY NextKeeps
<1>. QED  BY <1>1, <1>2, PTL DEF Spec

\* Every variable keeps its type; the count the timer is given fits its register
\* (Timeout.h:10-12)
THEOREM TypeCorrect == Spec => []TypeOK
<1>1. IInv => TypeOK  BY DEF IInv
<1>. QED  BY <1>1, Invariant, PTL

\* The firmware never waits for the target without a way out: whatever command and
\* wherever it waits, the timer runs or has already expired (UPDI.h:158-163)
THEOREM EveryWaitIsTimed == Spec => []WaitIsTimed
<1>1. IInv => WaitIsTimed
  <2> SUFFICES ASSUME IInv, At("take")  PROVE timer = "on" \/ flag
    BY DEF WaitIsTimed
  <2>1. /\ TypeOK /\ pc \in 1 .. Len(Program[cmd]) /\ Program[cmd][pc].op = "take"
        /\ Timed(Program[cmd], pc) => timer = "on" \/ flag
    BY AtPrimitive
  <2>2. Timed(Program[cmd], pc)  BY <2>1, NextPrimitive DEF Founded
  <2>. QED  BY <2>1, <2>2
<1>. QED  BY <1>1, Invariant, PTL

\* A timeout is only reported of a target that left a wait of this very command
\* unanswered (main.cpp:564, 583; UPDI.h:236)
THEOREM NoTimeoutIsFalse == Spec => []NoFalseTimeout
<1>1. IInv => NoFalseTimeout  BY DEF IInv
<1>. QED  BY <1>1, Invariant, PTL

\* A target that falls silent is reported by every command that looks at the flag
\* after its waits, and by no command as another failure, but chip erase
THEOREM SilenceIsNoticed == Spec => []SilenceNoticed
<1>1. IInv => SilenceNoticed  BY DEF IInv
<1>. QED  BY <1>1, Invariant, PTL

=============================================================================

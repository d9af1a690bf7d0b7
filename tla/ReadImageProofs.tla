---------------------------- MODULE ReadImageProofs ----------------------------
(***************************************************************************)
(* For every memory, range, output mode and section size: what read_image  *)
(* has in its image is what the memory holds, and it reads no further than *)
(* it was asked to.                                                        *)
(***************************************************************************)
EXTENDS Dump, SequenceTheorems, TLAPS

-------------------------------------------------------------------------------
(* The sequence operators the image is built from *)

\* What adding at the back does
LEMMA PutLast ==
  ASSUME NEW S, NEW s \in Seq(S), NEW e \in S
  PROVE  /\ Append(s, e) \in Seq(S) /\ Len(Append(s, e)) = Len(s) + 1
         /\ \A k \in 1 .. Len(s) : Append(s, e)[k] = s[k]
         /\ Append(s, e)[Len(s) + 1] = e
         /\ Append(s, e) # << >>
  OBVIOUS

\* What dropping the last element leaves
LEMMA DropLast ==
  ASSUME NEW S, NEW s \in Seq(S), s # << >>
  PROVE  /\ SubSeq(s, 1, Len(s) - 1) \in Seq(S)
         /\ Len(SubSeq(s, 1, Len(s) - 1)) = Len(s) - 1
         /\ \A k \in 1 .. Len(s) - 1 : SubSeq(s, 1, Len(s) - 1)[k] = s[k]
<1>1. Len(s) \in Nat /\ Len(s) > 0  OBVIOUS
<1> DEFINE n == Len(s) - 1
<1>2. \A i \in 1 .. n : s[i] \in S  BY <1>1, ElementOfSeq
<1>3. n \in Nat /\ 1 \in Int /\ n \in Int  BY <1>1
<1> HIDE DEF n
<1>4. /\ SubSeq(s, 1, n) \in Seq(S)
      /\ Len(SubSeq(s, 1, n)) = IF 1 <= n THEN n - 1 + 1 ELSE 0
      /\ \A i \in 1 .. n - 1 + 1 : SubSeq(s, 1, n)[i] = s[1 + i - 1]
  BY <1>2, <1>3, SubSeqProperties
<1>5. Len(SubSeq(s, 1, n)) = n /\ \A i \in 1 .. n : SubSeq(s, 1, n)[i] = s[i]
  BY <1>3, <1>4
<1>. QED  BY <1>4, <1>5 DEF n

\* What taking from the front returns and leaves behind
LEMMA TakeHead ==
  ASSUME NEW S, NEW s \in Seq(S), s # << >>
  PROVE  /\ Head(s) \in S /\ Head(s) = s[1] /\ Len(s) \in Nat /\ Len(s) > 0
         /\ Tail(s) \in Seq(S) /\ Len(Tail(s)) = Len(s) - 1
         /\ \A k \in 1 .. Len(s) - 1 : Tail(s)[k] = s[k + 1]
  OBVIOUS

\* Only the empty sequence has no elements
LEMMA EmptyIsZero ==
  ASSUME NEW S, NEW s \in Seq(S)
  PROVE  Len(s) \in Nat /\ DOMAIN s = 1 .. Len(s) /\ (s = << >> <=> Len(s) = 0)
  OBVIOUS

\* A block asks for no more than is left
LEMMA LeastFacts ==
  ASSUME NEW a \in Nat, NEW b \in Nat
  PROVE  Least(a, b) \in Nat /\ Least(a, b) <= a /\ Least(a, b) <= b
  BY DEF Least

\* One further in the chunk is one further in the memory
LEMMA OneFurther ==
  ASSUME NEW base \in Nat, NEW a \in Nat, NEW i \in Int
  PROVE  base + a + (i + 1) - 1 = base + (a + 1) + i - 1
  OBVIOUS

\* One byte less in the chunk is one further in the range
LEMMA OneLess ==
  ASSUME NEW base \in Nat, NEW a \in Nat, NEW n \in Nat
  PROVE  base + a + n = base + (a + 1) + (n - 1)
  OBVIOUS

\* All positions but the last
LEMMA FrontIndices ==
  ASSUME NEW n \in Nat, n > 0
  PROVE  n - 1 \in Nat /\ \A k \in 1 .. n - 1 : k \in 1 .. n /\ k # n
  OBVIOUS

\* What ends before a section that ends with the stream ends before the end of the stream
LEMMA EndsBefore ==
  ASSUME NEW a \in Nat, NEW f \in Nat, NEW z \in Nat, NEW l \in Nat,
         a <= f, f + z = l + 1, z > 0
  PROVE  a <= l
  OBVIOUS

\* A section that loses a byte at one of its ends stays within its old bounds
LEMMA StaysWithin ==
  ASSUME NEW a \in Nat, NEW s \in Nat, s > 0, NEW skip \in {0, 1}
  PROVE  s - 1 \in Nat /\ s - 1 <= s /\ a + skip \in Nat /\ (a + skip) + (s - 1) <= a + s
  OBVIOUS

\* Where there is at most one, the one there is is the last
LEMMA OnlyOne ==
  ASSUME NEW n \in Nat, n <= 1, NEW k \in 1 .. n
  PROVE  k = n
  OBVIOUS

\* The bytes of a section that ends before the last byte of the stream come before it
LEMMA WithinStream ==
  ASSUME NEW f \in Nat, NEW z \in Nat, NEW l \in Nat, f > 0, f + z <= l, NEW i \in 0 .. z - 1
  PROVE  i \in Nat /\ f + i \in 1 .. l - 1
  OBVIOUS

\* A byte of a section is one of the larger section it was, and so is the next
LEMMA WithinLarger ==
  ASSUME NEW z \in Nat, NEW y \in Nat, NEW i \in 0 .. z - 1
  PROVE  /\ z <= y => i \in 0 .. y - 1
         /\ z = y - 1 => i + 1 \in 0 .. y - 1
  OBVIOUS

\* One further from where it began is as far from one further
LEMMA Reassociated ==
  ASSUME NEW f \in Nat, NEW b \in Nat, NEW a \in Nat, NEW i \in Nat
  PROVE  f + i + 1 = f + (i + 1) /\ b + (a + 1) + i = b + a + (i + 1)
  OBVIOUS

\* What lies below a bound lies below a higher one
LEMMA AtMost ==
  ASSUME NEW a \in Nat, NEW b \in Nat, NEW c \in Nat, a <= b, b <= c
  PROVE  a <= c /\ a <= c + 1
  OBVIOUS

\* A byte of a section that ends with the stream or before is one of the stream
LEMMA InStream ==
  ASSUME NEW f \in Nat, NEW z \in Nat, NEW l \in Nat, f > 0, f + z <= l + 1, NEW i \in 0 .. z - 1
  PROVE  f + i \in 1 .. l
  OBVIOUS

\* The end of a section is an address
LEMMA SumIsNat == ASSUME NEW a \in Nat, NEW b \in Nat PROVE a + b \in Nat
  OBVIOUS

\* All but the last come before it
LEMMA LastOrBefore == ASSUME NEW n \in Nat, NEW k \in 1 .. n PROVE k < n \/ k = n
  OBVIOUS

\* Nothing to skip moves nothing
LEMMA Unmoved == ASSUME NEW a \in Nat PROVE a + 0 = a
  OBVIOUS

\* The fields of a section
LEMMA SectionFields ==
  ASSUME NEW s \in Seq(Section), NEW k \in 1 .. Len(s)
  PROVE  s[k].address \in Nat /\ s[k].size \in Nat
<1>1. s[k] \in Section  BY ElementOfSeq
<1>2. SectionMaxSize \in Nat  BY ReadImageAssumption
<1>. QED  BY <1>1, <1>2 DEF Section

\* What a section is made of
LEMMA SectionFacts ==
  ASSUME TypeOKRead
  PROVE  /\ Len(sections) \in Nat /\ DOMAIN sections = 1 .. Len(sections)
         /\ sections = << >> <=> Len(sections) = 0
         /\ \A k \in 1 .. Len(sections) :
              /\ sections[k] \in Section
              /\ sections[k].address \in Nat /\ sections[k].from \in Nat
              /\ sections[k].size \in Nat /\ sections[k].size > 0 /\ sections[k].from > 0
              /\ sections[k].size <= SectionMaxSize
<1>1. sections \in Seq(Section)  BY DEF TypeOKRead
<1>2. Len(sections) \in Nat /\ DOMAIN sections = 1 .. Len(sections)
      /\ (sections = << >> <=> Len(sections) = 0)
  BY <1>1, EmptyIsZero
<1>3. SectionMaxSize \in Nat  BY ReadImageAssumption
<1>4. ASSUME NEW k \in 1 .. Len(sections)
      PROVE  /\ sections[k] \in Section
             /\ sections[k].address \in Nat /\ sections[k].from \in Nat
             /\ sections[k].size \in Nat /\ sections[k].size > 0 /\ sections[k].from > 0
             /\ sections[k].size <= SectionMaxSize
  <2>1. sections[k] \in Section  BY <1>1, ElementOfSeq
  <2>. QED  BY <2>1, <1>3 DEF Section
<1>. QED  BY <1>2, <1>4

-------------------------------------------------------------------------------
(* The invariant holds initially *)

\* Nothing is read, nothing in the image, all of the range left
LEMMA InitReadInv == ReadInit => ReadInv
<1> SUFFICES ASSUME ReadInit PROVE ReadInv  OBVIOUS
<1>1. /\ req \in Requests /\ req.base \in Nat /\ req.length \in Nat
  BY ReadImageAssumption DEF ReadInit
<1>2. Len(sections) = 0 /\ DOMAIN sections = 1 .. 0 /\ Len(data) = 0
  BY DEF ReadInit
<1>3. TypeOKRead
  BY <1>1 DEF ReadInit, TypeOKRead, Nowhere
<1>4. Walkable /\ ImageTrue /\ StaysInRange
  BY <1>1, <1>2 DEF ReadInit, Walkable, ImageTrue, StaysInRange
<1>5. ChunkTrue /\ Behind /\ Counted /\ OneSection /\ InTurn
  BY <1>1, <1>2 DEF ReadInit, ChunkTrue, Behind, Counted, OneSection, InTurn, Nowhere
<1>6. Trims  BY DEF ReadInit, Trims
<1>. QED  BY <1>3, <1>4, <1>5, <1>6 DEF ReadInv

-------------------------------------------------------------------------------
(* Steps that leave the image alone *)

\* SetAddress puts the pointer at the beginning of the range
LEMMA SetAddressKeeps == ReadInv /\ SetAddress => ReadInv'
<1> SUFFICES ASSUME ReadInv, SetAddress PROVE ReadInv'  OBVIOUS
<1>0. /\ TypeOKRead /\ Walkable /\ ImageTrue /\ StaysInRange
      /\ ChunkTrue /\ Behind /\ Counted /\ OneSection /\ Trims /\ InTurn
  BY DEF ReadInv
<1>1. /\ req \in Requests /\ req.base \in Nat /\ req.length \in Nat
  BY <1>0, ReadImageAssumption DEF TypeOKRead
<1>2. TypeOKRead'
  BY <1>0, <1>1 DEF SetAddress, TypeOKRead
<1>3. Walkable' /\ ImageTrue' /\ InTurn'
  BY <1>0 DEF SetAddress, Walkable, ImageTrue, InTurn, Back, Sound
<1>4. StaysInRange'
  BY <1>0, <1>1 DEF SetAddress, StaysInRange
<1>5. ChunkTrue'
  <2>1. address = 0 /\ chunk = << >> /\ Len(chunk) = 0 /\ DOMAIN chunk = 1 .. 0
    BY <1>0 DEF SetAddress, Behind
  <2>. QED  BY <2>1, <1>0, <1>1 DEF SetAddress, ChunkTrue, TypeOKRead
<1>6. Behind' /\ Counted' /\ OneSection' /\ Trims'
  BY <1>0, <1>1 DEF SetAddress, Behind, Counted, OneSection, Trims, Back
<1>. QED  BY <1>2, <1>3, <1>4, <1>5, <1>6 DEF ReadInv

\* ReadBlock reads what follows, and no more than is left of the range
LEMMA ReadBlockKeeps == ReadInv /\ ReadBlock => ReadInv'
<1> SUFFICES ASSUME ReadInv, ReadBlock PROVE ReadInv'  OBVIOUS
<1>0. /\ TypeOKRead /\ Walkable /\ ImageTrue /\ StaysInRange
      /\ ChunkTrue /\ Behind /\ Counted /\ OneSection /\ Trims /\ InTurn
  BY DEF ReadInv
<1>1. /\ req \in Requests /\ req.base \in Nat /\ req.length \in Nat
      /\ SectionMaxSize \in Nat /\ Extent \in Nat
  BY <1>0, ReadImageAssumption DEF TypeOKRead
<1>2. /\ ToRead \in Nat /\ ToRead <= bytesLeft /\ bytesLeft \in Nat
      /\ pointer \in Nat /\ address \in Nat /\ pointer + ToRead <= Extent
  BY <1>0, <1>1, LeastFacts DEF ToRead, TypeOKRead, ReadBlock
<1>3. pointer = req.base + address
  <2>1. Len(chunk) = 0  BY DEF ReadBlock
  <2>. QED  BY <2>1, <1>0, <1>1, <1>2 DEF ReadBlock, ChunkTrue
<1>4. /\ chunk' \in Seq(Bytes) /\ Len(chunk') = ToRead /\ DOMAIN chunk' = 1 .. ToRead
      /\ \A i \in 1 .. ToRead : chunk'[i] = mem[pointer + i - 1]
  <2>1. \A i \in 1 .. ToRead : mem[pointer + i - 1] \in Bytes
    BY <1>0, <1>1, <1>2 DEF TypeOKRead, Addresses
  <2>. QED  BY <2>1, <1>2 DEF ReadBlock
<1>5. TypeOKRead'
  BY <1>0, <1>2, <1>4 DEF ReadBlock, TypeOKRead
<1>6. Walkable' /\ ImageTrue' /\ InTurn' /\ Behind' /\ OneSection' /\ Counted' /\ Trims'
  BY <1>0 DEF ReadBlock, Walkable, ImageTrue, InTurn, Back, Sound, Behind, OneSection, Counted,
              Trims
<1>7. StaysInRange'
  <2>1. req.mode # "SKIP" => pointer + ToRead <= req.base + req.length
    BY <1>0, <1>1, <1>2, <1>3 DEF ReadBlock, Counted
  <2>. QED  BY <1>0, <2>1 DEF ReadBlock, StaysInRange
<1>8. ChunkTrue'
  <2>1. pointer' = req'.base + address' + Len(chunk')
    BY <1>1, <1>2, <1>3, <1>4 DEF ReadBlock
  <2>2. Len(chunk') <= bytesLeft'  BY <1>2, <1>4 DEF ReadBlock
  <2>3. \A i \in DOMAIN chunk' : chunk'[i] = mem'[req'.base + address' + i - 1]
    BY <1>1, <1>2, <1>3, <1>4 DEF ReadBlock
  <2>. QED  BY <2>1, <2>2, <2>3 DEF ChunkTrue
<1>. QED  BY <1>5, <1>6, <1>7, <1>8 DEF ReadInv

\* Going on to the next phase, or giving up
LEMMA PhaseKeeps ==
  ASSUME ReadInv, phase' \in {"trimend", "trimstart", "read", "failed"},
         phase' = "trimstart" => req.mode \in {"TRIMSTART", "TRIMBOTH"},
         UNCHANGED <<mem, req, sections, data, bytesLeft, imageAddress, address, chunk, pointer>>
  PROVE  ReadInv'
<1>0. /\ TypeOKRead /\ Walkable /\ ImageTrue /\ StaysInRange
      /\ ChunkTrue /\ Behind /\ Counted /\ OneSection /\ Trims /\ InTurn
  BY DEF ReadInv
<1>1. /\ req \in Requests /\ req.base \in Nat /\ req.length \in Nat
  BY <1>0, ReadImageAssumption DEF TypeOKRead
<1>2. TypeOKRead'
  BY <1>0 DEF TypeOKRead
<1>3. Walkable' /\ ImageTrue' /\ InTurn'
  BY <1>0 DEF Walkable, ImageTrue, InTurn, Back, Sound
<1>4. StaysInRange'
  <2>1. phase = "start" => pointer <= req.base + req.length
    BY <1>0, <1>1 DEF Behind
  <2>. QED  BY <2>1, <1>0 DEF StaysInRange
<1>5. ChunkTrue' /\ Behind' /\ Counted' /\ OneSection' /\ Trims'
  BY <1>0 DEF ChunkTrue, Behind, Counted, OneSection, Trims
<1>. QED  BY <1>2, <1>3, <1>4, <1>5 DEF ReadInv

\* SkipByte moves the address on, in a mode in which nobody counts
LEMMA SkipByteKeeps == ReadInv /\ SkipByte => ReadInv'
<1> SUFFICES ASSUME ReadInv, SkipByte PROVE ReadInv'  OBVIOUS
<1>0. /\ TypeOKRead /\ Walkable /\ ImageTrue /\ StaysInRange
      /\ ChunkTrue /\ Behind /\ Counted /\ OneSection /\ Trims /\ InTurn
  BY DEF ReadInv
<1>1. /\ req \in Requests /\ req.base \in Nat /\ req.mode = "SKIP"
      /\ address \in Nat /\ address' = address + 1
  BY <1>0, ReadImageAssumption DEF TypeOKRead, SkipByte
<1>2. /\ chunk' \in Seq(Bytes) /\ Len(chunk) \in Nat /\ Len(chunk) > 0
      /\ Len(chunk') = Len(chunk) - 1
      /\ \A k \in 1 .. Len(chunk) - 1 : chunk'[k] = chunk[k + 1]
      /\ DOMAIN chunk = 1 .. Len(chunk) /\ DOMAIN chunk' = 1 .. Len(chunk')
  BY <1>0, TakeHead, EmptyIsZero DEF TypeOKRead, SkipByte
<1>3. TypeOKRead'
  BY <1>0, <1>1, <1>2 DEF TypeOKRead, SkipByte
<1>4. Walkable' /\ ImageTrue' /\ InTurn' /\ StaysInRange' /\ Counted' /\ OneSection' /\ Trims'
  BY <1>0, <1>1 DEF SkipByte, Walkable, ImageTrue, InTurn, Back, Sound, StaysInRange,
                    Counted, OneSection, Trims
<1>5. ChunkTrue'
  <2>1. /\ pointer = req.base + address + Len(chunk) /\ Len(chunk) <= bytesLeft
        /\ \A i \in 1 .. Len(chunk) : chunk[i] = mem[req.base + address + i - 1]
    BY <1>0, <1>2 DEF ChunkTrue, SkipByte
  <2>2. \A i \in 1 .. Len(chunk) - 1 : chunk'[i] = mem[req.base + address' + i - 1]
    <3> TAKE i \in 1 .. Len(chunk) - 1
    <3>1. i \in Int /\ i + 1 \in 1 .. Len(chunk)  BY <1>2
    <3>2. chunk'[i] = mem[req.base + address + (i + 1) - 1]  BY <1>2, <2>1, <3>1
    <3>3. req.base + address + (i + 1) - 1 = req.base + (address + 1) + i - 1
      BY <1>1, <3>1, OneFurther
    <3>. QED  BY <1>1, <3>2, <3>3
  <2>3. pointer = req.base + address' + Len(chunk')
    <3>1. req.base + address + Len(chunk) = req.base + (address + 1) + (Len(chunk) - 1)
      BY <1>1, <1>2, OneLess
    <3>. QED  BY <1>1, <1>2, <2>1, <3>1
  <2>4. bytesLeft \in Nat  BY <1>0 DEF TypeOKRead
  <2>5. Len(chunk') <= bytesLeft  BY <1>2, <2>1, <2>4
  <2>. QED  BY <1>2, <2>2, <2>3, <2>5 DEF ChunkTrue, SkipByte
<1>6. Behind'
  <2>1. DOMAIN sections = 1 .. Len(sections)
        /\ \A k \in DOMAIN sections : sections[k].address \in Nat /\ sections[k].size \in Nat
    BY <1>0, SectionFacts
  <2>. QED  BY <1>0, <1>1, <2>1 DEF Behind, SkipByte, Back
<1>. QED  BY <1>3, <1>4, <1>5, <1>6 DEF ReadInv

-------------------------------------------------------------------------------
(* TakeByte *)

\* What the byte taken is, and what is left of the chunk
LEMMA ChunkMovesOn ==
  ASSUME ReadInv, TakeByte
  PROVE  /\ chunk' \in Seq(Bytes) /\ Head(chunk) \in Bytes
         /\ Head(chunk) = mem[req.base + address]
         /\ bytesLeft > 0 /\ ChunkTrue'
<1>0. TypeOKRead /\ ChunkTrue /\ phase = "reading"
  BY DEF ReadInv, TakeByte
<1>1. /\ req.base \in Nat /\ address \in Nat /\ address' = address + 1
      /\ bytesLeft \in Nat /\ bytesLeft' = bytesLeft - 1
  BY <1>0, ReadImageAssumption DEF TypeOKRead, TakeByte
<1>2. /\ chunk' \in Seq(Bytes) /\ Len(chunk) \in Nat /\ Len(chunk) > 0
      /\ Head(chunk) \in Bytes /\ Head(chunk) = chunk[1]
      /\ Len(chunk') = Len(chunk) - 1
      /\ \A k \in 1 .. Len(chunk) - 1 : chunk'[k] = chunk[k + 1]
      /\ DOMAIN chunk = 1 .. Len(chunk) /\ DOMAIN chunk' = 1 .. Len(chunk')
  BY <1>0, TakeHead, EmptyIsZero DEF TypeOKRead, TakeByte
<1>3. /\ pointer = req.base + address + Len(chunk) /\ Len(chunk) <= bytesLeft
      /\ \A i \in 1 .. Len(chunk) : chunk[i] = mem[req.base + address + i - 1]
  BY <1>0, <1>2 DEF ChunkTrue
<1>4. Head(chunk) = mem[req.base + address]
  <2>1. 1 \in 1 .. Len(chunk)  BY <1>2
  <2>2. chunk[1] = mem[req.base + address + 1 - 1]  BY <1>3, <2>1
  <2>3. req.base + address + 1 - 1 = req.base + address  BY <1>1
  <2>. QED  BY <1>2, <2>2, <2>3
<1>5. \A i \in 1 .. Len(chunk) - 1 : chunk'[i] = mem[req.base + address' + i - 1]
  <2> TAKE i \in 1 .. Len(chunk) - 1
  <2>1. i \in Int /\ i + 1 \in 1 .. Len(chunk)  BY <1>2
  <2>2. chunk'[i] = mem[req.base + address + (i + 1) - 1]  BY <1>2, <1>3, <2>1
  <2>3. req.base + address + (i + 1) - 1 = req.base + (address + 1) + i - 1
    BY <1>1, <2>1, OneFurther
  <2>. QED  BY <1>1, <2>2, <2>3
<1>6. pointer = req.base + address' + Len(chunk')
  <2>1. req.base + address + Len(chunk) = req.base + (address + 1) + (Len(chunk) - 1)
    BY <1>1, <1>2, OneLess
  <2>. QED  BY <1>1, <1>2, <1>3, <2>1
<1>7. bytesLeft > 0 /\ Len(chunk') <= bytesLeft'
  BY <1>1, <1>2, <1>3
<1>8. ChunkTrue'
  BY <1>0, <1>2, <1>5, <1>6, <1>7 DEF ChunkTrue, TakeByte
<1>. QED  BY <1>2, <1>4, <1>7, <1>8

\* The byte begins a section
LEMMA NewSectionKeeps == ReadInv /\ TakeByte /\ NeedsSection => ReadInv'
<1> SUFFICES ASSUME ReadInv, TakeByte, NeedsSection PROVE ReadInv'  OBVIOUS
<1>0. /\ TypeOKRead /\ Walkable /\ ImageTrue /\ StaysInRange /\ phase = "reading"
      /\ ChunkTrue /\ Behind /\ Counted /\ OneSection /\ Trims /\ InTurn
  BY DEF ReadInv, TakeByte
<1> DEFINE new == [address |-> address, size |-> 1, from |-> Len(data) + 1]
           n == Len(sections)
<1>1. /\ req \in Requests /\ req.base \in Nat /\ req.length \in Nat
      /\ address \in Nat /\ bytesLeft \in Nat /\ SectionMaxSize \in Nat \ {0}
  BY <1>0, ReadImageAssumption DEF TypeOKRead
<1>2. /\ address' = address + 1 /\ imageAddress' = address + 1 /\ bytesLeft' = bytesLeft - 1
      /\ sections' = Append(sections, new) /\ data' = Append(data, Head(chunk))
      /\ UNCHANGED <<mem, req, pointer, phase>>
  BY DEF TakeByte
<1>3. /\ chunk' \in Seq(Bytes) /\ Head(chunk) \in Bytes
      /\ Head(chunk) = mem[req.base + address] /\ bytesLeft > 0 /\ ChunkTrue'
  BY ChunkMovesOn
<1>4. /\ data' \in Seq(Bytes) /\ Len(data) \in Nat /\ Len(data') = Len(data) + 1 /\ data' # << >>
      /\ \A i \in 1 .. Len(data) : data'[i] = data[i]
      /\ data'[Len(data) + 1] = Head(chunk)
  BY <1>0, <1>2, <1>3, PutLast, EmptyIsZero DEF TypeOKRead
<1>5. /\ n \in Nat /\ DOMAIN sections = 1 .. n
      /\ \A k \in 1 .. n : /\ sections[k].address \in Nat /\ sections[k].from \in Nat
                           /\ sections[k].size \in Nat /\ sections[k].size > 0
  BY <1>0, SectionFacts
<1>6. new \in Section  BY <1>1, <1>4 DEF Section
<1>7. /\ sections' \in Seq(Section) /\ Len(sections') = n + 1 /\ sections' # << >>
      /\ DOMAIN sections' = 1 .. n + 1
      /\ \A k \in 1 .. n : sections'[k] = sections[k]
      /\ sections'[n + 1] = new
  <2>1. sections \in Seq(Section)  BY <1>0 DEF TypeOKRead
  <2>. QED  BY <1>2, <1>6, <2>1, PutLast, EmptyIsZero
<1> HIDE DEF n
<1>8. new.address = address /\ new.size = 1 /\ new.from = Len(data) + 1  OBVIOUS
<1> HIDE DEF new
<1>9. n > 0 => sections[n].from + sections[n].size = Len(data) + 1 /\ sections[1].from = 1
  BY <1>0, <1>5 DEF Walkable, Back, n
<1>10. n = 0 => Len(data) = 0
  BY <1>0, <1>5 DEF Walkable, n
<1>11. TypeOKRead'
  BY <1>0, <1>1, <1>2, <1>3, <1>4, <1>7 DEF TypeOKRead
<1>12. Walkable'
  <2>1. sections'[1].from = 1
    BY <1>5, <1>7, <1>8, <1>9, <1>10
  <2>2. Back'.from + Back'.size = Len(data') + 1
    BY <1>4, <1>7, <1>8 DEF Back
  <2>3. \A k \in 1 .. n : sections'[k + 1].from = sections'[k].from + sections'[k].size
    <3> TAKE k \in 1 .. n
    <3>1. CASE k = n
      BY <3>1, <1>5, <1>7, <1>8, <1>9
    <3>2. CASE k # n
      <4>1. k \in 1 .. n - 1 /\ k + 1 \in 1 .. n  BY <3>2, <1>5
      <4>. QED  BY <4>1, <1>0, <1>7 DEF Walkable, n
    <3>. QED  BY <3>1, <3>2
  <2>4. Len(sections') - 1 = n  BY <1>5, <1>7
  <2>. QED  BY <1>4, <1>7, <2>1, <2>2, <2>3, <2>4 DEF Walkable
<1>13. InTurn'
  <2> SUFFICES ASSUME NEW j \in 1 .. n + 1, NEW k \in 1 .. n + 1, j < k
               PROVE  sections'[j].from + sections'[j].size <= sections'[k].from
    BY <1>7 DEF InTurn
  <2>1. j \in 1 .. n /\ sections'[j] = sections[j]  BY <1>5, <1>7
  <2>2. CASE k = n + 1
    <3>1. CASE j = n
      BY <3>1, <2>2, <2>1, <1>4, <1>7, <1>8, <1>9
    <3>2. CASE j # n
      <4>1. n \in 1 .. n /\ j < n  BY <3>2, <2>1, <1>5
      <4>2. sections[j].from + sections[j].size <= sections[n].from
        BY <4>1, <2>1, <1>0, <1>5 DEF InTurn
      <4>3. sections[n].from <= Len(data) + 1  BY <4>1, <1>4, <1>5, <1>9
      <4>. QED  BY <4>1, <4>2, <4>3, <2>1, <2>2, <1>4, <1>5, <1>7, <1>8
    <3>. QED  BY <3>1, <3>2
  <2>3. CASE k # n + 1
    <3>1. k \in 1 .. n  BY <2>3, <1>5
    <3>. QED  BY <3>1, <2>1, <1>0, <1>5, <1>7 DEF InTurn
  <2>. QED  BY <2>2, <2>3
<1>14. ImageTrue'
  <2> SUFFICES ASSUME Sound, NEW k \in 1 .. n + 1, NEW i \in 0 .. sections'[k].size - 1
               PROVE  data'[sections'[k].from + i] = mem[req.base + sections'[k].address + i]
    BY <1>2, <1>7 DEF ImageTrue, Sound
  <2>1. CASE k = n + 1
    <3>1. i = 0  BY <2>1, <1>7, <1>8
    <3>2. Len(data) + 1 + 0 = Len(data) + 1 /\ req.base + address + 0 = req.base + address
      BY <1>1, <1>4
    <3>. QED  BY <2>1, <3>1, <3>2, <1>3, <1>4, <1>7, <1>8
  <2>2. CASE k # n + 1
    <3>1. k \in 1 .. n /\ sections'[k] = sections[k] /\ i \in 0 .. sections[k].size - 1
      BY <2>2, <1>5, <1>7
    <3>2. sections[k].from + sections[k].size <= Len(data) + 1
      <4>1. CASE k = n  BY <4>1, <3>1, <1>4, <1>5, <1>9
      <4>2. CASE k # n
        <5>1. n \in 1 .. n /\ k < n  BY <4>2, <3>1, <1>5
        <5>2. sections[k].from + sections[k].size <= sections[n].from
          BY <5>1, <3>1, <1>0, <1>5 DEF InTurn
        <5>. QED  BY <5>1, <5>2, <3>1, <1>4, <1>5, <1>9
      <4>. QED  BY <4>1, <4>2
    <3>3. sections[k].from > 0  BY <3>1, <1>0, SectionFacts DEF n
    <3>4. sections[k].from + i \in 1 .. Len(data)
      <4>1. sections[k].from \in Nat /\ sections[k].size \in Nat /\ Len(data) \in Nat
        BY <3>1, <1>4, <1>5
      <4>. QED  BY <4>1, <3>1, <3>2, <3>3, InStream
    <3>5. data[sections[k].from + i] = mem[req.base + sections[k].address + i]
      BY <3>1, <1>0, <1>5 DEF ImageTrue
    <3>. QED  BY <3>1, <3>4, <3>5, <1>4
  <2>. QED  BY <2>1, <2>2
<1>15. StaysInRange'
  <2> SUFFICES ASSUME req.mode # "SKIP"
               PROVE  /\ pointer <= req.base + req.length
                      /\ \A k \in 1 .. n + 1 :
                           sections'[k].address + sections'[k].size <= req.length
    BY <1>0, <1>2, <1>7 DEF StaysInRange
  <2>1. address + 1 <= req.length  BY <1>0, <1>1, <1>3 DEF Counted
  <2>2. /\ pointer <= req.base + req.length
        /\ \A k \in 1 .. n : sections[k].address + sections[k].size <= req.length
    BY <1>0, <1>5 DEF StaysInRange
  <2>3. ASSUME NEW k \in 1 .. n + 1
        PROVE  sections'[k].address + sections'[k].size <= req.length
    <3>1. CASE k = n + 1  BY <3>1, <2>1, <1>7, <1>8
    <3>2. CASE k # n + 1
      <4>1. k \in 1 .. n  BY <3>2, <1>5
      <4>. QED  BY <4>1, <2>2, <1>7
    <3>. QED  BY <3>1, <3>2
  <2>. QED  BY <2>2, <2>3
<1>16. Behind'
  <2>1. imageAddress' = Back'.address + Back'.size  BY <1>2, <1>7, <1>8 DEF Back
  <2>2. \A k \in 1 .. n + 1 : sections'[k].address + sections'[k].size <= address'
    <3> TAKE k \in 1 .. n + 1
    <3>1. CASE k = n + 1  BY <3>1, <1>1, <1>2, <1>7, <1>8
    <3>2. CASE k # n + 1
      <4>1. k \in 1 .. n  BY <3>2, <1>5
      <4>2. sections[k].address + sections[k].size <= address
        BY <4>1, <1>0, <1>5 DEF Behind
      <4>3. sections'[k] = sections[k]  BY <4>1, <1>7
      <4>4. sections[k].address \in Nat /\ sections[k].size \in Nat  BY <4>1, <1>5
      <4>5. sections[k].address + sections[k].size <= address'
        BY <4>2, <4>4, <1>1, <1>2
      <4>. QED  BY <4>3, <4>5
    <3>. QED  BY <3>1, <3>2
  <2>. QED  BY <1>0, <1>2, <1>7, <2>1, <2>2 DEF Behind
<1>17. Counted'
  BY <1>0, <1>1, <1>2 DEF Counted
<1>18. OneSection'
  <2> SUFFICES ASSUME req.mode # "SKIP", req.length <= SectionMaxSize
               PROVE  Len(sections') <= 1 /\ Back'.size = address' /\ imageAddress' = address'
    BY <1>2, <1>7 DEF OneSection
  <2>1. address < req.length  BY <1>0, <1>1, <1>3 DEF Counted
  <2>2. n = 0
    <3> SUFFICES ASSUME sections # << >> PROVE FALSE  BY <1>0, SectionFacts DEF n
    <3>1. Back.size = address /\ imageAddress = address  BY <1>0 DEF OneSection
    <3>. QED  BY <3>1, <2>1, <1>1 DEF NeedsSection
  <2>3. sections = << >> /\ address = 0
    BY <2>2, <1>0, SectionFacts DEF OneSection, n
  <2>. QED  BY <2>2, <2>3, <1>2, <1>7, <1>8 DEF Back
<1>19. Trims'  BY <1>0, <1>2 DEF Trims
<1>. QED  BY <1>3, <1>11, <1>12, <1>13, <1>14, <1>15, <1>16, <1>17, <1>18, <1>19 DEF ReadInv

\* The byte goes on in the last section
LEMMA SameSectionKeeps == ReadInv /\ TakeByte /\ ~NeedsSection => ReadInv'
<1> SUFFICES ASSUME ReadInv, TakeByte, ~NeedsSection PROVE ReadInv'  OBVIOUS
<1>0. /\ TypeOKRead /\ Walkable /\ ImageTrue /\ StaysInRange /\ phase = "reading"
      /\ ChunkTrue /\ Behind /\ Counted /\ OneSection /\ Trims /\ InTurn
  BY DEF ReadInv, TakeByte
<1> DEFINE n == Len(sections)
           grown == [Back EXCEPT !.size = @ + 1]
<1>1. /\ req \in Requests /\ req.base \in Nat /\ req.length \in Nat
      /\ address \in Nat /\ bytesLeft \in Nat /\ SectionMaxSize \in Nat \ {0}
  BY <1>0, ReadImageAssumption DEF TypeOKRead
<1>2. /\ address' = address + 1 /\ imageAddress' = address + 1 /\ bytesLeft' = bytesLeft - 1
      /\ sections' = [sections EXCEPT ![n].size = @ + 1] /\ data' = Append(data, Head(chunk))
      /\ UNCHANGED <<mem, req, pointer, phase>>
  BY DEF TakeByte
<1>3. /\ chunk' \in Seq(Bytes) /\ Head(chunk) \in Bytes
      /\ Head(chunk) = mem[req.base + address] /\ bytesLeft > 0 /\ ChunkTrue'
  BY ChunkMovesOn
<1>4. /\ data' \in Seq(Bytes) /\ Len(data) \in Nat /\ Len(data') = Len(data) + 1 /\ data' # << >>
      /\ \A i \in 1 .. Len(data) : data'[i] = data[i]
      /\ data'[Len(data) + 1] = Head(chunk)
  <2>1. data \in Seq(Bytes)  BY <1>0 DEF TypeOKRead
  <2>. QED  BY <2>1, <1>2, <1>3, PutLast, EmptyIsZero
<1>5. /\ n \in Nat /\ DOMAIN sections = 1 .. n
      /\ \A k \in 1 .. n : /\ sections[k].address \in Nat /\ sections[k].from \in Nat
                           /\ sections[k].size \in Nat /\ sections[k].size > 0
                           /\ sections[k].from > 0
  BY <1>0, SectionFacts
<1>6. sections # << >> /\ n > 0 /\ n \in 1 .. n
  <2>1. address = imageAddress  BY DEF NeedsSection
  <2>2. sections # << >>  BY <2>1, <1>0, <1>1 DEF Behind, Nowhere
  <2>. QED  BY <2>2, <1>0, <1>5, SectionFacts
<1>7. /\ Back.address + Back.size = address /\ Back.size < SectionMaxSize
      /\ Back.from + Back.size = Len(data) + 1 /\ Back \in Section
      /\ Back.size \in Nat /\ Back.from \in Nat /\ Back.address \in Nat
  <2>1. Back \in Section /\ Back.size \in Nat /\ Back.from \in Nat /\ Back.address \in Nat
    BY <1>0, <1>6, SectionFacts DEF Back
  <2>2. Back.address + Back.size = address /\ Back.size < SectionMaxSize
    BY <2>1, <1>0, <1>1, <1>6 DEF Behind, NeedsSection
  <2>3. Back.from + Back.size = Len(data) + 1  BY <1>0, <1>6 DEF Walkable
  <2>. QED  BY <2>1, <2>2, <2>3
<1>8. /\ grown \in Section /\ grown.address = Back.address /\ grown.from = Back.from
      /\ grown.size = Back.size + 1
  BY <1>1, <1>7 DEF Section
<1> HIDE DEF grown
<1>9. /\ sections' \in Seq(Section) /\ Len(sections') = n /\ sections' # << >>
      /\ DOMAIN sections' = 1 .. n
      /\ \A k \in 1 .. n - 1 : sections'[k] = sections[k]
      /\ sections'[n] = grown
  <2>1. sections \in Seq(Section)  BY <1>0 DEF TypeOKRead
  <2>2. sections' = [sections EXCEPT ![n] = grown]
    BY <1>2, <1>5, <1>6 DEF Back, grown
  <2>3. sections' \in Seq(Section) /\ Len(sections') = n
    BY <2>1, <2>2, <1>5, <1>6, <1>8
  <2>4. sections' # << >> /\ DOMAIN sections' = 1 .. n  BY <2>3, <1>5, <1>6, EmptyIsZero
  <2>5. /\ \A k \in 1 .. n - 1 : sections'[k] = sections[k]
        /\ sections'[n] = grown
    <3>1. n - 1 \in Nat /\ \A k \in 1 .. n - 1 : k \in 1 .. n /\ k # n
      BY <1>5, <1>6, FrontIndices
    <3>2. sections'[n] = grown  BY <2>2, <1>5, <1>6
    <3>3. \A k \in 1 .. n : k # n => sections'[k] = sections[k]  BY <2>2, <1>5
    <3>. QED  BY <3>1, <3>2, <3>3
  <2>. QED  BY <2>3, <2>4, <2>5
<1>20. /\ Back' = grown
      /\ grown.address + grown.size = address + 1
      /\ grown.from + grown.size = Len(data) + 1 + 1
  <2>1. Back.address + (Back.size + 1) = (Back.address + Back.size) + 1
        /\ Back.from + (Back.size + 1) = (Back.from + Back.size) + 1
    BY <1>7
  <2>. QED  BY <2>1, <1>7, <1>8, <1>9 DEF Back
<1>10. sections[n] = Back  BY DEF Back
<1> HIDE DEF n
<1>11. TypeOKRead'
  <2>1. /\ sections' \in Seq(Section) /\ data' \in Seq(Bytes) /\ chunk' \in Seq(Bytes)
        /\ UNCHANGED <<mem, req, pointer, phase>>
    BY <1>2, <1>3, <1>4, <1>9
  <2>2. bytesLeft' \in Nat /\ address' \in Nat /\ imageAddress' \in Nat
    BY <1>1, <1>2, <1>3
  <2>. QED  BY <2>1, <2>2, <1>0 DEF TypeOKRead
<1>12. \A k \in 1 .. n : /\ sections'[k].from = sections[k].from
                         /\ sections'[k].address = sections[k].address
  BY <1>5, <1>8, <1>9, <1>10
<1>13. Walkable'
  <2>1. sections'[1].from = 1
    <3>1. 1 \in 1 .. n  BY <1>5, <1>6
    <3>. QED  BY <3>1, <1>0, <1>6, <1>12 DEF Walkable
  <2>2. Back'.from + Back'.size = Len(data') + 1
    BY <1>4, <1>20
  <2>3. \A k \in 1 .. n - 1 : sections'[k + 1].from = sections'[k].from + sections'[k].size
    <3> TAKE k \in 1 .. n - 1
    <3>1. k \in 1 .. n /\ k + 1 \in 1 .. n  BY <1>5
    <3>2. sections[k + 1].from = sections[k].from + sections[k].size
      BY <1>0 DEF Walkable, n
    <3>. QED  BY <3>1, <3>2, <1>9, <1>12
  <2>. QED  BY <1>4, <1>9, <2>1, <2>2, <2>3 DEF Walkable
<1>14. InTurn'
  <2> SUFFICES ASSUME NEW j \in 1 .. n, NEW k \in 1 .. n, j < k
               PROVE  sections'[j].from + sections'[j].size <= sections'[k].from
    BY <1>9 DEF InTurn
  <2>1. j \in 1 .. n - 1  BY <1>5
  <2>. QED  BY <2>1, <1>0, <1>5, <1>9, <1>12 DEF InTurn
<1>15. ImageTrue'
  <2> SUFFICES ASSUME Sound, NEW k \in 1 .. n, NEW i \in 0 .. sections'[k].size - 1
               PROVE  data'[sections'[k].from + i] = mem[req.base + sections'[k].address + i]
    <3>1. mem' = mem /\ req' = req /\ DOMAIN sections' = 1 .. n  BY <1>2, <1>9
    <3>. QED  BY <3>1 DEF ImageTrue, Sound
  <2>0. sections'[k].from = sections[k].from /\ sections'[k].address = sections[k].address
    BY <1>12
  <2>1. CASE k = n /\ i = Back.size
    <3>1. sections[k].from + i = Len(data) + 1  BY <2>1, <1>7, <1>10
    <3>2. req.base + sections[k].address + i = req.base + address
      BY <2>1, <1>1, <1>7, <1>10
    <3>. QED  BY <3>1, <3>2, <2>0, <1>3, <1>4
  <2>2. CASE ~(k = n /\ i = Back.size)
    <3>1. i \in 0 .. sections[k].size - 1
      <4>1. CASE k = n  BY <4>1, <2>2, <1>7, <1>8, <1>9, <1>10
      <4>2. CASE k # n
        <5>1. k \in 1 .. n - 1  BY <4>2, <1>5
        <5>. QED  BY <5>1, <1>9
      <4>. QED  BY <4>1, <4>2
    <3>2. sections[k].from + sections[k].size <= Len(data) + 1
      <4>1. CASE k = n  BY <4>1, <1>4, <1>7, <1>10
      <4>2. CASE k # n
        <5>1. k < n  BY <4>2, <1>5
        <5>2. sections[k].from + sections[k].size <= sections[n].from
          BY <5>1, <1>0, <1>5, <1>6 DEF InTurn
        <5>3. sections[n].from <= Len(data) + 1 /\ sections[n].from \in Nat
          BY <1>4, <1>7, <1>10
        <5>4. sections[k].from + sections[k].size \in Nat  BY <1>5
        <5>. QED  BY <5>2, <5>3, <5>4, <1>4, AtMost
      <4>. QED  BY <4>1, <4>2
    <3>3. sections[k].from + i \in 1 .. Len(data)
      BY <3>1, <3>2, <1>4, <1>5
    <3>4. data[sections[k].from + i] = mem[req.base + sections[k].address + i]
      BY <3>1, <1>0, <1>5 DEF ImageTrue
    <3>. QED  BY <3>3, <3>4, <2>0, <1>4
  <2>. QED  BY <2>1, <2>2
<1>16. StaysInRange'
  <2> SUFFICES ASSUME req.mode # "SKIP"
               PROVE  /\ pointer <= req.base + req.length
                      /\ \A k \in 1 .. n :
                           sections'[k].address + sections'[k].size <= req.length
    BY <1>0, <1>2, <1>9 DEF StaysInRange
  <2>1. address + 1 <= req.length  BY <1>0, <1>1, <1>3 DEF Counted
  <2>2. /\ pointer <= req.base + req.length
        /\ \A k \in 1 .. n : sections[k].address + sections[k].size <= req.length
    BY <1>0, <1>5 DEF StaysInRange
  <2>3. ASSUME NEW k \in 1 .. n
        PROVE  sections'[k].address + sections'[k].size <= req.length
    <3>1. CASE k = n  BY <3>1, <2>1, <1>1, <1>7, <1>8, <1>9
    <3>2. CASE k # n
      <4>1. k \in 1 .. n - 1  BY <3>2, <1>5
      <4>. QED  BY <4>1, <2>2, <1>9
    <3>. QED  BY <3>1, <3>2
  <2>. QED  BY <2>2, <2>3
<1>17. Behind'
  <2>1. imageAddress' = Back'.address + Back'.size
    BY <1>2, <1>20
  <2>2. \A k \in 1 .. n : sections'[k].address + sections'[k].size <= address'
    <3> TAKE k \in 1 .. n
    <3>1. CASE k = n
      <4>1. sections'[k] = grown  BY <3>1, <1>9
      <4>. QED  BY <4>1, <1>1, <1>2, <1>20
    <3>2. CASE k # n
      <4>1. k \in 1 .. n - 1  BY <3>2, <1>5
      <4>2. sections[k].address + sections[k].size <= address
        BY <1>0, <1>5 DEF Behind
      <4>3. sections'[k] = sections[k]  BY <4>1, <1>9
      <4>4. sections[k].address + sections[k].size \in Nat /\ address' = address + 1
        BY <4>1, <1>2, <1>5
      <4>. QED  BY <4>2, <4>3, <4>4, <1>1, AtMost
    <3>. QED  BY <3>1, <3>2
  <2>. QED  BY <1>0, <1>2, <1>9, <2>1, <2>2 DEF Behind
<1>18. Counted'
  BY <1>0, <1>1, <1>2 DEF Counted
<1>19. OneSection'
  <2> SUFFICES ASSUME req.mode # "SKIP", req.length <= SectionMaxSize
               PROVE  Len(sections') <= 1 /\ Back'.size = address' /\ imageAddress' = address'
    BY <1>2, <1>9 DEF OneSection
  <2>1. n <= 1 /\ Back.size = address  BY <1>0, <1>6 DEF OneSection, n
  <2>. QED  BY <2>1, <1>2, <1>8, <1>9 DEF Back
<1>21. Trims'  BY <1>0, <1>2 DEF Trims
<1>. QED  BY <1>3, <1>11, <1>13, <1>14, <1>15, <1>16, <1>17, <1>18, <1>19, <1>21 DEF ReadInv

-------------------------------------------------------------------------------
(* Trimming *)

\* One byte less: the sections still cut up the stream, each where it began, and only the
\* last is shorter
LEMMA ShortenedFacts ==
  ASSUME TypeOKRead, Walkable, InTurn, sections # << >>, NEW skip \in {0, 1},
         sections' = Shortened(skip),
         data' \in Seq(Bytes), Len(data') = Len(data) - 1
  PROVE  /\ sections' \in Seq(Section) /\ Walkable' /\ InTurn'
         /\ Len(sections') \in Nat /\ Len(sections') <= Len(sections)
         /\ DOMAIN sections' = 1 .. Len(sections')
         /\ \A k \in 1 .. Len(sections') :
              /\ k \in 1 .. Len(sections) /\ sections'[k].from = sections[k].from
              /\ sections'[k].from \in Nat /\ sections'[k].from > 0
              /\ sections'[k].size \in Nat /\ sections'[k].size <= sections[k].size
              /\ sections'[k].address + sections'[k].size <= sections[k].address + sections[k].size
              /\ sections'[k].from + sections'[k].size <= Len(data)
              /\ k < Len(sections) => sections'[k] = sections[k]
              /\ k = Len(sections) => /\ sections'[k].size = sections[k].size - 1
                                      /\ sections'[k].address = sections[k].address + skip
<1> DEFINE n == Len(sections)
<1>1. sections \in Seq(Section) /\ data \in Seq(Bytes) /\ SectionMaxSize \in Nat
  BY ReadImageAssumption DEF TypeOKRead
<1>2. /\ n \in Nat /\ DOMAIN sections = 1 .. n /\ n > 0 /\ n \in 1 .. n
      /\ \A k \in 1 .. n :
           /\ sections[k] \in Section
           /\ sections[k].address \in Nat /\ sections[k].from \in Nat
           /\ sections[k].size \in Nat /\ sections[k].size > 0 /\ sections[k].from > 0
           /\ sections[k].size <= SectionMaxSize
  BY SectionFacts
<1>3. /\ sections[1].from = 1 /\ sections[n].from + sections[n].size = Len(data) + 1
      /\ \A k \in 1 .. n - 1 : sections[k + 1].from = sections[k].from + sections[k].size
  BY DEF Walkable, Back
<1>4. \A j, k \in 1 .. n : j < k => sections[j].from + sections[j].size <= sections[k].from
  BY <1>2 DEF InTurn
<1>5. /\ Len(data) \in Nat /\ (data' = << >> <=> Len(data) - 1 = 0)
  BY <1>1, EmptyIsZero
<1>6. Back = sections[n]  BY DEF Back
<1> HIDE DEF n
<1>7. n - 1 \in Nat /\ \A k \in 1 .. n - 1 : k \in 1 .. n /\ k # n /\ k < n
  BY <1>2
<1>8. \A k \in 1 .. n - 1 : sections[k].from + sections[k].size <= Len(data)
  <2> TAKE k \in 1 .. n - 1
  <2>1. sections[k].from + sections[k].size <= sections[n].from  BY <1>2, <1>4, <1>7
  <2>2. sections[k].from + sections[k].size \in Nat  BY <1>2, <1>7
  <2>3. sections[n].from \in Nat /\ sections[n].size \in Nat /\ sections[n].size > 0  BY <1>2
  <2>. QED  BY <2>1, <2>2, <2>3, <1>3, <1>5, EndsBefore
<1>9. CASE sections[n].size = 1
  <2>1. sections' = SubSeq(sections, 1, n - 1)  BY <1>9, <1>6 DEF Shortened, n
  <2>2. /\ sections' \in Seq(Section) /\ Len(sections') = n - 1
        /\ \A k \in 1 .. n - 1 : sections'[k] = sections[k]
    BY <1>1, <2>1, DropLast DEF n
  <2>3. DOMAIN sections' = 1 .. n - 1 /\ (sections' = << >> <=> n - 1 = 0)
    BY <2>2, EmptyIsZero
  <2>4. InTurn'
    <3> SUFFICES ASSUME NEW j \in 1 .. n - 1, NEW k \in 1 .. n - 1, j < k
                 PROVE  sections'[j].from + sections'[j].size <= sections'[k].from
      BY <2>3 DEF InTurn
    <3>. QED  BY <2>2, <1>4, <1>7
  <2>5. Walkable'
    <3>1. CASE n = 1
      <4>1. Len(data) = 1  BY <3>1, <1>3, <1>5, <1>9
      <4>. QED  BY <4>1, <3>1, <2>2, <2>3, <1>5 DEF Walkable
    <3>2. CASE n # 1
      <4>1. n - 1 \in 1 .. n - 1 /\ 1 \in 1 .. n - 1 /\ (n - 1) + 1 = n  BY <3>2, <1>2
      <4>2. sections[n].from = sections[n - 1].from + sections[n - 1].size
        BY <4>1, <1>3
      <4>3. sections[n].from = Len(data)  BY <1>2, <1>3, <1>5, <1>9
      <4>4. Back' = sections[n - 1]  BY <4>1, <2>2 DEF Back
      <4>5. Back'.from + Back'.size = Len(data') + 1  BY <4>2, <4>3, <4>4, <1>5
      <4>6. Len(data) - 1 # 0
        <5>1. sections[1].from + sections[1].size <= sections[n].from
          BY <4>1, <1>2, <1>4, <1>7
        <5>2. sections[1].size > 0 /\ sections[1].size \in Nat  BY <4>1, <1>2, <1>7
        <5>. QED  BY <5>1, <5>2, <4>3, <1>3
      <4>7. sections'[1].from = 1  BY <4>1, <2>2, <1>3
      <4>8. \A k \in 1 .. (n - 1) - 1 :
              sections'[k + 1].from = sections'[k].from + sections'[k].size
        <5> TAKE k \in 1 .. (n - 1) - 1
        <5>1. k \in 1 .. n - 1 /\ k + 1 \in 1 .. n - 1  BY <1>2
        <5>. QED  BY <5>1, <2>2, <1>3
      <4>. QED  BY <4>1, <4>5, <4>6, <4>7, <4>8, <2>2, <2>3, <1>5, <3>2 DEF Walkable
    <3>. QED  BY <3>1, <3>2
  <2>6. ASSUME NEW k \in 1 .. n - 1
        PROVE  /\ k \in 1 .. n /\ sections'[k].from = sections[k].from
               /\ sections'[k].from \in Nat /\ sections'[k].from > 0
               /\ sections'[k].size \in Nat /\ sections'[k].size <= sections[k].size
               /\ sections'[k].address + sections'[k].size <= sections[k].address + sections[k].size
               /\ sections'[k].from + sections'[k].size <= Len(data)
               /\ k < n => sections'[k] = sections[k]
               /\ k = n => /\ sections'[k].size = sections[k].size - 1
                           /\ sections'[k].address = sections[k].address + skip
    <3>1. k \in 1 .. n /\ k < n /\ k # n /\ sections'[k] = sections[k]  BY <2>2, <1>7
    <3>2. /\ sections[k].from \in Nat /\ sections[k].from > 0 /\ sections[k].size \in Nat
          /\ sections[k].address \in Nat
      BY <3>1, <1>2
    <3>3. sections[k].from + sections[k].size <= Len(data)  BY <1>8
    <3>. QED  BY <3>1, <3>2, <3>3
  <2>7. n - 1 <= n /\ n - 1 \in Nat  BY <1>2
  <2>8. Len(sections') \in Nat /\ Len(sections') <= n /\ DOMAIN sections' = 1 .. Len(sections')
    BY <2>2, <2>3, <2>7
  <2>9. \A k \in 1 .. Len(sections') :
          /\ k \in 1 .. n /\ sections'[k].from = sections[k].from
          /\ sections'[k].from \in Nat /\ sections'[k].from > 0
          /\ sections'[k].size \in Nat /\ sections'[k].size <= sections[k].size
          /\ sections'[k].address + sections'[k].size <= sections[k].address + sections[k].size
          /\ sections'[k].from + sections'[k].size <= Len(data)
          /\ k < n => sections'[k] = sections[k]
          /\ k = n => /\ sections'[k].size = sections[k].size - 1
                      /\ sections'[k].address = sections[k].address + skip
    BY <2>2, <2>6
  <2>. QED  BY <2>2, <2>4, <2>5, <2>8, <2>9 DEF n
<1>10. CASE sections[n].size # 1
  <2> DEFINE less == [sections[n] EXCEPT !.size = @ - 1, !.address = @ + skip]
  <2>0. /\ sections[n] \in Section /\ sections[n].size \in Nat /\ sections[n].size > 1
        /\ sections[n].address \in Nat /\ sections[n].size <= SectionMaxSize
    BY <1>2, <1>10
  <2>1. /\ less.size = sections[n].size - 1 /\ less.address = sections[n].address + skip
        /\ less.from = sections[n].from /\ less \in Section
    <3>1. sections[n].size - 1 \in 1 .. SectionMaxSize /\ sections[n].address + skip \in Nat
      BY <2>0, <1>1
    <3>. QED  BY <2>0, <3>1 DEF Section
  <2>2. sections' = [sections EXCEPT ![n] = less]
    BY <1>2, <1>6, <1>10 DEF Shortened, n
  <2> HIDE DEF less
  <2>3. sections' \in Seq(Section) /\ Len(sections') = n
    BY <1>1, <1>2, <2>1, <2>2 DEF n
  <2>4. DOMAIN sections' = 1 .. n /\ sections' # << >>
    BY <2>3, <1>2, EmptyIsZero
  <2>5. sections'[n] = less /\ \A k \in 1 .. n : k # n => sections'[k] = sections[k]
    BY <2>2, <1>2
  <2>6. \A k \in 1 .. n : sections'[k].from = sections[k].from
    BY <2>1, <2>5
  <2>7. \A k \in 1 .. n - 1 : sections'[k] = sections[k]
    BY <2>5, <1>7
  <2>8. InTurn'
    <3> SUFFICES ASSUME NEW j \in 1 .. n, NEW k \in 1 .. n, j < k
                 PROVE  sections'[j].from + sections'[j].size <= sections'[k].from
      BY <2>4 DEF InTurn
    <3>1. j # n  BY <1>2
    <3>. QED  BY <3>1, <2>5, <2>6, <1>4
  <2>9. less.from + less.size = Len(data)
    <3>1. sections[n].from + (sections[n].size - 1) = (sections[n].from + sections[n].size) - 1
      BY <1>2
    <3>. QED  BY <3>1, <2>1, <1>3, <1>5
  <2>10. Walkable'
    <3>1. sections'[1].from = 1
      <4>1. 1 \in 1 .. n  BY <1>2
      <4>. QED  BY <4>1, <2>6, <1>3
    <3>2. Back'.from + Back'.size = Len(data') + 1
      <4>1. Back' = less  BY <2>3, <2>5 DEF Back
      <4>. QED  BY <4>1, <2>9, <1>5
    <3>3. \A k \in 1 .. n - 1 : sections'[k + 1].from = sections'[k].from + sections'[k].size
      <4> TAKE k \in 1 .. n - 1
      <4>1. k + 1 \in 1 .. n  BY <1>2
      <4>. QED  BY <4>1, <2>6, <2>7, <1>3
    <3>4. Len(data) - 1 # 0
      <4>1. sections[n].size > 1 /\ sections[n].from > 0 /\ sections[n].size \in Nat
            /\ sections[n].from \in Nat
        BY <1>2, <1>10
      <4>. QED  BY <4>1, <1>3, <1>5
    <3>. QED  BY <3>1, <3>2, <3>3, <3>4, <2>3, <2>4, <1>5 DEF Walkable
  <2>11. ASSUME NEW k \in 1 .. n
         PROVE  /\ k \in 1 .. n /\ sections'[k].from = sections[k].from
                /\ sections'[k].from \in Nat /\ sections'[k].from > 0
                /\ sections'[k].size \in Nat /\ sections'[k].size <= sections[k].size
                /\ sections'[k].address + sections'[k].size <= sections[k].address + sections[k].size
                /\ sections'[k].from + sections'[k].size <= Len(data)
                /\ k < n => sections'[k] = sections[k]
                /\ k = n => /\ sections'[k].size = sections[k].size - 1
                            /\ sections'[k].address = sections[k].address + skip
    <3>1. CASE k = n
      <4>1. sections'[k] = less  BY <3>1, <2>5
      <4>2. /\ sections[k].address \in Nat /\ sections[k].from \in Nat
            /\ sections[k].size \in Nat /\ sections[k].size > 0 /\ sections[k].from > 0
        BY <1>2
      <4>3. less.from + less.size <= Len(data)  BY <2>9, <1>5
      <4>4. /\ less.size \in Nat /\ less.size <= sections[k].size
            /\ less.address + less.size <= sections[k].address + sections[k].size
        BY <3>1, <4>2, <2>1, StaysWithin
      <4>. QED  BY <4>1, <4>2, <4>3, <4>4, <3>1, <2>1
    <3>2. CASE k # n
      <4>1. k \in 1 .. n - 1 /\ sections'[k] = sections[k]  BY <3>2, <1>2, <2>5
      <4>. QED  BY <4>1, <3>2, <1>2, <1>8
    <3>. QED  BY <3>1, <3>2
  <2>12. \A k \in 1 .. Len(sections') :
           /\ k \in 1 .. n /\ sections'[k].from = sections[k].from
           /\ sections'[k].from \in Nat /\ sections'[k].from > 0
           /\ sections'[k].size \in Nat /\ sections'[k].size <= sections[k].size
           /\ sections'[k].address + sections'[k].size <= sections[k].address + sections[k].size
           /\ sections'[k].from + sections'[k].size <= Len(data)
           /\ k < n => sections'[k] = sections[k]
           /\ k = n => /\ sections'[k].size = sections[k].size - 1
                       /\ sections'[k].address = sections[k].address + skip
    BY <2>3, <2>11
  <2>13. Len(sections') \in Nat /\ Len(sections') <= n /\ DOMAIN sections' = 1 .. Len(sections')
    BY <2>3, <2>4, <1>2
  <2>. QED  BY <2>3, <2>8, <2>10, <2>12, <2>13 DEF n
<1>. QED  BY <1>9, <1>10

\* What a step that shortens the last section keeps, whatever its end
LEMMA TrimmingKeeps ==
  ASSUME ReadInv, sections # << >>, phase \in {"trimend", "trimstart"}, NEW skip \in {0, 1},
         sections' = Shortened(skip), data' \in Seq(Bytes), Len(data') = Len(data) - 1,
         UNCHANGED <<mem, req, bytesLeft, imageAddress, address, chunk, pointer, phase>>
  PROVE  /\ TypeOKRead' /\ Walkable' /\ StaysInRange' /\ ChunkTrue'
         /\ Behind' /\ Counted' /\ OneSection' /\ Trims' /\ InTurn'
<1>0. /\ TypeOKRead /\ Walkable /\ StaysInRange /\ OneSection /\ Trims /\ InTurn
  BY DEF ReadInv
<1>1. /\ req \in Requests /\ req.base \in Nat /\ req.length \in Nat
  BY <1>0, ReadImageAssumption DEF TypeOKRead
<1>2. /\ sections' \in Seq(Section) /\ Walkable' /\ InTurn'
      /\ Len(sections') \in Nat /\ Len(sections') <= Len(sections)
      /\ DOMAIN sections' = 1 .. Len(sections')
      /\ \A k \in 1 .. Len(sections') :
           /\ k \in 1 .. Len(sections)
           /\ sections'[k].address + sections'[k].size <= sections[k].address + sections[k].size
  BY <1>0, ShortenedFacts
<1>3. TypeOKRead'
  BY <1>0, <1>2 DEF TypeOKRead
<1>4. StaysInRange'
  <2> SUFFICES ASSUME req.mode # "SKIP"
               PROVE  /\ pointer <= req.base + req.length
                      /\ \A k \in 1 .. Len(sections') :
                           sections'[k].address + sections'[k].size <= req.length
    BY <1>2 DEF StaysInRange
  <2>1. /\ pointer <= req.base + req.length
        /\ \A k \in 1 .. Len(sections) : sections[k].address + sections[k].size <= req.length
    BY <1>0, SectionFacts DEF StaysInRange
  <2>2. ASSUME NEW k \in 1 .. Len(sections')
        PROVE  sections'[k].address + sections'[k].size <= req.length
    <3>1. /\ k \in 1 .. Len(sections) /\ sections[k].address + sections[k].size <= req.length
          /\ sections'[k].address + sections'[k].size <= sections[k].address + sections[k].size
      BY <1>2, <2>1
    <3>2. sections[k].address \in Nat /\ sections[k].size \in Nat
      BY <1>0, <3>1, SectionFacts
    <3>3. sections'[k].address \in Nat /\ sections'[k].size \in Nat
      BY <1>2, <1>3, SectionFields DEF TypeOKRead
    <3>4. /\ sections'[k].address + sections'[k].size \in Nat
          /\ sections[k].address + sections[k].size \in Nat
      BY <3>2, <3>3, SumIsNat
    <3>. QED  BY <1>1, <3>1, <3>4, AtMost
  <2>. QED  BY <2>1, <2>2
<1>5. OneSection'
  <2>1. Len(sections) \in Nat  BY <1>0, SectionFacts
  <2>. QED  BY <1>0, <1>2, <2>1 DEF OneSection
<1>6. ChunkTrue' /\ Behind' /\ Counted' /\ Trims'
  BY <1>0 DEF ChunkTrue, Behind, Counted, Trims
<1>. QED  BY <1>2, <1>3, <1>4, <1>5, <1>6

\* TrimEnd takes the last byte from the stream and from the last section
LEMMA TrimEndKeeps == ReadInv /\ TrimEnd => ReadInv'
<1> SUFFICES ASSUME ReadInv, TrimEnd PROVE ReadInv'  OBVIOUS
<1>0. /\ TypeOKRead /\ Walkable /\ ImageTrue /\ InTurn /\ sections # << >> /\ data # << >>
      /\ data \in Seq(Bytes)
  BY DEF ReadInv, TrimEnd, BlankEnd, Walkable, TypeOKRead
<1>1. /\ data' \in Seq(Bytes) /\ Len(data') = Len(data) - 1
      /\ \A j \in 1 .. Len(data) - 1 : data'[j] = data[j]
      /\ Len(data) \in Nat
  BY <1>0, DropLast, EmptyIsZero DEF TrimEnd
<1>2. /\ sections' = Shortened(0) /\ mem' = mem /\ req' = req
      /\ phase \in {"trimend", "trimstart"}
      /\ UNCHANGED <<mem, req, bytesLeft, imageAddress, address, chunk, pointer, phase>>
  BY DEF TrimEnd
<1>3. /\ TypeOKRead' /\ Walkable' /\ StaysInRange' /\ ChunkTrue'
      /\ Behind' /\ Counted' /\ OneSection' /\ Trims' /\ InTurn'
  <2>1. 0 \in {0, 1}  OBVIOUS
  <2>. QED  BY <1>0, <1>1, <1>2, <2>1, TrimmingKeeps
<1>4. /\ DOMAIN sections' = 1 .. Len(sections')
      /\ \A k \in 1 .. Len(sections') :
           /\ k \in 1 .. Len(sections) /\ sections'[k].from = sections[k].from
           /\ sections'[k].from \in Nat /\ sections'[k].from > 0
           /\ sections'[k].size \in Nat /\ sections'[k].size <= sections[k].size
           /\ sections'[k].from + sections'[k].size <= Len(data)
           /\ k < Len(sections) => sections'[k] = sections[k]
           /\ k = Len(sections) => sections'[k].address = sections[k].address + 0
  <2>1. 0 \in {0, 1}  OBVIOUS
  <2>. QED  BY <1>0, <1>1, <1>2, <2>1, ShortenedFacts
<1>5. ImageTrue'
  <2> SUFFICES ASSUME Sound, NEW k \in 1 .. Len(sections'), NEW i \in 0 .. sections'[k].size - 1
               PROVE  data'[sections'[k].from + i] = mem[req.base + sections'[k].address + i]
    BY <1>2, <1>4 DEF ImageTrue, Sound
  <2>1. /\ k \in 1 .. Len(sections) /\ sections[k].address \in Nat /\ sections[k].size \in Nat
        /\ Len(sections) \in Nat /\ DOMAIN sections = 1 .. Len(sections)
    BY <1>0, <1>4, SectionFacts
  <2>2. /\ i \in Nat /\ i \in 0 .. sections[k].size - 1
        /\ sections'[k].from + i \in 1 .. Len(data) - 1
    <3>1. /\ sections'[k].from \in Nat /\ sections'[k].from > 0 /\ sections'[k].size \in Nat
          /\ sections'[k].size <= sections[k].size
          /\ sections'[k].from + sections'[k].size <= Len(data)
      BY <1>4
    <3>2. i \in Nat /\ sections'[k].from + i \in 1 .. Len(data) - 1
      BY <3>1, <1>1, WithinStream
    <3>3. i \in 0 .. sections[k].size - 1
      BY <3>1, <2>1, WithinLarger
    <3>. QED  BY <3>2, <3>3
  <2>3. sections'[k].address = sections[k].address
    <3>1. CASE k < Len(sections)
      <4>1. sections'[k] = sections[k]  BY <3>1, <1>4
      <4>. QED  BY <4>1
    <3>2. CASE k = Len(sections)
      <4>1. sections'[k].address = sections[k].address + 0  BY <3>2, <1>4
      <4>2. sections[k].address + 0 = sections[k].address  BY <2>1, Unmoved
      <4>. QED  BY <4>1, <4>2
    <3>3. k < Len(sections) \/ k = Len(sections)  BY <2>1, LastOrBefore
    <3>. QED  BY <3>1, <3>2, <3>3
  <2>4. data[sections[k].from + i] = mem[req.base + sections[k].address + i]
    BY <1>0, <2>1, <2>2 DEF ImageTrue
  <2>5. data'[sections'[k].from + i] = data[sections'[k].from + i]  BY <1>1, <2>2
  <2>6. sections'[k].from = sections[k].from  BY <1>4
  <2>. QED  BY <2>3, <2>4, <2>5, <2>6
<1>. QED  BY <1>3, <1>5 DEF ReadInv

\* TrimStart takes the first byte from the stream and from the last section: where that is the
\* only one, the two are the same byte
LEMMA TrimStartKeeps == ReadInv /\ TrimStart => ReadInv'
<1> SUFFICES ASSUME ReadInv, TrimStart PROVE ReadInv'  OBVIOUS
<1>0. /\ TypeOKRead /\ Walkable /\ ImageTrue /\ InTurn /\ sections # << >> /\ data # << >>
      /\ data \in Seq(Bytes) /\ OneSection /\ Trims
  BY DEF ReadInv, TrimStart, BlankStart, Walkable, TypeOKRead
<1>1. /\ data' \in Seq(Bytes) /\ Len(data') = Len(data) - 1
      /\ \A j \in 1 .. Len(data) - 1 : data'[j] = data[j + 1]
      /\ Len(data) \in Nat
  BY <1>0, TakeHead, EmptyIsZero DEF TrimStart
<1>2. /\ sections' = Shortened(1) /\ mem' = mem /\ req' = req
      /\ phase \in {"trimend", "trimstart"} /\ phase = "trimstart"
      /\ UNCHANGED <<mem, req, bytesLeft, imageAddress, address, chunk, pointer, phase>>
  BY DEF TrimStart
<1>3. /\ TypeOKRead' /\ Walkable' /\ StaysInRange' /\ ChunkTrue'
      /\ Behind' /\ Counted' /\ OneSection' /\ Trims' /\ InTurn'
  <2>1. 1 \in {0, 1}  OBVIOUS
  <2>. QED  BY <1>0, <1>1, <1>2, <2>1, TrimmingKeeps
<1>4. /\ DOMAIN sections' = 1 .. Len(sections')
      /\ \A k \in 1 .. Len(sections') :
           /\ k \in 1 .. Len(sections) /\ sections'[k].from = sections[k].from
           /\ sections'[k].from \in Nat /\ sections'[k].from > 0
           /\ sections'[k].from + sections'[k].size <= Len(data)
           /\ k = Len(sections) => /\ sections'[k].size = sections[k].size - 1
                                   /\ sections'[k].address = sections[k].address + 1
  <2>1. 1 \in {0, 1}  OBVIOUS
  <2>. QED  BY <1>0, <1>1, <1>2, <2>1, ShortenedFacts
<1>5. ImageTrue'
  <2> SUFFICES ASSUME Sound, NEW k \in 1 .. Len(sections'), NEW i \in 0 .. sections'[k].size - 1
               PROVE  data'[sections'[k].from + i] = mem[req.base + sections'[k].address + i]
    BY <1>2, <1>4 DEF ImageTrue, Sound
  <2>1. /\ req.mode \in {"TRIMSTART", "TRIMBOTH"} /\ req.length <= SectionMaxSize
    BY <1>0, <1>2 DEF Trims, Sound
  <2>2. Len(sections) <= 1  BY <1>0, <2>1 DEF OneSection
  <2>3. /\ k \in 1 .. Len(sections) /\ sections[k].address \in Nat /\ sections[k].size \in Nat
        /\ Len(sections) \in Nat /\ DOMAIN sections = 1 .. Len(sections)
        /\ sections[k].from \in Nat
    BY <1>0, <1>4, SectionFacts
  <2>4. k = Len(sections)  BY <2>2, <2>3, OnlyOne
  <2>5. sections'[k].size = sections[k].size - 1 /\ sections'[k].address = sections[k].address + 1
    BY <1>4, <2>4
  <2>6. /\ i \in Nat /\ i + 1 \in 0 .. sections[k].size - 1
        /\ sections'[k].from + i \in 1 .. Len(data) - 1
    <3>1. /\ sections'[k].from \in Nat /\ sections'[k].from > 0
          /\ sections'[k].from + sections'[k].size <= Len(data)
      BY <1>4
    <3>2. sections'[k].size \in Nat  BY <1>3, SectionFields DEF TypeOKRead
    <3>3. i \in Nat /\ sections'[k].from + i \in 1 .. Len(data) - 1
      BY <3>1, <3>2, <1>1, WithinStream
    <3>4. i + 1 \in 0 .. sections[k].size - 1
      BY <3>2, <2>3, <2>5, WithinLarger
    <3>. QED  BY <3>3, <3>4
  <2>7. data[sections[k].from + (i + 1)] = mem[req.base + sections[k].address + (i + 1)]
    BY <1>0, <2>3, <2>6 DEF ImageTrue
  <2>8. data'[sections'[k].from + i] = data[sections[k].from + i + 1]
    BY <1>1, <1>4, <2>6
  <2>9. /\ sections[k].from + i + 1 = sections[k].from + (i + 1)
        /\ req.base + (sections[k].address + 1) + i = req.base + sections[k].address + (i + 1)
    <3>1. req.base \in Nat  BY <1>0, ReadImageAssumption DEF TypeOKRead
    <3>2. sections[k].from \in Nat /\ sections[k].address \in Nat /\ i \in Nat  BY <2>3, <2>6
    <3> DEFINE f == sections[k].from
               b == req.base
               a == sections[k].address
    <3>3. f \in Nat /\ b \in Nat /\ a \in Nat /\ i \in Nat  BY <3>1, <3>2
    <3> HIDE DEF f, b, a
    <3>4. f + i + 1 = f + (i + 1) /\ b + (a + 1) + i = b + a + (i + 1)
      BY <3>3, Reassociated
    <3>. QED  BY <3>4 DEF f, b, a
  <2>. QED  BY <2>5, <2>7, <2>8, <2>9
<1>. QED  BY <1>3, <1>5 DEF ReadInv

-------------------------------------------------------------------------------
(* The theorems *)

\* Every step keeps the invariant
LEMMA StepKeeps == ReadInv /\ [ReadNext]_readVars => ReadInv'
<1> SUFFICES ASSUME ReadInv, [ReadNext]_readVars PROVE ReadInv'  OBVIOUS
<1>1. CASE SetAddress  BY <1>1, SetAddressKeeps
<1>2. CASE ReadBlock  BY <1>2, ReadBlockKeeps
<1>3. CASE TakeByte  BY <1>3, NewSectionKeeps, SameSectionKeeps
<1>4. CASE SkipByte  BY <1>4, SkipByteKeeps
<1>5. CASE EndLoop
  BY <1>5, PhaseKeeps DEF EndLoop
<1>6. CASE TrimEnd  BY <1>6, TrimEndKeeps
<1>7. CASE EndTrimEnd
  BY <1>7, PhaseKeeps DEF EndTrimEnd
<1>8. CASE TrimStart  BY <1>8, TrimStartKeeps
<1>9. CASE EndTrimStart
  BY <1>9, PhaseKeeps DEF EndTrimStart
<1>10. CASE ReadFails
  BY <1>10, PhaseKeeps DEF ReadFails
<1>11. CASE UNCHANGED readVars
  BY <1>11 DEF readVars, ReadInv, TypeOKRead, Walkable, ImageTrue, StaysInRange, ChunkTrue,
               Behind, Counted, OneSection, Trims, InTurn, Back, Sound
<1>. QED
  BY <1>1, <1>2, <1>3, <1>4, <1>5, <1>6, <1>7, <1>8, <1>9, <1>10, <1>11 DEF ReadNext, Works

\* The inductive invariant of read_image (FastUPDI.cpp:138-259)
THEOREM ReadInvariant == ReadSpec => []ReadInv
<1>1. ReadInit => ReadInv  BY InitReadInv
<1>2. ReadInv /\ [ReadNext]_readVars => ReadInv'  BY StepKeeps
<1>. QED  BY <1>1, <1>2, PTL DEF ReadSpec

\* Every byte of the image is the memory's at the address its section gives it, in every mode
\* and at any time, where trimming at the start is sound
THEOREM DumpTrue == ReadSpec => []ImageTrue
<1>1. ReadInv => ImageTrue  BY DEF ReadInv
<1>. QED  BY <1>1, ReadInvariant, PTL

\* The programmer is never sent beyond the range asked for, and nothing from beyond it gets
\* into the image, but in SKIP mode
THEOREM NeverBeyond == ReadSpec => []StaysInRange
<1>1. ReadInv => StaysInRange  BY DEF ReadInv
<1>. QED  BY <1>1, ReadInvariant, PTL

-------------------------------------------------------------------------------
(* A dump: whatever is done with files, the memory is read as ReadImage says *)

\* Saving, tearing and loading files leave the read alone (Operation.cpp:299-341)
THEOREM DumpReads == Spec => ReadSpec
<1>1. Init => ReadInit
  BY DEF Init
<1>2. [Next]_vars => [ReadNext]_readVars
  <2> SUFFICES ASSUME [Next]_vars PROVE [ReadNext]_readVars  OBVIOUS
  <2>1. CASE ReadMemory  BY <2>1 DEF ReadMemory
  <2>2. CASE Save  BY <2>2 DEF Save
  <2>3. CASE Tear  BY <2>3 DEF Tear
  <2>4. CASE Load  BY <2>4 DEF Load
  <2>5. CASE UNCHANGED vars  BY <2>5 DEF vars
  <2>. QED  BY <2>1, <2>2, <2>3, <2>4, <2>5 DEF Next
<1>. QED  BY <1>1, <1>2, PTL DEF Spec, ReadSpec

\* At any time of any dump the image is the memory's, byte by byte, and nothing outside the
\* range asked for is in it or was read for it
THEOREM DumpIsSafe == Spec => [](ReadInv /\ ImageTrue /\ StaysInRange)
<1>1. ReadInv => ReadInv /\ ImageTrue /\ StaysInRange  BY DEF ReadInv
<1>. QED  BY <1>1, DumpReads, ReadInvariant, PTL
=============================================================================

------------------------------- MODULE ReadImage -------------------------------
(***************************************************************************)
(* FastUPDI::read_image (FastUPDI.cpp): a range of the target's memory is  *)
(* read block by block into an image, which the output mode may trim.      *)
(*                                                                         *)
(* An image is a stream of bytes and the sections that cut it up.  Whoever *)
(* uses one walks both together; `from` is where that walk finds the first *)
(* byte of a section.                                                      *)
(***************************************************************************)
EXTENDS Integers, Sequences

CONSTANTS
  Extent,          \* addresses of the target; reads beyond are cut off there
  Bytes,
  Blank,           \* BlankData
  SectionMaxSize,
  Requests         \* what may be asked for: base, length and output mode

Addresses == 0 .. Extent - 1
Modes == {"FULL", "TRIMEND", "TRIMSTART", "TRIMBOTH", "SKIP"}

ASSUME ReadImageAssumption ==
  /\ Extent \in Nat /\ SectionMaxSize \in Nat \ {0} /\ Blank \in Bytes
  /\ Requests \subseteq [base : Nat, length : Nat, mode : Modes]
  /\ \A r \in Requests : r.base + r.length <= Extent

VARIABLES
  mem,           \* of the target
  req,
  sections,      \* of the image: address, size, from
  data,          \* dataStream of the image
  bytesLeft,
  imageAddress,  \* where the next byte of the last section would be
  address,       \* of the next byte, from the beginning of the range
  chunk,         \* what is left of readData
  pointer,       \* of the programmer
  phase

readVars == <<mem, req, sections, data, bytesLeft, imageAddress, address, chunk, pointer, phase>>

Nowhere == -1  \* UINT32_MAX

Least(a, b) == IF a <= b THEN a ELSE b

ReadInit ==
  /\ mem \in [Addresses -> Bytes] /\ req \in Requests
  /\ sections = << >> /\ data = << >> /\ chunk = << >>
  /\ bytesLeft = req.length /\ imageAddress = Nowhere /\ address = 0
  /\ pointer = 0 /\ phase = "start"

image == [sections |-> sections, data |-> data]
Back  == sections[Len(sections)]

-------------------------------------------------------------------------------
(* The loop over the range *)

SetAddress ==
  /\ phase = "start"
  /\ pointer' = req.base /\ phase' = "reading"
  /\ UNCHANGED <<mem, req, sections, data, bytesLeft, imageAddress, address, chunk>>

\* Mutant: the last block is read in full
ToReadFull == SectionMaxSize

ToRead == Least(SectionMaxSize, bytesLeft)

ReadBlock ==
  /\ phase = "reading" /\ chunk = << >> /\ bytesLeft > 0
  /\ pointer + ToRead <= Extent
  /\ chunk' = [i \in 1 .. ToRead |-> mem[pointer + i - 1]]
  /\ pointer' = pointer + ToRead
  /\ UNCHANGED <<mem, req, sections, data, bytesLeft, imageAddress, address, phase>>

\* set_block_address or read_block returns false
ReadFails ==
  /\ phase \in {"start", "reading"} /\ chunk = << >>
  /\ phase' = "failed"
  /\ UNCHANGED <<mem, req, sections, data, bytesLeft, imageAddress, address, chunk, pointer>>

\* Mutant: only a full section ends one
NeedsSectionIfFull == sections = << >> \/ Back.size >= SectionMaxSize

NeedsSection == address # imageAddress \/ Back.size >= SectionMaxSize

\* Mutant: blank bytes are not counted in any mode
TakeByteUncounted ==
  /\ phase = "reading" /\ chunk # << >>
  /\ ~(req.mode = "SKIP" /\ Head(chunk) = Blank)
  /\ data' = Append(data, Head(chunk))
  /\ bytesLeft' = IF Head(chunk) = Blank THEN bytesLeft ELSE bytesLeft - 1
  /\ sections' = IF NeedsSection
                   THEN Append(sections, [address |-> address, size |-> 1, from |-> Len(data) + 1])
                   ELSE [sections EXCEPT ![Len(sections)].size = @ + 1]
  /\ imageAddress' = address + 1 /\ address' = address + 1
  /\ chunk' = Tail(chunk)
  /\ UNCHANGED <<mem, req, pointer, phase>>

TakeByte ==
  /\ phase = "reading" /\ chunk # << >>
  /\ ~(req.mode = "SKIP" /\ Head(chunk) = Blank)
  /\ data' = Append(data, Head(chunk))
  /\ bytesLeft' = bytesLeft - 1
  /\ sections' = IF NeedsSection
                   THEN Append(sections, [address |-> address, size |-> 1, from |-> Len(data) + 1])
                   ELSE [sections EXCEPT ![Len(sections)].size = @ + 1]
  /\ imageAddress' = address + 1 /\ address' = address + 1
  /\ chunk' = Tail(chunk)
  /\ UNCHANGED <<mem, req, pointer, phase>>

\* A byte left out is not counted: another one is read for it, from beyond the range
SkipByte ==
  /\ phase = "reading" /\ chunk # << >>
  /\ req.mode = "SKIP" /\ Head(chunk) = Blank
  /\ address' = address + 1 /\ chunk' = Tail(chunk)
  /\ UNCHANGED <<mem, req, sections, data, bytesLeft, imageAddress, pointer, phase>>

EndLoop ==
  /\ phase = "reading" /\ chunk = << >> /\ bytesLeft = 0
  /\ phase' = IF req.mode \in {"TRIMEND", "TRIMBOTH"} THEN "trimend"
              ELSE IF req.mode = "TRIMSTART" THEN "trimstart" ELSE "read"
  /\ UNCHANGED <<mem, req, sections, data, bytesLeft, imageAddress, address, chunk, pointer>>

-------------------------------------------------------------------------------
(* Trimming *)

\* Mutant: a section stays when nothing is left of it
ShortenedKeepsEmpty(skip) ==
  [sections EXCEPT ![Len(sections)].size = @ - 1, ![Len(sections)].address = @ + skip]

\* One byte less in the last section, which is removed when that was the only one
Shortened(skip) ==
  IF Back.size = 1 THEN SubSeq(sections, 1, Len(sections) - 1)
  ELSE [sections EXCEPT ![Len(sections)].size = @ - 1, ![Len(sections)].address = @ + skip]

\* Mutant: trimming stops at the beginning of the last section
BlankEndInSection == sections # << >> /\ Back.size > 1 /\ data[Len(data)] = Blank

BlankEnd == sections # << >> /\ data[Len(data)] = Blank

TrimEnd ==
  /\ phase = "trimend" /\ BlankEnd
  /\ data' = SubSeq(data, 1, Len(data) - 1) /\ sections' = Shortened(0)
  /\ UNCHANGED <<mem, req, bytesLeft, imageAddress, address, chunk, pointer, phase>>

EndTrimEnd ==
  /\ phase = "trimend" /\ ~BlankEnd
  /\ phase' = IF req.mode = "TRIMBOTH" THEN "trimstart" ELSE "read"
  /\ UNCHANGED <<mem, req, sections, data, bytesLeft, imageAddress, address, chunk, pointer>>

BlankStart == sections # << >> /\ Head(data) = Blank

\* The byte goes from the start of the stream, but it is the last section that moves
TrimStart ==
  /\ phase = "trimstart" /\ BlankStart
  /\ data' = Tail(data) /\ sections' = Shortened(1)
  /\ UNCHANGED <<mem, req, bytesLeft, imageAddress, address, chunk, pointer, phase>>

EndTrimStart ==
  /\ phase = "trimstart" /\ ~BlankStart
  /\ phase' = "read"
  /\ UNCHANGED <<mem, req, sections, data, bytesLeft, imageAddress, address, chunk, pointer>>

Works == \/ SetAddress \/ ReadBlock \/ TakeByte \/ SkipByte \/ EndLoop
         \/ TrimEnd \/ EndTrimEnd \/ TrimStart \/ EndTrimStart

ReadNext == Works \/ ReadFails

ReadSpec == ReadInit /\ [][ReadNext]_readVars

-------------------------------------------------------------------------------
(* Properties *)

Section == [address : Nat, size : 1 .. SectionMaxSize, from : Nat \ {0}]

TypeOKRead ==
  /\ mem \in [Addresses -> Bytes] /\ req \in Requests
  /\ sections \in Seq(Section) /\ data \in Seq(Bytes) /\ chunk \in Seq(Bytes)
  /\ bytesLeft \in Nat /\ imageAddress \in Nat \cup {Nowhere}
  /\ address \in Nat /\ pointer \in Nat
  /\ phase \in {"start", "reading", "trimend", "trimstart", "read", "failed"}

\* The sections cut the stream up without gaps: a walk that moves on by the size of each
\* ends at the end of the stream (FastUPDI.cpp:49, 110)
Walkable ==
  /\ sections = << >> <=> data = << >>
  /\ sections # << >> => sections[1].from = 1 /\ Back.from + Back.size = Len(data) + 1
  /\ \A k \in 1 .. Len(sections) - 1 : sections[k + 1].from = sections[k].from + sections[k].size

\* Trimming at the start is right only where there is one section
Sound == req.mode \in {"TRIMSTART", "TRIMBOTH"} => req.length <= SectionMaxSize

\* At any time every byte of the image is the memory's at the address its section gives it,
\* whatever was skipped, cut into sections or trimmed (FastUPDI.cpp:159-239)
ImageTrue ==
  Sound => \A k \in DOMAIN sections : \A i \in 0 .. sections[k].size - 1 :
             data[sections[k].from + i] = mem[req.base + sections[k].address + i]

\* No byte beyond the range is read or put into the image, but in SKIP mode
StaysInRange ==
  req.mode # "SKIP" =>
    /\ phase # "start" => pointer <= req.base + req.length
    /\ \A k \in DOMAIN sections : sections[k].address + sections[k].size <= req.length

(* How these come about: the parts of the inductive invariant *)

\* What is in readData is what the memory holds from the address on
ChunkTrue ==
  phase = "reading" =>
    /\ pointer = req.base + address + Len(chunk)
    /\ Len(chunk) <= bytesLeft
    /\ \A i \in DOMAIN chunk : chunk[i] = mem[req.base + address + i - 1]

\* The address is behind all sections, and imageAddress right behind the last
Behind ==
  /\ phase = "start" => sections = << >> /\ chunk = << >> /\ address = 0 /\ pointer = 0
  /\ phase \in {"start", "reading"} =>
       /\ IF sections = << >> THEN imageAddress = Nowhere
          ELSE imageAddress = Back.address + Back.size
       /\ \A k \in DOMAIN sections : sections[k].address + sections[k].size <= address

\* But in SKIP mode the bytes left are those of the range that follow
Counted ==
  req.mode # "SKIP" /\ phase \in {"start", "reading"} => address + bytesLeft = req.length

\* A range that is no larger than a section gives one
OneSection ==
  req.mode # "SKIP" /\ req.length <= SectionMaxSize =>
    /\ Len(sections) <= 1
    /\ phase \in {"start", "reading"} =>
         IF sections = << >> THEN address = 0
         ELSE Back.size = address /\ imageAddress = address

\* The start is trimmed only where that was asked for
Trims == phase = "trimstart" => req.mode \in {"TRIMSTART", "TRIMBOTH"}

\* Sections further back begin further back in the stream
InTurn ==
  \A j, k \in DOMAIN sections : j < k => sections[j].from + sections[j].size <= sections[k].from

ReadInv ==
  /\ TypeOKRead /\ Walkable /\ ImageTrue /\ StaysInRange
  /\ ChunkTrue /\ Behind /\ Counted /\ OneSection /\ Trims /\ InTurn
=============================================================================

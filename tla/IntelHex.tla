-------------------------------- MODULE IntelHex --------------------------------
(***************************************************************************)
(* FIntelHex::Read and Write: images to records and back.  The text of a   *)
(* record is abstract; `good` says that its checksum is right.  A file may *)
(* end in the middle of a record, which is then a CutRecord.               *)
(***************************************************************************)
EXTENDS Naturals, Sequences
LOCAL INSTANCE SequencesExt

CONSTANTS
  MaxByteCount,    \* max_bytecount of Write
  RecordMax,       \* the largest bytecount of a record: 255
  Radix,           \* 2^16: addresses a record can name
  SegmentUnit,     \* 16: addresses from one segment to the next
  SectionSize      \* SectionMaxSize

ASSUME IntelHexAssumption ==
  {MaxByteCount, RecordMax, Radix, SegmentUnit, SectionSize} \subseteq Nat \ {0}

\* Records.  The two bytes of an address record are its upper address.
DataRecord(a, bytes) == [type |-> "DATA", address |-> a, data |-> bytes, good |-> TRUE]
LinearRecord(upper)  == [type |-> "EXTENDED_LINEAR_ADDRESS", upper |-> upper, good |-> TRUE]
SegmentRecord(upper) == [type |-> "EXTENDED_SEGMENT_ADDRESS", upper |-> upper, good |-> TRUE]
StartRecord          == [type |-> "START_LINEAR_ADDRESS", good |-> TRUE]
EndRecord            == [type |-> "END_OF_FILE", good |-> TRUE]
OtherRecord          == [type |-> "OTHER", good |-> TRUE]
CutRecord            == [type |-> "CUT"]

\* The bytes of a section, at their place in the stream
BytesOf(image, k) ==
  LET s == image.sections[k] IN SubSeq(image.data, s.from, s.from + s.size - 1)

\* What an image says: bytes with their addresses, in order
Placed(image) ==
  FlattenSeq([k \in DOMAIN image.sections |->
    [i \in 1 .. image.sections[k].size |->
       <<image.sections[k].address + i - 1, BytesOf(image, k)[i]>>]])

-------------------------------------------------------------------------------
(* Write *)

\* The pieces of a section, each with its whole address
Pieces(image, k) ==
  LET s == image.sections[k]
      n == (s.size + MaxByteCount - 1) \div MaxByteCount
  IN  [j \in 1 .. n |->
         [address |-> s.address + (j - 1) * MaxByteCount,
          data |-> SubSeq(BytesOf(image, k), (j - 1) * MaxByteCount + 1,
                          IF j = n THEN s.size ELSE j * MaxByteCount)]]

AllPieces(image) == FlattenSeq([k \in DOMAIN image.sections |-> Pieces(image, k)])

\* Mutant: the upper address of where the last record ended
UpperBeforeEnd(pieces, i) ==
  IF i = 1 THEN 0 ELSE (pieces[i - 1].address + Len(pieces[i - 1].data)) \div Radix

\* linearAddress when piece i is written: it outlives the sections
UpperBefore(pieces, i) == IF i = 1 THEN 0 ELSE pieces[i - 1].address \div Radix

WriteFile(image) ==
  LET pieces == AllPieces(image)
      Records(i) ==
        LET upper == pieces[i].address \div Radix
            record == DataRecord(pieces[i].address % Radix, pieces[i].data)
        IN  IF upper # UpperBefore(pieces, i) THEN << LinearRecord(upper), record >> ELSE << record >>
  IN  FlattenSeq([i \in DOMAIN pieces |-> Records(i)]) \o << EndRecord >>

-------------------------------------------------------------------------------
(* Read *)

NoImage == [sections |-> << >>, data |-> << >>]
ReadStart == [image |-> NoImage, imageAddress |-> 0, linear |-> 0, segment |-> 0,
              verdict |-> "reading"]

Opened(image, a) ==
  [image EXCEPT !.sections = Append(@, [address |-> a, size |-> 0, from |-> Len(image.data) + 1])]

\* Mutant: the size is only looked at when the addresses leave a gap
TakeUnsplit(s, record) ==
  LET a == s.linear * Radix + record.address + s.segment * SegmentUnit
      begun == IF a # s.imageAddress \/ s.image.sections = << >> THEN Opened(s.image, a) ELSE s.image
  IN  [s EXCEPT !.image = [begun EXCEPT !.data = @ \o record.data,
                             !.sections[Len(begun.sections)].size = @ + Len(record.data)],
                !.imageAddress = a + Len(record.data)]

\* Mutant: only the first record begins a section by its address
TakeNoGap(s, record) ==
  LET a == s.linear * Radix + record.address + s.segment * SegmentUnit
      begun == IF s.image.sections = << >> THEN Opened(s.image, a) ELSE s.image
      into == IF record.data # << >> /\ Last(begun.sections).size >= SectionSize
                THEN Opened(begun, a) ELSE begun
  IN  [s EXCEPT !.image = [into EXCEPT !.data = @ \o record.data,
                             !.sections[Len(into.sections)].size = @ + Len(record.data)],
                !.imageAddress = a + Len(record.data)]

\* The size grows only after the record is in, so that it is looked at once in a record
Take(s, record) ==
  LET a == s.linear * Radix + record.address + s.segment * SegmentUnit
      begun == IF a # s.imageAddress \/ s.image.sections = << >> THEN Opened(s.image, a) ELSE s.image
      into == IF record.data # << >> /\ Last(begun.sections).size >= SectionSize
                THEN Opened(begun, a) ELSE begun
  IN  [s EXCEPT !.image = [into EXCEPT !.data = @ \o record.data,
                             !.sections[Len(into.sections)].size = @ + Len(record.data)],
                !.imageAddress = a + Len(record.data)]

\* A record that the file ends in does not parse, or fails its checksum
ReadRecord(s, record) ==
  CASE s.verdict # "reading" -> s
    [] record.type = "CUT" -> [s EXCEPT !.verdict = "refused"]
    [] record.type # "CUT" /\ ~record.good -> [s EXCEPT !.verdict = "refused"]
    [] OTHER ->
       CASE record.type = "DATA" -> Take(s, record)
         [] record.type = "EXTENDED_LINEAR_ADDRESS" -> [s EXCEPT !.linear = record.upper]
         [] record.type = "EXTENDED_SEGMENT_ADDRESS" -> [s EXCEPT !.segment = record.upper]
         [] record.type = "START_LINEAR_ADDRESS" -> s
         [] record.type = "END_OF_FILE" -> [s EXCEPT !.verdict = "taken"]
         [] OTHER -> [s EXCEPT !.verdict = "refused"]

\* Mutant: the end of the file ends the image as well
ReadFileToEnd(file) ==
  LET s == FoldLeft(ReadRecord, ReadStart, file)
  IN  [image |-> s.image, verdict |-> IF s.verdict = "reading" THEN "taken" ELSE s.verdict]

\* Unexpected end of file
ReadFile(file) ==
  LET s == FoldLeft(ReadRecord, ReadStart, file)
  IN  [image |-> s.image, verdict |-> IF s.verdict = "reading" THEN "refused" ELSE s.verdict]

-------------------------------------------------------------------------------
(* What a file says, record by record: the reference for Read *)

\* The last address record of a type before record i
UpperOf(file, type, i) ==
  LET before == {j \in 1 .. i - 1 : file[j].type = type}
  IN  IF before = {} THEN 0
      ELSE file[CHOOSE j \in before : \A l \in before : l <= j].upper

Complete(file) == \E i \in DOMAIN file : file[i].type = "END_OF_FILE"
Body(file) == SubSeq(file, 1, (CHOOSE i \in DOMAIN file :
                /\ file[i].type = "END_OF_FILE"
                /\ \A j \in 1 .. i - 1 : file[j].type # "END_OF_FILE") - 1)

Said(file) ==
  LET At(i) == file[i].address + Radix * UpperOf(file, "EXTENDED_LINEAR_ADDRESS", i)
                               + SegmentUnit * UpperOf(file, "EXTENDED_SEGMENT_ADDRESS", i)
  IN  FlattenSeq([i \in DOMAIN Body(file) |->
        IF file[i].type # "DATA" THEN << >>
        ELSE [b \in DOMAIN file[i].data |-> <<At(i) + b - 1, file[i].data[b]>>]])
=============================================================================

--------------------------------- MODULE MCDump ---------------------------------
(***************************************************************************)
(* All memories of seven bytes, blank or not, read from two bases in every *)
(* mode; sections of three bytes, records of two, borders at every fourth  *)
(* address; and files of other programs of up to three records.            *)
(***************************************************************************)
EXTENDS Dump

MCBytes == {1, 255}

MCRequests == [base : {0, 1}, length : {0, 1, 3, 5, 6}, mode : Modes]

\* Records of no, one and the most bytes, at one another's ends and elsewhere
ForeignRecords ==
  {DataRecord(0, << >>), DataRecord(0, <<1, 2, 3, 4>>), DataRecord(0, <<5, 6>>),
   DataRecord(2, <<7>>), DataRecord(2, <<8, 9, 10, 11>>), DataRecord(3, <<12, 13>>),
   LinearRecord(1), LinearRecord(0), SegmentRecord(1), StartRecord, OtherRecord, CutRecord,
   [DataRecord(2, <<7>>) EXCEPT !.good = FALSE], EndRecord}

MCFiles == UNION {[1 .. n -> ForeignRecords] : n \in 0 .. 3}
           \cup {f \o << EndRecord >> : f \in [1 .. 3 -> ForeignRecords \ {EndRecord}]}
=============================================================================

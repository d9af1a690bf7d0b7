---------------------------------- MODULE Dump ----------------------------------
(***************************************************************************)
(* What -R makes of a memory and -W and -V take from a file: a range is    *)
(* read into an image (ReadImage), saved as Intel HEX, and read again, or  *)
(* a file of another program is.  The controller may be killed while it    *)
(* saves.                                                                  *)
(***************************************************************************)
EXTENDS ReadImage, IntelHex
LOCAL INSTANCE SequencesExt

CONSTANT ForeignFiles  \* files of other programs

ASSUME SameSize == SectionSize = SectionMaxSize

VARIABLES
  file,
  back,   \* what reading the file gave: image and verdict
  stage   \* "dump", "saved", "torn", "foreign" or "loaded"

vars == <<readVars, file, back, stage>>

Nothing == [image |-> NoImage, verdict |-> "none"]

\* A memory is read, or a -W or -V brings a file of its own
Init ==
  /\ ReadInit /\ back = Nothing
  /\ \/ file = << >> /\ stage = "dump"
     \/ /\ file \in ForeignFiles /\ stage = "foreign"
        /\ mem = [a \in Addresses |-> Blank] /\ req = CHOOSE r \in Requests : TRUE

ReadMemory == stage = "dump" /\ ReadNext /\ UNCHANGED <<file, back, stage>>

Save ==
  /\ stage = "dump" /\ phase = "read"
  /\ file' = WriteFile(image) /\ stage' = "saved"
  /\ UNCHANGED <<readVars, back>>

\* Killed while saving: some records are in the file, the next in part
Tear ==
  /\ stage = "dump" /\ phase = "read"
  /\ \E n \in 0 .. Len(WriteFile(image)) - 1, cut \in {<< >>, << CutRecord >>} :
       file' = SubSeq(WriteFile(image), 1, n) \o cut
  /\ stage' = "torn"
  /\ UNCHANGED <<readVars, back>>

Load ==
  /\ stage \in {"saved", "torn", "foreign"}
  /\ back' = ReadFile(file) /\ stage' = "loaded"
  /\ UNCHANGED <<readVars, file>>

Next == ReadMemory \/ Save \/ Tear \/ Load

Spec == Init /\ [][Next]_vars

\* The controller runs; that a call fails is not forced
FairSpec == Spec /\ WF_vars(stage = "dump" /\ Works /\ UNCHANGED <<file, back, stage>>)

-------------------------------------------------------------------------------
(* Properties *)

\* Types, and images that can be walked
TypeOK ==
  /\ TypeOKRead /\ Walkable
  /\ back.verdict \in {"none", "taken", "refused"}
  /\ stage \in {"dump", "saved", "torn", "foreign", "loaded"}

\* The addresses of the range that a mode asks for
NotBlank == {a \in 0 .. req.length - 1 : mem[req.base + a] # Blank}
Asked ==
  {a \in 0 .. req.length - 1 :
     CASE req.mode = "FULL"      -> TRUE
       [] req.mode = "SKIP"      -> a \in NotBlank
       [] req.mode = "TRIMEND"   -> \E b \in NotBlank : a <= b
       [] req.mode = "TRIMSTART" -> \E b \in NotBlank : b <= a
       [] req.mode = "TRIMBOTH"  -> \E b, c \in NotBlank : b <= a /\ a <= c}

InRange(placed) == placed[1] < req.length

\* Of the range the image holds what the output mode says, every byte once and in order:
\* nothing is lost between blocks, sections and trimming (Options.cpp:18)
AsAsked ==
  phase = "read" /\ Sound =>
    SelectSeq(Placed(image), InRange) =
    LET asked == SetToSortSeq(Asked, <)
    IN  [i \in DOMAIN asked |-> <<asked[i], mem[req.base + asked[i]]>>]

\* The read of a range ends, but in SKIP mode
ReadEnds == stage = "dump" /\ req.mode # "SKIP" ~> phase \in {"read", "failed"}

\* What was saved is read again byte by byte, wherever its sections begin and whatever
\* borders of 64 K its records cross: a dump can be written back (IntelHex.cpp:9-224)
RoundTrip ==
  stage = "loaded" /\ phase = "read" /\ Complete(file) =>
    back.verdict = "taken" /\ Placed(back.image) = Placed(image)

\* A file that ends early, between records or within one, is refused: nothing is erased for
\* half an image (IntelHex.cpp:135)
TornIsRefused ==
  stage = "loaded" => (back.verdict = "taken" <=> Complete(file) /\ \A i \in DOMAIN Body(file) :
                         file[i].type \notin {"CUT", "OTHER"} /\ file[i].good)

\* The image of any file taken is what its records say, in whatever sizes and order they
\* come: the sections lose and move nothing (IntelHex.cpp:88-116)
ReaderFaithful ==
  stage = "loaded" /\ back.verdict = "taken" => Placed(back.image) = Said(file)

\* A section read from a file outgrows SectionMaxSize by less than a record: the 16 bits of
\* a block's size hold it (IntelHex.cpp:96-105)
BlocksFit ==
  \A k \in DOMAIN back.image.sections :
    back.image.sections[k].size < SectionSize + RecordMax
=============================================================================

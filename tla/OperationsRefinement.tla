-------------------------- MODULE OperationsRefinement --------------------------
(***************************************************************************)
(* Operations implements Update, and erases every page before it writes    *)
(* it: proved for every image, every memory and every chain of operations. *)
(* An operation that runs has made the calls of its plan up to a place in  *)
(* it; what the steps behind that place have made of the target, and what  *)
(* the steps ahead of it may still do, is the invariant.                   *)
(***************************************************************************)
EXTENDS OperationsPlan

\* T is what is left at a place of the plan of w
Stands(w, T, j, i) ==
  /\ Left(T, WriteCalls(w), j, i)
  /\ Fits(w) => Progress(w, j, i)

\* -W runs: it is at some place of its plan
Underway == \E j \in Nat, i \in Nat : Stands(ctl.now, ctl.todo, j, i)

\* What a programmer does without its controller stores nothing beside the operation's cells:
\* what is left of a block goes where the block was to go, a byte to its address
Harmless(w, T, selected, at) ==
  \/ Free(T, Fillers)
  \/ Footprint(w) = Cells
  \/ /\ Len(T) = 1 /\ selected # "FLPER"
     /\ \/ \A i \in 1 .. Len(T[1].steps) :
             /\ T[1].steps[i].do = "put"
             /\ at + i - 1 \in Cells => at + i - 1 \in Footprint(w)
        \/ /\ Len(T[1].steps) = 1 /\ T[1].steps[1].do = "putat"
           /\ T[1].steps[1].at \in Cells => T[1].steps[1].at \in Footprint(w)

RInv ==
  /\ ctl.k \in {0, Len(ctl.job) + 1} => ctl.now.tag = "none"
  /\ ctl.now.tag = "W" => (ctl.now.asked => ctl.now.baud # 0)
  /\ ~Running /\ Busy => ctl.result # "SUCCESS"
  /\ Confined(ctl.now, ctl.todo, nvm)
  /\ Running /\ ctl.now.tag # "W" => Free(ctl.todo, Fillers)
  /\ ~Running => Harmless(ctl.now, ctl.todo, nvm, ptr)
  /\ Running /\ ctl.now.tag = "E" /\ Busy => ctl.todo = << ChipErase >>
  /\ Running /\ ctl.now.tag = "W" => Underway

-------------------------------------------------------------------------------
(* Where an operation is *)

LEMMA CtlFacts ==
  ASSUME IInv
  PROVE  /\ ctl \in CtlRecords /\ mem \in [Cells -> Values] /\ nvm \in NvmCommands /\ ptr \in Nat
         /\ ctl.todo \in Seq(CallRecords) /\ ctl.now \in Plans /\ Len(ctl.todo) \in Nat
         /\ ctl.now.tag = "W" => ctl.now \in WritePlans
         /\ Busy => /\ Step \in Steps /\ Step = ctl.todo[1].steps[1] /\ Call = ctl.todo[1]
                    /\ ctl.todo # << >>
<1>1. /\ ctl \in CtlRecords /\ mem \in [Cells -> Values] /\ nvm \in NvmCommands /\ ptr \in Nat
  BY DEF IInv, TypeOK
<1>2. ctl.todo \in Seq(CallRecords) /\ ctl.now \in Plans /\ Len(ctl.todo) \in Nat
  BY <1>1, JobFacts
<1>3. ctl.now.tag = "W" => ctl.now \in WritePlans  BY <1>2 DEF Plans, ImagePlans
<1>4. ASSUME Busy
      PROVE  /\ Step \in Steps /\ Step = ctl.todo[1].steps[1] /\ Call = ctl.todo[1]
             /\ ctl.todo # << >>
  <2>1. ctl.todo # << >> /\ Step = ctl.todo[1].steps[1] /\ Call = ctl.todo[1]
    BY <1>4 DEF Busy, Step, Call
  <2>. QED  BY <1>2, <2>1, AdvanceFacts
<1>. QED  BY <1>1, <1>2, <1>3, <1>4

\* Between two calls or within one, -W is at a place of its plan
LEMMA Standing ==
  ASSUME IInv, RInv, Running, ctl.now.tag = "W"
  PROVE  \E j, i : /\ Stands(ctl.now, ctl.todo, j, i)
                   /\ j \in 1 .. Len(WriteCalls(ctl.now)) + 1
                   /\ Busy => Nears(ctl.now, WriteCalls(ctl.now), j, i, Step)
                   /\ ~Busy => j = Len(WriteCalls(ctl.now)) + 1
<1> DEFINE w == ctl.now
           P == WriteCalls(w)
           T == ctl.todo
<1>1. w \in WritePlans /\ T \in Seq(CallRecords)  BY CtlFacts
<1>2. P \in Seq(CallRecords)  BY <1>1, PlanFacts
<1>3. PICK j \in Nat, i \in Nat : Stands(w, T, j, i)  BY DEF RInv, Underway
<1>4. Left(T, P, j, i)  BY <1>3 DEF Stands
<1>5. Busy <=> T # << >>  BY DEF Busy
<1>6. Busy => Step = T[1].steps[1]  BY DEF Step, Call
<1> HIDE DEF P, T
<1>7. /\ j \in 1 .. Len(P) + 1 /\ i \in Nat
      /\ T = << >> <=> j = Len(P) + 1
      /\ T # << >> => j \in 1 .. Len(P) /\ i + 1 \in 1 .. Len(P[j].steps)
                      /\ T[1].steps[1] = P[j].steps[i + 1]
  BY <1>1, <1>2, <1>4, LeftFacts
<1>8. P = WriteCalls(w)  BY DEF P
<1> HIDE DEF w
<1>9. Busy => Nears(w, P, j, i, Step)  BY <1>1, <1>5, <1>6, <1>7, <1>8 DEF Nears
<1>10. Stands(w, T, j, i) /\ j \in 1 .. Len(P) + 1 /\ (~Busy => j = Len(P) + 1)
  BY <1>3, <1>5, <1>7
<1>11. \E j_1, i_1 : /\ Stands(w, T, j_1, i_1) /\ j_1 \in 1 .. Len(P) + 1
                     /\ Busy => Nears(w, P, j_1, i_1, Step)
                     /\ ~Busy => j_1 = Len(P) + 1
  BY <1>9, <1>10
<1>. QED  BY <1>11 DEF w, T, P

\* A command that is selected is taken, and flash is written at a slow rate
LEMMA EffectIs ==
  ASSUME IInv, Effect
  PROVE  /\ Busy /\ Did(Step) /\ Step \in Steps
         /\ Step.do = "select" => nvm' = Step.cmd
         /\ Step.do = "put" /\ nvm = "FLWR" /\ ~ctl.now.asked => Slow(rate)
<1>1. Busy /\ Did(Step)  BY EffectDid
<1>2. Step \in Steps  BY <1>1, CtlFacts
<1>3. Step.do = "select" => nvm' = Step.cmd
  <2>1. Step.do = "select" => nvm' = Selected(Step.cmd)  BY <1>1 DEF Did
  <2>2. Step.do = "select" => ~DoubleSelect(Step.cmd)
    BY <1>1, SelectsClear DEF NoDoubleSelect, Doing
  <2>. QED  BY <2>1, <2>2 DEF Selected
<1>4. Step.do = "put" /\ nvm = "FLWR" /\ ~ctl.now.asked => Slow(rate)
  BY <1>1, StoresArePaced DEF PacedWrites, Doing
<1>. QED  BY <1>1, <1>2, <1>3, <1>4

-------------------------------------------------------------------------------
(* What an operation may change and what it promises *)

\* The byte of the image that is written to the cell
IsFrom(w, c, p) == Where(w, p) = c /\ Written(w)[c] = w.image[p[1]].data[p[2]]
HasByte(w, c) == \E p \in Places(w) : IsFrom(w, c, p)

LEMMA WrittenFacts ==
  ASSUME NEW w
  PROVE  /\ DOMAIN Written(w) = Cells \cap {Where(w, p) : p \in Places(w)}
         /\ \A c \in DOMAIN Written(w) : HasByte(w, c)
<1> DEFINE D == Cells \cap {Where(w, p) : p \in Places(w)}
           Place(c) == CHOOSE p \in Places(w) : Where(w, p) = c
<1>1. Written(w) = [c \in D |-> w.image[Place(c)[1]].data[Place(c)[2]]]  BY DEF Written
<1>2. ASSUME NEW c \in D  PROVE Place(c) \in Places(w) /\ Where(w, Place(c)) = c
  <2>1. \E p \in Places(w) : Where(w, p) = c  BY DEF D
  <2>. QED  BY <2>1
<1> HIDE DEF Place
<1>3. DOMAIN Written(w) = D  BY <1>1
<1>4. ASSUME NEW c \in D  PROVE HasByte(w, c)
  BY <1>1, <1>2 DEF HasByte, IsFrom
<1>. QED  BY <1>3, <1>4

LEMMA FootprintFacts ==
  ASSUME NEW w \in WritePlans
  PROVE  /\ Footprint(w) \subseteq Cells /\ DOMAIN Written(w) \subseteq Footprint(w)
         /\ ~Fits(w) => Footprint(w) = Cells
         /\ \A p \in Places(w) : Where(w, p) \in Cells => Where(w, p) \in Footprint(w)
<1>1. w.tag = "W" /\ w.tag # "E"  BY DEF WritePlans
<1>2. DOMAIN Written(w) = Cells \cap {Where(w, p) : p \in Places(w)}  BY WrittenFacts
<1>3. ~Fits(w) => Footprint(w) = Cells  BY <1>1 DEF Footprint
<1>4. Fits(w) => DOMAIN Written(w) \subseteq Footprint(w)  BY <1>1 DEF Footprint
<1>5. Flash \cup Eeprom \subseteq Cells /\ Ram \subseteq Cells  BY DEF Cells
<1>6. Pages(w) \subseteq Cells
  <2>1. \A c : PageOf(c) \subseteq Flash  BY DEF PageOf
  <2>. QED  BY <1>5, <2>1 DEF Pages
<1>7. Fits(w) => Footprint(w) \subseteq DOMAIN Written(w) \cup (Flash \cup Eeprom) \cup Pages(w)
  <2>1. (CASE w.type = "flash" /\ w.erase = "chip" -> Flash \cup Eeprom
           [] w.type = "flash" /\ w.erase = "page" -> Pages(w)
           [] OTHER -> {}) \subseteq (Flash \cup Eeprom) \cup Pages(w)
    OBVIOUS
  <2>. QED  BY <1>1, <2>1 DEF Footprint
<1>8. Footprint(w) \subseteq Cells  BY <1>2, <1>3, <1>5, <1>6, <1>7
<1>9. DOMAIN Written(w) \subseteq Footprint(w)  BY <1>2, <1>3, <1>4
<1>10. \A p \in Places(w) : Where(w, p) \in Cells => Where(w, p) \in Footprint(w)
  BY <1>2, <1>9
<1>. QED  BY <1>3, <1>8, <1>9, <1>10

\* What is promised is among what may be changed
LEMMA PromiseFacts ==
  ASSUME ctl.now \in Plans
  PROVE  /\ Footprint(ctl.now) \subseteq Cells /\ DOMAIN Promise \subseteq Footprint(ctl.now)
         /\ ctl.now.tag = "W" =>
              /\ DOMAIN Promise = {c \in DOMAIN Written(ctl.now) : Kept(ctl.now, c)}
              /\ \A c \in DOMAIN Promise : Promise[c] = Written(ctl.now)[c]
         /\ ctl.now.tag = "E" => Promise = [c \in Flash |-> Blank]
         /\ ctl.now.tag \notin {"W", "E"} => Promise = << >> /\ Footprint(ctl.now) = {}
<1> DEFINE w == ctl.now
           kept == {c \in DOMAIN Written(w) : Kept(w, c)}
<1>1. w.tag \in {"W", "V", "R", "E", "none"} /\ (w.tag = "W" => w \in WritePlans)
  BY DEF Plans, ImagePlans, WritePlans
<1>2. CASE w.tag = "W"
  <2>1. Promise = [c \in kept |-> Written(w)[c]]  BY <1>2 DEF Promise
  <2> HIDE DEF kept
  <2>2. DOMAIN Promise = kept /\ \A c \in kept : Promise[c] = Written(w)[c]  BY <2>1
  <2>3. Footprint(w) \subseteq Cells /\ DOMAIN Written(w) \subseteq Footprint(w)
    BY <1>1, <1>2, FootprintFacts
  <2>4. kept \subseteq DOMAIN Written(w)  BY DEF kept
  <2>. QED  BY <1>2, <2>2, <2>3, <2>4 DEF kept
<1>3. CASE w.tag = "E"
  <2>1. Promise = [c \in Flash |-> Blank] /\ Footprint(w) = Flash \cup Eeprom
    BY <1>3 DEF Promise, Footprint
  <2>2. DOMAIN Promise = Flash  BY <2>1
  <2>. QED  BY <1>3, <2>1, <2>2 DEF Cells
<1>4. CASE w.tag \notin {"W", "E"}
  <2>1. Promise = << >> /\ Footprint(w) = {}  BY <1>4 DEF Promise, Footprint
  <2>2. DOMAIN << >> = {}  OBVIOUS
  <2>. QED  BY <1>4, <2>1, <2>2
<1>. QED  BY <1>2, <1>3, <1>4

-------------------------------------------------------------------------------
(* Nothing else is changed *)

LEMMA StoringSafe ==
  ASSUME IInv, RInv, Effect, Running, ctl.now.tag = "W", Step.do \in {"put", "putat"},
         NEW c \in Cells \ Footprint(ctl.now)
  PROVE  mem'[c] = mem[c]
<1>1. PICK w : w = ctl.now  OBVIOUS
<1>2. PICK P : P = WriteCalls(w)  OBVIOUS
<1>3. Busy /\ Did(Step)  BY EffectIs
<1>4. PICK j, i : Stands(w, ctl.todo, j, i) /\ Nears(w, P, j, i, Step)
  BY <1>1, <1>2, <1>3, Standing
<1>5. w \in WritePlans  BY <1>1, CtlFacts
<1>6. Fits(w)  BY <1>1, <1>5, FootprintFacts
<1>7. Progress(w, j, i)  BY <1>4, <1>6 DEF Stands
<1>8. PlaceWaits(w, j) /\ PlaceNvm(w, j, i) /\ PlacePtr(w, j, i)  BY <1>7 DEF Progress
<1>9. PICK k \in 1 .. Len(w.image) : AtData(w, P[j], j, i, Step, k)  BY <1>4, Sites
<1> DEFINE p == IF w.type # "eeprom" THEN <<k, i + 1>> ELSE <<k, 1>>
<1>10. c # Where(w, p) => mem'[c] = mem[c]
  <2>1. mem \in [Cells -> Values]  BY CtlFacts
  <2>. QED  BY <2>1, <1>3, <1>4, <1>6, <1>8, <1>9, DataTouches
<1>11. p \in Places(w)
  <2>1. <<k, i + 1>> \in Places(w)  BY <1>4, <1>9, DataPlace
  <2>2. Size(w.image[k]) \in Nat \ {0}  BY <1>5, SectionFacts DEF ImagePlans
  <2>3. 1 \in 1 .. Size(w.image[k])  BY <2>2
  <2>4. <<k, 1>> \in Places(w)  BY <1>5, <2>3, IsPlace
  <2>. QED  BY <2>1, <2>4
<1> HIDE DEF p
<1>12. c # Where(w, p)  BY <1>1, <1>5, <1>11, FootprintFacts
<1>. QED  BY <1>10, <1>12

\* Without the controller
LEMMA HarmlessSafe ==
  ASSUME IInv, Effect, Harmless(ctl.now, ctl.todo, nvm, ptr), Step.do \in {"put", "putat"},
         NEW c \in Cells \ Footprint(ctl.now)
  PROVE  mem'[c] = mem[c]
<1>1. PICK w : w = ctl.now  OBVIOUS
<1>2. PICK T : T = ctl.todo  OBVIOUS
<1>3. Busy /\ Did(Step) /\ Step \in Steps  BY EffectIs
<1>4. /\ T \in Seq(CallRecords) /\ T # << >> /\ Step = T[1].steps[1]
      /\ mem \in [Cells -> Values] /\ ptr \in Nat
  BY <1>2, <1>3, CtlFacts
<1>5. ~Free(T, Fillers)
  <2>1. Step \in Fillers  BY <1>3 DEF Steps, Fillers
  <2>. QED  BY <1>4, <2>1, FreeMoves
<1>6. Footprint(w) # Cells  BY <1>1
<1>7. /\ nvm # "FLPER"
      /\ \/ Step.do = "put" /\ (ptr \in Cells => ptr \in Footprint(w))
         \/ Step.do = "putat" /\ (Step.at \in Cells => Step.at \in Footprint(w))
  <2>1. /\ nvm # "FLPER"
        /\ \/ \A i \in 1 .. Len(T[1].steps) :
                /\ T[1].steps[i].do = "put"
                /\ ptr + i - 1 \in Cells => ptr + i - 1 \in Footprint(w)
           \/ /\ T[1].steps[1].do = "putat"
              /\ T[1].steps[1].at \in Cells => T[1].steps[1].at \in Footprint(w)
    BY <1>1, <1>2, <1>5, <1>6 DEF Harmless
  <2>2. Len(T[1].steps) \in Nat \ {0}  BY <1>4, AdvanceFacts
  <2>3. 1 \in 1 .. Len(T[1].steps) /\ ptr + 1 - 1 = ptr  BY <1>4, <2>2
  <2>. QED  BY <1>4, <2>1, <2>3
<1>8. CASE Step.do = "put"
  <2>1. mem' \in Stored(ptr, Step.byte, ~Slow(rate))  BY <1>3, <1>8 DEF Did
  <2>2. Step.byte \in Values  BY <1>3, <1>8 DEF Steps
  <2>3. StoreMakes(mem', ptr, Step.byte, ~Slow(rate))  BY <1>4, <2>1, <2>2, StoredAt
  <2>4. c # ptr  BY <1>1, <1>7, <1>8
  <2>. QED  BY <1>7, <2>3, <2>4 DEF StoreMakes
<1>9. CASE Step.do = "putat"
  <2>1. mem' \in Stored(Step.at, Step.byte, ~waits)  BY <1>3, <1>9 DEF Did
  <2>2. Step.byte \in Values  BY <1>3, <1>9 DEF Steps
  <2>3. StoreMakes(mem', Step.at, Step.byte, ~waits)  BY <1>4, <2>1, <2>2, StoredAt
  <2>4. c # Step.at  BY <1>1, <1>7, <1>9
  <2>. QED  BY <1>7, <2>3, <2>4 DEF StoreMakes
<1>. QED  BY <1>8, <1>9

\* Whoever takes the step, the controller or the programmer alone
LEMMA StepSafe ==
  ASSUME IInv, RInv, Effect, NEW c \in Cells \ Footprint(ctl.now)
  PROVE  mem'[c] = mem[c]
<1>1. PICK w : w = ctl.now  OBVIOUS
<1>2. PICK T : T = ctl.todo  OBVIOUS
<1>3. Busy /\ Did(Step) /\ Step \in Steps  BY EffectIs
<1>4. T \in Seq(CallRecords) /\ T # << >> /\ Step = T[1].steps[1] /\ mem \in [Cells -> Values]
  BY <1>2, <1>3, CtlFacts
<1>5. Confined(w, T, nvm)  BY <1>1, <1>2 DEF RInv
<1>6. Lawful(w, Step)  BY <1>4, <1>5, LawfulMoves DEF Confined
<1>7. Step.do = "page" => nvm # "EEERWR"
  <2>1. Step.do = "page" => Step \in Erasers  BY <1>3 DEF Steps, Erasers
  <2>2. Free(T, Erasers) => Step \notin Erasers  BY <1>4, FreeMoves
  <2>. QED  BY <1>5, <2>1, <2>2 DEF Confined, Guarded
<1>8. CASE Step.do \notin {"put", "putat"}
  BY <1>1, <1>3, <1>4, <1>6, <1>7, <1>8, EffectSafe
<1>9. CASE Step.do \in {"put", "putat"}
  <2>1. Step \in Fillers  BY <1>3, <1>9 DEF Steps, Fillers
  <2>2. Free(T, Fillers) => Step \notin Fillers  BY <1>4, FreeMoves
  <2>3. CASE Running
    <3>1. ctl.now.tag = "W"  BY <1>2, <2>1, <2>2, <2>3 DEF RInv
    <3>. QED  BY <1>9, <2>3, <3>1, StoringSafe
  <2>4. CASE ~Running
    <3>1. Harmless(ctl.now, ctl.todo, nvm, ptr)  BY <2>4 DEF RInv
    <3>. QED  BY <1>9, <3>1, HarmlessSafe
  <2>. QED  BY <2>3, <2>4
<1>. QED  BY <1>8, <1>9

-------------------------------------------------------------------------------
(* The session loop keeps the invariant *)

PlainActs == {"waits", "baud", "reset", "point", "get"}

\* No operation is begun
LEMMA LoopKeeps ==
  ASSUME ctl'.todo \in Seq(CallRecords), Only(ctl'.todo, PlainActs),
         ctl'.k \in {0, Len(ctl'.job) + 1} => ctl'.now.tag = "none",
         ctl'.now.tag = "W" => (ctl'.now.asked => ctl'.now.baud # 0),
         ctl'.todo = << >> \/ ctl'.result = "running",
         ctl'.result # "running" \/ ctl'.now.tag = "none"
  PROVE  RInv'
<1>1. Confined(ctl'.now, ctl'.todo, nvm') /\ Free(ctl'.todo, Fillers)
  BY PlainTodo DEF PlainActs
<1>2. (Running' <=> ctl'.result = "running") /\ (Busy' <=> ctl'.todo # << >>)
  BY DEF Running, Busy
<1>3. Harmless(ctl'.now, ctl'.todo, nvm', ptr')  BY <1>1 DEF Harmless
<1>. QED  BY <1>1, <1>2, <1>3 DEF RInv

LEMMA LaunchKeeps == IInv /\ Launch => RInv'
<1> SUFFICES ASSUME IInv, Launch  PROVE RInv'
  OBVIOUS
<1> DEFINE T == << StartCall, SetBaud(NormalBaudrate) >>
<1>1. PICK multi \in BOOLEAN :
        ctl' = [job |-> ctl.job, k |-> 0, todo |-> T, now |-> NoOperation, round |-> 1,
                multi |-> multi, result |-> "running", stripped |-> {}, excused |-> {}]
  BY DEF Launch
<1>2. T \in Seq(CallRecords) /\ Only(T, {"waits", "baud", "reset"})  BY StartFacts
<1> HIDE DEF T
<1>3. Only(T, PlainActs)  BY <1>2, OnlyMore DEF PlainActs
<1>4. ctl'.todo = T /\ ctl'.now.tag = "none" /\ ctl'.result = "running"
  BY <1>1 DEF NoOperation
<1>. QED  BY <1>2, <1>3, <1>4, LoopKeeps

LEMMA RefuseKeeps == IInv /\ RInv /\ Refuse => RInv'
<1> SUFFICES ASSUME IInv, RInv, Refuse  PROVE RInv'
  OBVIOUS
<1>1. PICK why \in Refusals \cup {"FILE_IO_ERROR", "FILE_FORMAT_ERROR"} :
        ctl' = [ctl EXCEPT !.k = @ + 1, !.result = why]
  BY DEF Refuse
<1>2. ctl.todo = << >> /\ ctl.k < Len(ctl.job)  BY DEF Refuse, Ready
<1>3. ctl \in CtlRecords /\ ctl.k \in Nat /\ Len(ctl.job) \in Nat  BY CtlFacts, JobFacts
<1>4. why # "running"  BY DEF Refusals
<1>5. ctl'.todo = << >> /\ ctl'.now = ctl.now /\ ctl'.k = ctl.k + 1 /\ ctl'.job = ctl.job
      /\ ctl'.result # "running"
  BY <1>1, <1>2, <1>3, <1>4 DEF CtlRecords
<1>6. ctl'.k \notin {0, Len(ctl'.job) + 1}  BY <1>2, <1>3, <1>5
<1>7. ctl'.todo \in Seq(CallRecords) /\ Only(ctl'.todo, PlainActs)  BY <1>5, Nothing
<1>8. ctl'.now.tag = "W" => (ctl'.now.asked => ctl'.now.baud # 0)  BY <1>5 DEF RInv
<1>. QED  BY <1>5, <1>6, <1>7, <1>8, LoopKeeps

LEMMA OutputKeeps == IInv /\ RInv /\ OutputFails => RInv'
<1> SUFFICES ASSUME IInv, RInv, OutputFails  PROVE RInv'
  OBVIOUS
<1>1. PICK why \in {"FILE_IO_ERROR", "FILE_FORMAT_ERROR"} : ctl' = [ctl EXCEPT !.result = why]
  BY DEF OutputFails
<1>2. ctl.todo = << >>  BY DEF OutputFails, Ready
<1>3. ctl \in CtlRecords  BY CtlFacts
<1>4. ctl'.todo = << >> /\ ctl'.now = ctl.now /\ ctl'.k = ctl.k /\ ctl'.job = ctl.job
      /\ ctl'.result # "running"
  BY <1>1, <1>2, <1>3 DEF CtlRecords
<1>5. ctl'.k \in {0, Len(ctl'.job) + 1} => ctl'.now.tag = "none"  BY <1>4 DEF RInv
<1>6. ctl'.todo \in Seq(CallRecords) /\ Only(ctl'.todo, PlainActs)  BY <1>4, Nothing
<1>7. ctl'.now.tag = "W" => (ctl'.now.asked => ctl'.now.baud # 0)  BY <1>4 DEF RInv
<1>. QED  BY <1>4, <1>5, <1>6, <1>7, LoopKeeps

LEMMA EndChainKeeps == IInv /\ EndChain => RInv'
<1> SUFFICES ASSUME IInv, EndChain  PROVE RInv'
  OBVIOUS
<1> DEFINE T == << StopCall >>
<1>1. /\ ctl' = [ctl EXCEPT !.k = @ + 1, !.now = NoOperation, !.todo = T]
      /\ ctl.result = "running"
  BY DEF EndChain, Ready, Running
<1>2. ctl \in CtlRecords  BY CtlFacts
<1>3. T \in Seq(CallRecords) /\ Only(T, {"reset"})  BY StopFacts
<1> HIDE DEF T
<1>4. Only(T, PlainActs)  BY <1>3, OnlyMore DEF PlainActs
<1>5. ctl'.todo = T /\ ctl'.now = NoOperation /\ ctl'.result = "running"
  BY <1>1, <1>2 DEF CtlRecords
<1>6. ctl'.now.tag = "none"  BY <1>5 DEF NoOperation
<1>. QED  BY <1>3, <1>4, <1>5, <1>6, LoopKeeps

LEMMA EndSessionKeeps == IInv /\ RInv /\ EndSession => RInv'
<1> SUFFICES ASSUME IInv, RInv, EndSession  PROVE RInv'
  OBVIOUS
<1> DEFINE T == << StartCall, SetBaud(NormalBaudrate) >>
<1>1. ctl.todo = << >> /\ ctl.k > Len(ctl.job) /\ ctl.result = "running"
  BY DEF EndSession, Ready, Running
<1>2. ctl \in CtlRecords /\ ctl.k \in Nat /\ Len(ctl.job) \in Nat /\ ctl.k \in 0 .. Len(ctl.job) + 1
  BY CtlFacts, JobFacts DEF IInv, TypeOK
<1>3. ctl.k = Len(ctl.job) + 1  BY <1>1, <1>2
<1>4. ctl.now.tag = "none"  BY <1>3 DEF RInv
<1>5. CASE ctl' = [ctl EXCEPT !.result = "SUCCESS"]
  <2>1. ctl'.todo = << >> /\ ctl'.now = ctl.now  BY <1>1, <1>2, <1>5 DEF CtlRecords
  <2>2. ctl'.todo \in Seq(CallRecords) /\ Only(ctl'.todo, PlainActs)  BY <2>1, Nothing
  <2>. QED  BY <1>4, <2>1, <2>2, LoopKeeps
<1>6. CASE ctl' = [ctl EXCEPT !.k = 0, !.round = 2, !.todo = T]
  <2>1. ctl'.todo = T /\ ctl'.now = ctl.now /\ ctl'.result = "running"
    BY <1>1, <1>2, <1>6 DEF CtlRecords
  <2>2. T \in Seq(CallRecords) /\ Only(T, {"waits", "baud", "reset"})  BY StartFacts
  <2> HIDE DEF T
  <2>3. Only(T, PlainActs)  BY <2>2, OnlyMore DEF PlainActs
  <2>. QED  BY <1>4, <2>1, <2>2, <2>3, LoopKeeps
<1>. QED  BY <1>5, <1>6 DEF EndSession

\* Before its first step -W has made nothing of the target
LEMMA ProgressStarts ==
  ASSUME NEW w \in WritePlans, nvm' = "NONE", rate' = ActualRate(NormalBaudrate)
  PROVE  Progress(w, 1, 0)'
<1>1. /\ Erases(w) \in Nat /\ Before(w) \in Nat /\ Filled(w) \in Nat
      /\ Erases(w) <= Before(w) /\ Before(w) <= Filled(w)
      /\ w.type # "ram" => Erases(w) + 1 <= Before(w)
      /\ \A k \in 1 .. Len(w.image) :
           /\ Filling(w, k) \in Nat /\ Before(w) + 1 <= Filling(w, k)
           /\ w.type # "eeprom" => Before(w) + 2 <= Filling(w, k)
  BY Order
<1>2. PlaceRate(w, 1)'  BY <1>1 DEF PlaceRate
<1>3. PlaceWaits(w, 1)'  BY <1>1 DEF PlaceWaits
<1>4. PlaceNvm(w, 1, 0)'  BY <1>1 DEF PlaceNvm, Behind
<1>5. PlacePtr(w, 1, 0)'  BY <1>1 DEF PlacePtr
<1>6. \A c : ~Wiped(w, c, 1, 0)
  <2>1. \A m \in 1 .. Erases(w) : \A s \in 1 .. Len(Erasing(w)[m].steps) : ~Behind(m, s, 1, 0)
    BY <1>1 DEF Behind
  <2>. QED  BY <2>1 DEF Wiped
<1>7. PlaceBlank(w, 1, 0)'  BY <1>6 DEF PlaceBlank
<1>8. \A p \in Places(w) : ~Reached(w, p, 1, 0)
  <2> SUFFICES ASSUME NEW p \in Places(w)  PROVE ~Reached(w, p, 1, 0)
    OBVIOUS
  <2>1. p[1] \in 1 .. Len(w.image) /\ p[2] \in Nat \ {0}  BY PlaceFacts
  <2>2. Filling(w, p[1]) \in Nat /\ Before(w) + 1 <= Filling(w, p[1])  BY <1>1, <2>1
  <2>. QED  BY <1>1, <2>1, <2>2 DEF Reached, Behind
<1>9. PlaceWritten(w, 1, 0)'  BY <1>8 DEF PlaceWritten
<1>. QED  BY <1>2, <1>3, <1>4, <1>5, <1>7, <1>9 DEF Progress

LEMMA ChipTodo ==
  ASSUME NEW w, w.tag = "E", NEW n
  PROVE  Confined(w, << ChipErase >>, n) /\ Free(<< ChipErase >>, Fillers)
<1> DEFINE c == ChipErase
           T == << c >>
<1>1. c.cmd = CMD_CHIPERASE /\ Len(c.steps) = 1 /\ c.steps[1].do = "chip"
  BY ChipEraseSteps
<1>2. T \in Seq(CallRecords) /\ Only(T, {"chip"})  BY ChipEraseFacts
<1> HIDE DEF c
<1>3. Len(T) = 1 /\ T[1] = c  OBVIOUS
<1> HIDE DEF T
<1>4. \A k \in 1 .. Len(T) : T[k] = c  BY <1>3
<1>5. CMD_CHIPERASE # CMD_FLASH_PAGE_ERASE  BY CodesDiffer DEF OtherCommands
<1>6. Footprint(w) = Flash \cup Eeprom  BY DEF Footprint
<1>7. \A i \in 1 .. Len(c.steps) : Lawful(w, c.steps[i])
  <2>1. \A i \in 1 .. Len(c.steps) : i = 1  BY <1>1
  <2>. QED  BY <1>1, <1>6, <2>1 DEF Lawful
<1>8. AllLawful(w, T)  BY <1>4, <1>7 DEF AllLawful
<1>9. Free(T, Erasers) /\ Free(T, Fillers)
  <2>1. \A s \in Erasers \cup Fillers : s.do \notin {"chip"}  BY DEF Erasers, Fillers
  <2>. QED  BY <1>2, <2>1, OnlyFree
<1>. QED  BY <1>1, <1>4, <1>5, <1>8, <1>9 DEF Confined, Guarded, T, c

LEMMA BeginKeeps == IInv /\ RInv /\ BeginOperation => RInv'
<1> SUFFICES ASSUME IInv, RInv, BeginOperation  PROVE RInv'
  OBVIOUS
<1>1. PICK w, T : w = Planned /\ T = Calls(Planned)  OBVIOUS
<1>2. /\ ctl' = [ctl EXCEPT !.k = @ + 1, !.now = w, !.todo = T,
                           !.stripped = @ \cup Strips, !.excused = {}]
      /\ UNCHANGED <<tgtVars, rate, waits, faults>> /\ Ready
      /\ ctl.k < Len(ctl.job) /\ Refusals = {}
  BY <1>1 DEF BeginOperation
<1>3. ctl \in CtlRecords /\ ctl.job \in Jobs /\ ctl.k \in Nat /\ Len(ctl.job) \in Nat
  BY CtlFacts, JobFacts
<1>4. nvm = "NONE" /\ waits = FALSE /\ rate = ActualRate(NormalBaudrate)
  BY <1>2, ReadyIsTidy
<1>5. nvm' = "NONE" /\ rate' = ActualRate(NormalBaudrate)  BY <1>2, <1>4 DEF tgtVars
<1>6. /\ Sound(T) /\ w.tag = Op.tag /\ Op.tag \in {"W", "V", "R", "E"}
      /\ Op.tag = "W" => w \in WritePlans /\ T = WriteCalls(w) /\ (w.asked => w.baud # 0)
      /\ Op.tag = "E" => T = << ChipErase >>
      /\ Op.tag \in {"V", "R"} => Only(T, {"point", "get"})
  BY <1>1, <1>2, <1>3, PlannedFacts
<1>7. T \in Seq(CallRecords)  BY <1>6 DEF Sound
<1>8. ctl'.todo = T /\ ctl'.now = w /\ ctl'.k = ctl.k + 1 /\ ctl'.job = ctl.job
      /\ ctl'.result = ctl.result
  BY <1>2, <1>3 DEF CtlRecords
<1>9. ctl'.result = "running"  BY <1>2, <1>8 DEF Ready, Running
<1>10. ctl'.k \notin {0, Len(ctl'.job) + 1}  BY <1>2, <1>3, <1>8
<1>11. Running'  BY <1>9 DEF Running
<1>12. CASE w.tag = "W"
  <2>1. w \in WritePlans /\ T = WriteCalls(w) /\ (w.asked => w.baud # 0)  BY <1>6, <1>12
  <2>2. AllLawful(w, T) /\ Guarded(T, "NONE")  BY <2>1, PlanIsLawful, PlanIsGuarded
  <2>3. Confined(w, T, nvm')  BY <1>5, <1>12, <2>2 DEF Confined
  <2>4. Left(T, WriteCalls(w), 1, 0)  BY <1>7, <2>1, LeftStart
  <2>5. Progress(w, 1, 0)'  BY <1>5, <2>1, ProgressStarts
  <2>6. Stands(w, T, 1, 0)'  BY <2>4, <2>5 DEF Stands
  <2>7. Underway'  BY <1>8, <2>6 DEF Underway
  <2>. QED  BY <1>8, <1>10, <1>11, <1>12, <2>1, <2>3, <2>7 DEF RInv
<1>13. CASE w.tag = "E"
  <2>1. T = << ChipErase >>  BY <1>6, <1>13
  <2>2. Confined(w, T, nvm') /\ Free(T, Fillers)  BY <1>13, <2>1, ChipTodo
  <2>. QED  BY <1>8, <1>10, <1>11, <1>13, <2>1, <2>2 DEF RInv
<1>14. CASE w.tag \in {"V", "R"}
  <2>1. Only(T, {"waits", "baud", "reset", "point", "get"})  BY <1>6, <1>14, OnlyMore
  <2>2. Confined(w, T, nvm') /\ Free(T, Fillers)  BY <1>7, <2>1, PlainTodo
  <2>. QED  BY <1>8, <1>10, <1>11, <1>14, <2>2 DEF RInv
<1>. QED  BY <1>6, <1>12, <1>13, <1>14

-------------------------------------------------------------------------------
(* The steps of the calls keep it *)

\* What a step leaves selected, done or not done
LEMMA StillConfined ==
  ASSUME IInv, RInv, Busy, Effect \/ UNCHANGED <<tgtVars, rate, waits>>
  PROVE  /\ Confined(ctl.now, Advance(ctl.todo), nvm') /\ Confined(ctl.now, Tail(ctl.todo), nvm')
         /\ Free(ctl.todo, Fillers) => /\ Free(Advance(ctl.todo), Fillers)
                                       /\ Free(Tail(ctl.todo), Fillers)
<1>1. PICK T : T = ctl.todo  OBVIOUS
<1>2. T \in Seq(CallRecords) /\ T # << >> /\ Step = T[1].steps[1] /\ Step \in Steps
  BY <1>1, CtlFacts
<1>3. Did(Step) \/ UNCHANGED nvm  BY EffectDid DEF tgtVars
<1>4. nvm # "EEERWR" /\ T[1].steps[1] \notin EepromSel => nvm' # "EEERWR"
  BY <1>2, <1>3, NvmKept
<1>5. Confined(ctl.now, T, nvm)  BY <1>1 DEF RInv
<1>6. Confined(ctl.now, Advance(T), nvm') /\ Confined(ctl.now, Tail(T), nvm')
  BY <1>2, <1>4, <1>5, ConfinedMoves
<1>7. Free(T, Fillers) => Free(Advance(T), Fillers) /\ Free(Tail(T), Fillers)
  BY <1>2, FreeMoves
<1>. QED  BY <1>1, <1>6, <1>7

\* A step of the plan is taken
LEMMA ProceedMoves ==
  ASSUME IInv, RInv, Proceed, Running, ctl.now.tag = "W"
  PROVE  Underway'
<1>1. PICK w, P, T : w = ctl.now /\ P = WriteCalls(w) /\ T = ctl.todo  OBVIOUS
<1>2. Effect /\ ctl' = [ctl EXCEPT !.todo = Advanced]  BY DEF Proceed
<1>3. /\ Busy /\ Did(Step)
      /\ Step.do = "select" => nvm' = Step.cmd
      /\ Step.do = "put" /\ nvm = "FLWR" /\ ~w.asked => Slow(rate)
  BY <1>1, <1>2, EffectIs
<1>4. /\ ctl \in CtlRecords /\ mem \in [Cells -> Values] /\ w \in WritePlans
      /\ T \in Seq(CallRecords) /\ T # << >> /\ Call = T[1]
  BY <1>1, <1>3, CtlFacts
<1>5. PICK j, i : Stands(w, T, j, i) /\ Nears(w, P, j, i, Step)
  BY <1>1, <1>3, Standing
<1>6. PICK q, r : q = NextCall(P, j, i) /\ r = NextStep(P, j, i)  OBVIOUS
<1>7. P \in Seq(CallRecords) /\ Len(P) \in Nat  BY <1>1, <1>4, PlanFacts
<1>8. Left(T, P, j, i)  BY <1>1, <1>5 DEF Stands
<1>9. Left(Advance(T), P, q, r)  BY <1>4, <1>6, <1>7, <1>8, LeftAdvance
<1>10. q \in Nat /\ r \in Nat  BY <1>7, <1>9 DEF Left
<1>11. Advanced = Advance(T)  BY <1>1, <1>4 DEF Advanced, Advance
<1>12. ctl'.todo = Advance(T) /\ ctl'.now = w /\ ctl'.excused = ctl.excused
  BY <1>1, <1>2, <1>4, <1>11 DEF CtlRecords
<1>13. w.asked => w.baud # 0  BY <1>1 DEF RInv
<1>14. Fits(w) => Progress(w, q, r)'
  <2> SUFFICES ASSUME Fits(w)  PROVE Progress(w, q, r)'
    OBVIOUS
  <2>1. Moves(P, j, i, q, r)  BY <1>5, <1>6, NextFacts
  <2>2. Progress(w, j, i)  BY <1>5 DEF Stands
  <2>. QED  BY <1>3, <1>4, <1>5, <1>12, <1>13, <2>1, <2>2, ProgressMoves
<1>15. Stands(w, Advance(T), q, r)'  BY <1>1, <1>9, <1>14 DEF Stands
<1>. QED  BY <1>10, <1>12, <1>15 DEF Underway

\* What is left to the programmer alone stays harmless
LEMMA HarmlessMoves ==
  ASSUME NEW w, NEW T \in Seq(CallRecords), T # << >>, Step = T[1].steps[1], Did(Step),
         ptr \in Nat, Harmless(w, T, nvm, ptr)
  PROVE  Harmless(w, Advance(T), nvm', ptr')
<1>1. PICK A : A = Advance(T)  OBVIOUS
<1>2. /\ Len(T) \in Nat /\ Len(T[1].steps) \in Nat \ {0}
      /\ A \in Seq(CallRecords) /\ Len(A) = Len(T) - Done(T)
      /\ \A m \in 1 .. Len(A) :
           IF Done(T) = 0 /\ m = 1
             THEN /\ A[1].cmd = T[1].cmd
                  /\ Len(A[1].steps) = Len(T[1].steps) - 1
                  /\ \A s \in 1 .. Len(T[1].steps) - 1 : A[1].steps[s] = T[1].steps[s + 1]
             ELSE A[m] = T[m + Done(T)]
  BY <1>1, AdvanceFacts
<1>3. ASSUME Len(T) = 1, Len(T[1].steps) = 1  PROVE Harmless(w, A, nvm', ptr')
  <2>1. Done(T) = 1  BY <1>3 DEF Done
  <2>2. A = << >>  BY <1>2, <1>3, <2>1, EmptySeq
  <2>3. Free(A, Fillers)  BY <2>2, NoTodo
  <2>. QED  BY <2>3 DEF Harmless
<1>4. CASE Free(T, Fillers)
  <2>1. Free(A, Fillers)  BY <1>1, <1>4, FreeMoves
  <2>. QED  BY <1>1, <2>1 DEF Harmless
<1>5. CASE Footprint(w) = Cells  BY <1>1, <1>5 DEF Harmless
<1>6. CASE /\ Len(T) = 1 /\ nvm # "FLPER"
           /\ \A i \in 1 .. Len(T[1].steps) :
                /\ T[1].steps[i].do = "put"
                /\ ptr + i - 1 \in Cells => ptr + i - 1 \in Footprint(w)
  <2>1. 1 \in 1 .. Len(T[1].steps)  BY <1>2
  <2>2. Step.do = "put"  BY <1>6, <2>1
  <2>3. nvm' = nvm /\ ptr' = ptr + 1  BY <2>2 DEF Did
  <2>4. CASE Len(T[1].steps) # 1
    <3>1. Done(T) = 0  BY <2>4 DEF Done
    <3>2. Len(A) = 1 /\ 1 \in 1 .. Len(A)  BY <1>2, <1>6, <3>1
    <3>3. /\ Len(A[1].steps) = Len(T[1].steps) - 1
          /\ \A s \in 1 .. Len(T[1].steps) - 1 : A[1].steps[s] = T[1].steps[s + 1]
      BY <1>2, <3>1, <3>2
    <3>4. ASSUME NEW i \in 1 .. Len(A[1].steps)
          PROVE  /\ A[1].steps[i].do = "put"
                 /\ ptr' + i - 1 \in Cells => ptr' + i - 1 \in Footprint(w)
      <4>1. i + 1 \in 1 .. Len(T[1].steps) /\ A[1].steps[i] = T[1].steps[i + 1]
        BY <1>2, <3>3
      <4>2. ptr' + i - 1 = ptr + (i + 1) - 1  BY <2>3
      <4>. QED  BY <1>6, <4>1, <4>2
    <3>. QED  BY <1>1, <1>6, <2>3, <3>2, <3>4 DEF Harmless
  <2>. QED  BY <1>1, <1>3, <1>6, <2>4
<1>7. CASE Len(T) = 1 /\ Len(T[1].steps) = 1  BY <1>1, <1>3, <1>7
<1>. QED  BY <1>4, <1>5, <1>6, <1>7 DEF Harmless

LEMMA ProceedKeeps == IInv /\ RInv /\ Proceed => RInv'
<1> SUFFICES ASSUME IInv, RInv, Proceed  PROVE RInv'
  OBVIOUS
<1>1. PICK T : T = ctl.todo  OBVIOUS
<1>2. Effect /\ ctl' = [ctl EXCEPT !.todo = Advanced]  BY DEF Proceed
<1>3. Busy  BY <1>2, EffectIs
<1>4. ctl \in CtlRecords /\ T \in Seq(CallRecords) /\ T # << >> /\ Call = T[1]
  BY <1>1, <1>3, CtlFacts
<1>5. Advanced = Advance(T)  BY <1>1, <1>4 DEF Advanced, Advance
<1>6. /\ ctl'.todo = Advance(T) /\ ctl'.now = ctl.now /\ ctl'.k = ctl.k
      /\ ctl'.job = ctl.job /\ ctl'.result = ctl.result
  BY <1>1, <1>2, <1>4, <1>5 DEF CtlRecords
<1>7. Running' <=> Running  BY <1>6 DEF Running
<1>8. Confined(ctl.now, Advance(T), nvm')
      /\ (Free(T, Fillers) => Free(Advance(T), Fillers))
  BY <1>1, <1>2, <1>3, StillConfined
<1>9. ctl'.k \in {0, Len(ctl'.job) + 1} => ctl'.now.tag = "none"  BY <1>6 DEF RInv
<1>10. ctl'.now.tag = "W" => (ctl'.now.asked => ctl'.now.baud # 0)  BY <1>6 DEF RInv
<1>11. ~Running' => ctl'.result # "SUCCESS"  BY <1>3, <1>6, <1>7 DEF RInv
<1>12. Confined(ctl'.now, ctl'.todo, nvm')  BY <1>6, <1>8
<1>13. Running' /\ ctl'.now.tag # "W" => Free(ctl'.todo, Fillers)
  BY <1>1, <1>6, <1>7, <1>8 DEF RInv
<1>14. ~Running' => Harmless(ctl'.now, ctl'.todo, nvm', ptr')
  <2> SUFFICES ASSUME ~Running  PROVE Harmless(ctl.now, Advance(T), nvm', ptr')
    BY <1>6, <1>7
  <2>1. Harmless(ctl.now, T, nvm, ptr)  BY <1>1 DEF RInv
  <2>2. Step = T[1].steps[1] /\ Did(Step) /\ ptr \in Nat  BY <1>1, <1>2, <1>3, EffectIs, CtlFacts
  <2>. QED  BY <1>4, <2>1, <2>2, HarmlessMoves
<1>15. Running' /\ ctl'.now.tag = "E" => ~Busy'
  <2> SUFFICES ASSUME Running, ctl.now.tag = "E"  PROVE ~Busy'
    BY <1>6, <1>7
  <2>1. T = << ChipErase >>  BY <1>1, <1>3 DEF RInv
  <2>2. Len(T) = 1 /\ T[1] = ChipErase  BY <2>1
  <2>3. Len(T[1].steps) = 1  BY <2>2, ChipEraseSteps
  <2>4. Advance(T) = Tail(T) /\ Tail(T) \in Seq(CallRecords) /\ Len(Tail(T)) = 0
    BY <1>4, <2>2, <2>3, TailFacts DEF Advance
  <2>5. Advance(T) = << >>  BY <2>4, EmptySeq
  <2>. QED  BY <1>6, <2>5 DEF Busy
<1>16. Running' /\ ctl'.now.tag = "W" => Underway'  BY <1>6, <1>7, ProceedMoves
<1>. QED  BY <1>9, <1>10, <1>11, <1>12, <1>13, <1>14, <1>15, <1>16 DEF RInv

\* A page erase is given up, and its pages are excused
LEMMA FailMoves ==
  ASSUME IInv, RInv, StepFails, Running, Call.cmd = CMD_FLASH_PAGE_ERASE
  PROVE  /\ ctl.now.tag = "W" /\ Underway'
         /\ ctl'.todo = Tail(ctl.todo) /\ ctl'.now = ctl.now /\ ctl'.k = ctl.k
         /\ ctl'.job = ctl.job /\ ctl'.result = ctl.result
         /\ ctl'.excused = ctl.excused \cup Unerased
         /\ ctl'.todo # << >>
<1>1. PICK w, P, T : w = ctl.now /\ P = WriteCalls(w) /\ T = ctl.todo  OBVIOUS
<1>2. /\ Running /\ Busy /\ (Effect \/ UNCHANGED <<tgtVars, rate, waits>>)
      /\ ctl' = [ctl EXCEPT !.todo = Tail(@), !.excused = @ \cup Unerased]
  BY DEF StepFails
<1>3. Did(Step) \/ UNCHANGED <<mem, rate>>  BY <1>2, EffectDid DEF tgtVars
<1>4. /\ ctl \in CtlRecords /\ mem \in [Cells -> Values] /\ T \in Seq(CallRecords)
      /\ T # << >> /\ Call = T[1] /\ (w.tag = "W" => w \in WritePlans)
  BY <1>1, <1>2, CtlFacts
<1>5. w.tag = "W"
  <2>1. Len(T) \in Nat \ {0}  BY <1>4, AdvanceFacts
  <2>2. 1 \in 1 .. Len(T)  BY <2>1
  <2>. QED  BY <1>1, <1>4, <2>2 DEF RInv, Confined
<1>6. w \in WritePlans  BY <1>4, <1>5
<1>7. PICK j, i : Stands(w, T, j, i) /\ Nears(w, P, j, i, Step)
  BY <1>1, <1>2, <1>5, Standing
<1>8. P \in Seq(CallRecords) /\ Len(P) \in Nat  BY <1>1, <1>6, PlanFacts
<1>9. Left(T, P, j, i)  BY <1>1, <1>7 DEF Stands
<1>10. /\ j \in 1 .. Len(P) /\ i \in Nat /\ i + 1 \in 1 .. Len(P[j].steps)
       /\ T[1].cmd = P[j].cmd /\ Len(T[1].steps) = Len(P[j].steps) - i
       /\ \A s \in 1 .. Len(T[1].steps) : T[1].steps[s] = P[j].steps[s + i]
  <2>1. P \in Seq(CallRecords) /\ T \in Seq(CallRecords) /\ T # << >>  BY <1>4, <1>8
  <2>. QED  BY <1>9, <2>1, LeftFacts
<1>11. Left(Tail(T), P, j + 1, 0)  BY <1>4, <1>8, <1>9, LeftDrop
<1>12. /\ ctl'.todo = Tail(T) /\ ctl'.now = w /\ ctl'.excused = ctl.excused \cup Unerased
       /\ ctl'.k = ctl.k /\ ctl'.job = ctl.job /\ ctl'.result = ctl.result
  BY <1>1, <1>2, <1>4 DEF CtlRecords
<1>13. ASSUME NEW s \in 1 .. Len(P[j].steps), s > i, P[j].steps[s].do = "page"
       PROVE  PageOf(P[j].steps[s].at) \subseteq ctl'.excused
  <2>1. Len(P[j].steps) \in Nat  BY <1>8, <1>10, CallFacts
  <2>2. s - i \in 1 .. Len(T[1].steps) /\ (s - i) + i = s  BY <1>10, <1>13, <2>1
  <2>3. T[1].steps[s - i] = P[j].steps[s]  BY <1>10, <2>2
  <2>4. T[1].steps \in Seq(Steps)
    <3>1. T[1] \in CallRecords  BY <1>4, AdvanceFacts
    <3>. QED  BY <3>1 DEF CallRecords
  <2>5. s - i \in DOMAIN Call.steps  BY <1>4, <2>2, <2>4
  <2>6. PageOf(P[j].steps[s].at) \subseteq Unerased
    <3>1. Call.steps[s - i] = P[j].steps[s]  BY <1>4, <2>3
    <3>. QED  BY <1>13, <2>5, <3>1 DEF Unerased
  <2>. QED  BY <1>12, <2>6
<1>14. Fits(w) => Progress(w, j + 1, 0)'
  <2> SUFFICES ASSUME Fits(w)  PROVE Progress(w, j + 1, 0)'
    OBVIOUS
  <2>1. Progress(w, j, i)  BY <1>7 DEF Stands
  <2>2. P[j].cmd = CMD_FLASH_PAGE_ERASE  BY <1>4, <1>10
  <2>. QED  BY <1>3, <1>4, <1>7, <1>12, <1>13, <2>1, <2>2, ProgressDrops
<1>15. Stands(w, Tail(T), j + 1, 0)'  BY <1>1, <1>11, <1>14 DEF Stands
<1>16. j + 1 \in Nat  BY <1>8, <1>10
<1>17. Underway'  BY <1>12, <1>15, <1>16 DEF Underway
<1>18. Tail(T) # << >>
  <2>1. At(w, P[j], j, i, Step)  BY <1>7, NextFacts
  <2>2. AtPages(w, P[j], j, i, Step)  BY <1>4, <1>10, <2>1 DEF At
  <2>3. w.type = "flash" /\ j <= Erases(w)  BY <2>2 DEF AtPages
  <2>4. Erases(w) \in Nat /\ Filled(w) \in Nat /\ Erases(w) <= Filled(w)  BY <1>6, Order
  <2>5. Filled(w) < Len(P)  BY <1>1, <1>6, <2>3, PlanFacts
  <2>6. j \in Nat /\ Len(P) \in Nat /\ j < Len(P)  BY <1>8, <1>10, <2>3, <2>4, <2>5
  <2>7. Tail(T) \in Seq(CallRecords)  BY <1>4, TailFacts
  <2>8. Tail(T) = << >> <=> j + 1 = Len(P) + 1  BY <1>8, <1>11, <2>7, LeftFacts
  <2>9. j + 1 # Len(P) + 1  BY <2>6
  <2>. QED  BY <2>8, <2>9
<1>. QED  BY <1>1, <1>5, <1>12, <1>17, <1>18

LEMMA FailKeeps == IInv /\ RInv /\ StepFails => RInv'
<1> SUFFICES ASSUME IInv, RInv, StepFails  PROVE RInv'
  OBVIOUS
<1>1. Busy /\ (Effect \/ UNCHANGED <<tgtVars, rate, waits>>)  BY DEF StepFails
<1>2. CASE Running /\ Call.cmd = CMD_FLASH_PAGE_ERASE
  <2>1. /\ ctl.now.tag = "W" /\ Underway'
        /\ ctl'.todo = Tail(ctl.todo) /\ ctl'.now = ctl.now /\ ctl'.k = ctl.k
        /\ ctl'.job = ctl.job /\ ctl'.result = ctl.result
    BY <1>2, FailMoves
  <2>2. Confined(ctl'.now, ctl'.todo, nvm')  BY <1>1, <2>1, StillConfined
  <2>3. Running'  BY <1>2, <2>1 DEF Running
  <2>4. ctl'.k \in {0, Len(ctl'.job) + 1} => ctl'.now.tag = "none"  BY <2>1 DEF RInv
  <2>5. ctl'.now.tag = "W" => (ctl'.now.asked => ctl'.now.baud # 0)  BY <2>1 DEF RInv
  <2>. QED  BY <2>1, <2>2, <2>3, <2>4, <2>5 DEF RInv
<1>3. CASE ~(Running /\ Call.cmd = CMD_FLASH_PAGE_ERASE)
  <2>1. \/ ~Running /\ ctl' = [ctl EXCEPT !.todo = << >>]
        \/ ctl' = [ctl EXCEPT !.todo = << >>, !.result = Failure]
    BY <1>3 DEF StepFails
  <2>2. ctl \in CtlRecords  BY CtlFacts
  <2>3. Failure # "running" /\ (~Running => ctl.result # "running")  BY DEF Failure, Running
  <2>4. ctl'.todo = << >> /\ ctl'.now = ctl.now /\ ctl'.k = ctl.k /\ ctl'.job = ctl.job
        /\ ctl'.result # "running"
    BY <2>1, <2>2, <2>3 DEF CtlRecords
  <2>5. ctl'.k \in {0, Len(ctl'.job) + 1} => ctl'.now.tag = "none"  BY <2>4 DEF RInv
  <2>6. ctl'.now.tag = "W" => (ctl'.now.asked => ctl'.now.baud # 0)  BY <2>4 DEF RInv
  <2>7. ctl'.todo \in Seq(CallRecords) /\ Only(ctl'.todo, PlainActs)  BY <2>4, Nothing
  <2>. QED  BY <2>4, <2>5, <2>6, <2>7, LoopKeeps
<1>. QED  BY <1>2, <1>3

\* What the programmer makes of a call it is left with
LEMMA LeftoverHarmless ==
  ASSUME IInv, RInv, Busy, Running, NEW s \in Leftovers, s # << >>,
         NEW K, K = << Cmd(Call.cmd, s) >>
  PROVE  Confined(ctl.now, K, nvm) /\ Harmless(ctl.now, K, nvm, ptr)
<1>1. PICK w, P, T : w = ctl.now /\ P = WriteCalls(w) /\ T = ctl.todo  OBVIOUS
<1>2. PICK c : c = Cmd(Call.cmd, s)  OBVIOUS
<1>3. /\ T \in Seq(CallRecords) /\ T # << >> /\ Call = T[1] /\ Step = T[1].steps[1]
      /\ Step \in Steps /\ (w.tag = "W" => w \in WritePlans)
  BY <1>1, CtlFacts
<1>4. /\ K \in Seq(CallRecords) /\ Len(K) = 1 /\ K[1] = c /\ c.cmd = T[1].cmd /\ c.steps = s
      /\ T[1].cmd \notin {CMD_SENDBLOCK, CMD_SENDBYTE} => c = T[1]
      /\ T[1].cmd = CMD_SENDBLOCK =>
           Len(s) = Len(T[1].steps) /\ s \in Seq(PutSteps) /\ T[1].steps \in Seq(PutSteps)
      /\ T[1].cmd = CMD_SENDBYTE =>
           /\ Len(s) = 1 /\ s \in Seq(PutAtSteps) /\ s[1].do = "putat"
           /\ s[1].at = Step.at /\ Step \in PutAtSteps
  <2>1. K = << c >>  BY <1>2
  <2>. QED  BY <1>1, <1>2, <1>3, <2>1, LeftoverFacts
<1>5. \A m \in 1 .. Len(K) : m = 1 /\ K[m] = c  BY <1>4
<1>6. Confined(w, T, nvm)  BY <1>1 DEF RInv
<1>7. CASE T[1].cmd \notin {CMD_SENDBLOCK, CMD_SENDBYTE}
  <2>1. K = << T[1] >>  BY <1>2, <1>4, <1>7
  <2>2. Confined(w, K, nvm)  BY <1>3, <1>6, <2>1, ConfinedMoves
  <2>3. Free(K, Fillers)
    <3>1. CASE w.tag # "W"
      <4>1. Free(T, Fillers)  BY <1>1, <3>1 DEF RInv
      <4>. QED  BY <1>3, <2>1, <4>1, FreeMoves
    <3>2. CASE w.tag = "W"
      <4>1. w \in WritePlans  BY <1>3, <3>2
      <4>2. PICK j, i : Stands(w, T, j, i)  BY <1>1, <3>2, Standing
      <4>3. P \in Seq(CallRecords) /\ Len(P) \in Nat  BY <1>1, <4>1, PlanFacts
      <4>4. Left(T, P, j, i)  BY <1>1, <4>2 DEF Stands
      <4>5. /\ j \in 1 .. Len(P) /\ i \in Nat
            /\ T[1].cmd = P[j].cmd /\ Len(T[1].steps) = Len(P[j].steps) - i
            /\ \A t \in 1 .. Len(T[1].steps) : T[1].steps[t] = P[j].steps[t + i]
        BY <1>3, <4>3, <4>4, LeftFacts
      <4>6. ASSUME NEW t \in 1 .. Len(T[1].steps)
            PROVE  T[1].steps[t] \notin Fillers
        <5>1. Len(P[j].steps) \in Nat  BY <4>3, <4>5, CallFacts
        <5>2. t + i \in 1 .. Len(P[j].steps)  BY <4>5, <5>1
        <5>3. PICK x : x = P[j].steps[t + i]  OBVIOUS
        <5>4. PlanStep(w, P[j], j, t + i, x)  BY <1>1, <4>1, <4>5, <5>2, <5>3, PlanSteps
        <5>5. x.do \notin {"put", "putat"}  BY <1>7, <4>5, <5>4 DEF PlanStep
        <5>. QED  BY <4>5, <5>3, <5>5 DEF Fillers
      <4>7. ~Has(T[1], Fillers)  BY <4>6 DEF Has
      <4>. QED  BY <1>4, <1>5, <1>7, <4>7 DEF Free
    <3>. QED  BY <3>1, <3>2
  <2>. QED  BY <1>1, <2>2, <2>3 DEF Harmless
<1>8. CASE T[1].cmd \in {CMD_SENDBLOCK, CMD_SENDBYTE}
  <2>1. Step \in PutSteps \cup PutAtSteps
    <3>1. Len(T[1].steps) \in Nat \ {0}  BY <1>3, AdvanceFacts
    <3>2. 1 \in 1 .. Len(T[1].steps)  BY <3>1
    <3>3. T[1].cmd = CMD_SENDBLOCK => Step \in PutSteps  BY <1>3, <1>4, <3>2, ElementOfSeq
    <3>. QED  BY <1>4, <1>8, <3>3
  <2>2. w.tag = "W" /\ w \in WritePlans
    <3>1. Step \in Fillers  BY <2>1 DEF PutSteps, PutAtSteps, Fillers
    <3>2. ~Free(T, Fillers)  BY <1>3, <3>1, FreeMoves
    <3>. QED  BY <1>1, <1>3, <3>2 DEF RInv
  <2>3. \A t \in 1 .. Len(s) : s[t].do \in {"put", "putat"}
    <3>1. \A x \in PutSteps \cup PutAtSteps : x.do \in {"put", "putat"}
      BY DEF PutSteps, PutAtSteps
    <3>. QED  BY <1>4, <1>8, <3>1, ElementOfSeq
  <2>4. Confined(w, K, nvm)
    <3>1. AllLawful(w, K)  BY <1>4, <1>5, <2>3 DEF AllLawful, Lawful
    <3>2. ~Has(c, Erasers)  BY <1>4, <2>3 DEF Has, Erasers
    <3>3. Free(K, Erasers)  BY <1>5, <3>2 DEF Free
    <3>. QED  BY <2>2, <3>1, <3>3 DEF Confined, Guarded
  <2>5. CASE ~Fits(w)
    <3>1. Footprint(w) = Cells  BY <2>2, <2>5, FootprintFacts
    <3>. QED  BY <1>1, <2>4, <3>1 DEF Harmless
  <2>6. CASE Fits(w)
    <3>1. PICK j, i : Stands(w, T, j, i) /\ Nears(w, P, j, i, Step)
      BY <1>1, <2>2, Standing
    <3>2. PlaceNvm(w, j, i) /\ PlacePtr(w, j, i)  BY <2>6, <3>1 DEF Stands, Progress
    <3>3. Step.do \in {"put", "putat"}  BY <2>1 DEF PutSteps, PutAtSteps
    <3>4. PICK k \in 1 .. Len(w.image) : AtData(w, P[j], j, i, Step, k)  BY <3>1, <3>3, Sites
    <3>5. /\ j = Filling(w, k) /\ Len(P[j].steps) = Size(w.image[k])
          /\ Step = IF w.type # "eeprom" THEN Put(w.image[k].data[i + 1])
                    ELSE PutAt(w.image[k].address + w.base, w.image[k].data[i + 1])
      BY <3>4 DEF AtData
    <3>6. nvm # "FLPER"
      <4>1. /\ Filling(w, k) <= Filled(w) /\ Before(w) + 1 <= Filling(w, k)
            /\ Filling(w, k) \in Nat /\ Before(w) \in Nat
        BY <2>2, Order
      <4>2. j <= Filled(w) /\ Before(w) < j  BY <3>5, <4>1
      <4>3. w.type \in {"ram", "flash", "eeprom"}  BY <2>2 DEF WritePlans, MemoryTypes
      <4>. QED  BY <3>2, <4>2, <4>3 DEF PlaceNvm, Behind
    <3>7. /\ w.base \in Nat /\ w.image[k].address \in Nat /\ Size(w.image[k]) \in Nat \ {0}
          /\ k \in DOMAIN w.image /\ i \in Nat
      <4>1. w \in ImagePlans  BY <2>2 DEF ImagePlans
      <4>2. /\ w.base \in Nat /\ w.image[k].address \in Nat /\ Size(w.image[k]) \in Nat \ {0}
            /\ w.image \in Seq(Sections)
        BY <4>1, SectionFacts
      <4>. QED  BY <3>1, <4>2, LenProperties DEF Nears
    <3>8. \A t \in 1 .. Size(w.image[k]) :
            LET a == w.base + w.image[k].address + t - 1 IN a \in Cells => a \in Footprint(w)
      <4> SUFFICES ASSUME NEW t \in 1 .. Size(w.image[k])
                   PROVE  LET a == w.base + w.image[k].address + t - 1
                          IN  a \in Cells => a \in Footprint(w)
        OBVIOUS
      <4>1. PICK p : p = <<k, t>>  OBVIOUS
      <4>2. p \in Places(w) /\ Where(w, p) = w.base + w.image[k].address + t - 1
        BY <2>2, <4>1, IsPlace
      <4>3. Where(w, p) \in Cells => Where(w, p) \in Footprint(w)  BY <2>2, <4>2, FootprintFacts
      <4>. QED  BY <4>2, <4>3
    <3>9. CASE T[1].cmd = CMD_SENDBLOCK
      <4>1. Step.do = "put"
        <5>1. Len(T[1].steps) \in Nat \ {0}  BY <1>3, AdvanceFacts
        <5>2. 1 \in 1 .. Len(T[1].steps)  BY <5>1
        <5>3. Step \in PutSteps  BY <1>3, <1>4, <3>9, <5>2, ElementOfSeq
        <5>. QED  BY <5>3 DEF PutSteps
      <4>2. w.type # "eeprom"  BY <3>5, <4>1 DEF PutAt
      <4>3. ptr = w.base + w.image[k].address + i  BY <3>2, <3>5, <4>2 DEF PlacePtr
      <4>4. Len(s) = Size(w.image[k]) - i
        <5>1. P \in Seq(CallRecords)  BY <3>1, NextFacts
        <5>2. Left(T, P, j, i)  BY <1>1, <3>1 DEF Stands
        <5>3. Len(T[1].steps) = Len(P[j].steps) - i  BY <1>3, <5>1, <5>2, LeftFacts
        <5>. QED  BY <1>4, <3>5, <3>9, <5>3
      <4>5. ASSUME NEW t \in 1 .. Len(s)
            PROVE  s[t].do = "put" /\ (ptr + t - 1 \in Cells => ptr + t - 1 \in Footprint(w))
        <5>1. s[t] \in PutSteps  BY <1>4, <3>9, ElementOfSeq
        <5>2. s[t].do = "put"  BY <5>1 DEF PutSteps
        <5>3. i + t \in 1 .. Size(w.image[k])  BY <3>7, <4>4
        <5>4. ptr + t - 1 = w.base + w.image[k].address + (i + t) - 1  BY <3>7, <4>3
        <5>. QED  BY <3>8, <5>2, <5>3, <5>4
      <4>. QED  BY <1>1, <1>4, <2>4, <3>6, <4>5 DEF Harmless
    <3>10. CASE T[1].cmd = CMD_SENDBYTE
      <4>1. Step.do = "putat"  BY <1>4, <3>10 DEF PutAtSteps
      <4>2. w.type = "eeprom"  BY <3>5, <4>1 DEF Put
      <4>3. PICK a : a = w.image[k].address + w.base  OBVIOUS
      <4>4. Step.at = Sent(a)  BY <3>5, <4>2, <4>3 DEF PutAt
      <4>5. a \in Nat /\ a < AddressSpace
        <5>1. w.base + w.image[k].address + Size(w.image[k]) <= AddressSpace
          BY <2>6, <3>7 DEF Fits
        <5>. QED  BY <3>7, <4>3, <5>1 DEF AddressSpace
      <4>6. Step.at = a  BY <4>4, <4>5, SentFacts
      <4>7. 1 \in 1 .. Size(w.image[k]) /\ w.base + w.image[k].address + 1 - 1 = a
        BY <3>7, <4>3
      <4>8. a \in Cells => a \in Footprint(w)  BY <3>8, <4>7
      <4>9. Len(s) = 1 /\ s[1].do = "putat" /\ s[1].at = a  BY <1>4, <3>10, <4>6
      <4>. QED  BY <1>1, <1>4, <2>4, <3>6, <4>8, <4>9 DEF Harmless
    <3>. QED  BY <1>8, <3>9, <3>10
  <2>. QED  BY <2>5, <2>6
<1>. QED  BY <1>7, <1>8

LEMMA LeavingKeeps == IInv /\ RInv /\ (Kill \/ GivesUp \/ RunsByte) => RInv'
<1> SUFFICES ASSUME IInv, RInv, Kill \/ GivesUp \/ RunsByte  PROVE RInv'
  OBVIOUS
<1>1. UNCHANGED <<tgtVars, rate, waits>>  BY LeavingFacts
<1>2. PICK why, K :
        /\ why \in Results \ {"running", "SUCCESS"}
        /\ ctl' = [ctl EXCEPT !.result = why, !.todo = K]
        /\ \/ K = << >>
           \/ /\ Busy /\ Running
              /\ \E s \in Leftovers : s # << >> /\ K = << Cmd(Call.cmd, s) >>
  BY LeavingFacts
<1>3. Confined(ctl.now, K, nvm) /\ Harmless(ctl.now, K, nvm, ptr)
  <2>1. CASE K = << >>  BY <2>1, NoTodo DEF Harmless
  <2>2. CASE /\ Busy /\ Running
             /\ \E s \in Leftovers : s # << >> /\ K = << Cmd(Call.cmd, s) >>
    BY <2>2, LeftoverHarmless
  <2>. QED  BY <1>2, <2>1, <2>2
<1>4. ctl \in CtlRecords  BY CtlFacts
<1>5. /\ ctl'.todo = K /\ ctl'.now = ctl.now /\ ctl'.k = ctl.k
      /\ ctl'.job = ctl.job /\ ctl'.result = why
  BY <1>2, <1>4 DEF CtlRecords
<1>6. ctl'.k \in {0, Len(ctl'.job) + 1} => ctl'.now.tag = "none"  BY <1>5 DEF RInv
<1>7. ctl'.now.tag = "W" => (ctl'.now.asked => ctl'.now.baud # 0)  BY <1>5 DEF RInv
<1>8. nvm' = nvm /\ ptr' = ptr /\ ~Running' /\ ctl'.result # "SUCCESS"
  BY <1>1, <1>2, <1>5 DEF tgtVars, Running
<1>9. Confined(ctl'.now, ctl'.todo, nvm') /\ Harmless(ctl'.now, ctl'.todo, nvm', ptr')
  BY <1>3, <1>5, <1>8
<1>. QED  BY <1>6, <1>7, <1>8, <1>9 DEF RInv

LEMMA WanderKeeps == IInv /\ RInv /\ Wander => RInv'
<1> SUFFICES ASSUME IInv, RInv, Wander  PROVE RInv'
  OBVIOUS
<1>1. ctl' = ctl /\ ctl.result = "ASTRAY" /\ ctl.todo = << >>
  BY DEF Wander, Astray, IInv
<1>2. ctl'.todo \in Seq(CallRecords) /\ Only(ctl'.todo, PlainActs)  BY <1>1, Nothing
<1>3. ctl'.k \in {0, Len(ctl'.job) + 1} => ctl'.now.tag = "none"  BY <1>1 DEF RInv
<1>4. ctl'.now.tag = "W" => (ctl'.now.asked => ctl'.now.baud # 0)  BY <1>1 DEF RInv
<1>. QED  BY <1>1, <1>2, <1>3, <1>4, LoopKeeps

LEMMA StutterKeeps == RInv /\ UNCHANGED vars => RInv'
<1> SUFFICES ASSUME RInv, UNCHANGED vars  PROVE RInv'
  OBVIOUS
<1>1. /\ ctl' = ctl /\ mem' = mem /\ nvm' = nvm /\ ptr' = ptr /\ rate' = rate
      /\ waits' = waits
  BY DEF vars, tgtVars
<1>2. ASSUME NEW w, NEW j, NEW i, Progress(w, j, i)
      PROVE  Progress(w, j, i)'
  <2>1. PlaceRate(w, j)'  BY <1>1, <1>2 DEF Progress, PlaceRate
  <2>2. PlaceWaits(w, j)'  BY <1>1, <1>2 DEF Progress, PlaceWaits
  <2>3. PlaceNvm(w, j, i)'  BY <1>1, <1>2 DEF Progress, PlaceNvm
  <2>4. PlacePtr(w, j, i)'  BY <1>1, <1>2 DEF Progress, PlacePtr
  <2>5. PlaceBlank(w, j, i)'  BY <1>1, <1>2 DEF Progress, PlaceBlank
  <2>6. \A c : Kept(w, c)' => Kept(w, c)  BY <1>1 DEF Kept
  <2>7. PlaceWritten(w, j, i)'  BY <1>1, <1>2, <2>6 DEF Progress, PlaceWritten
  <2>. QED  BY <2>1, <2>2, <2>3, <2>4, <2>5, <2>7 DEF Progress
<1>3. \A w, j, i : Progress(w, j, i) => Progress(w, j, i)'  BY <1>2
<1>4. Underway => Underway'
  <2> SUFFICES ASSUME NEW j \in Nat, NEW i \in Nat, Stands(ctl.now, ctl.todo, j, i)
               PROVE  Stands(ctl.now, ctl.todo, j, i)'
    BY DEF Underway
  <2>1. PICK w : w = ctl.now  OBVIOUS
  <2>2. ctl'.now = w /\ ctl'.todo = ctl.todo  BY <1>1, <2>1
  <2>3. Fits(w) => Progress(w, j, i)'  BY <1>3, <2>1 DEF Stands
  <2>4. Left(ctl'.todo, WriteCalls(w), j, i)  BY <2>1, <2>2 DEF Stands
  <2>. QED  BY <2>2, <2>3, <2>4 DEF Stands
<1>. QED  BY <1>1, <1>4 DEF RInv, Running, Busy

LEMMA InitStands == Init => RInv
<1> SUFFICES ASSUME Init  PROVE RInv
  OBVIOUS
<1>1. ctl.todo = << >> /\ ctl.now.tag = "none" /\ ctl.result = "SUCCESS"
  BY DEF Init, CtlInit, NoOperation
<1>2. Confined(ctl.now, ctl.todo, nvm) /\ Harmless(ctl.now, ctl.todo, nvm, ptr)
  BY <1>1, NoTodo DEF Harmless
<1>3. ~Running /\ ~Busy  BY <1>1 DEF Running, Busy
<1>. QED  BY <1>1, <1>2, <1>3 DEF RInv

LEMMA NextStands == IInv /\ RInv /\ [Next]_vars => RInv'
<1> SUFFICES ASSUME IInv, RInv, [Next]_vars  PROVE RInv'
  OBVIOUS
<1>1. CASE Launch  BY <1>1, LaunchKeeps
<1>2. CASE Refuse  BY <1>2, RefuseKeeps
<1>3. CASE BeginOperation  BY <1>3, BeginKeeps
<1>4. CASE OutputFails  BY <1>4, OutputKeeps
<1>5. CASE EndChain  BY <1>5, EndChainKeeps
<1>6. CASE EndSession  BY <1>6, EndSessionKeeps
<1>7. CASE Proceed  BY <1>7, ProceedKeeps
<1>8. CASE StepFails  BY <1>8, FailKeeps
<1>9. CASE Kill \/ GivesUp \/ RunsByte  BY <1>9, LeavingKeeps
<1>10. CASE Wander  BY <1>10, WanderKeeps
<1>11. CASE UNCHANGED vars  BY <1>11, StutterKeeps
<1>. QED
  BY <1>1, <1>2, <1>3, <1>4, <1>5, <1>6, <1>7, <1>8, <1>9, <1>10, <1>11 DEF Next

-------------------------------------------------------------------------------
(* What page erases leave out *)

LEMMA PagesAreErased == IInv /\ RInv => EveryPageErased
<1> SUFFICES ASSUME IInv, RInv, Running, Doing("put"), ptr \in Flash, nvm = "FLWR",
                    Kept(ctl.now, ptr)
             PROVE  mem[ptr] = Blank
  BY DEF EveryPageErased
<1>1. PICK w, P, T : w = ctl.now /\ P = WriteCalls(w) /\ T = ctl.todo  OBVIOUS
<1>2. Busy /\ Step.do = "put"  BY DEF Doing
<1>3. T \in Seq(CallRecords) /\ T # << >> /\ Step = T[1].steps[1] /\ Step \in Steps
  BY <1>1, <1>2, CtlFacts
<1>4. w.tag = "W"
  <2>1. Step \in Fillers  BY <1>2, <1>3 DEF Steps, Fillers
  <2>2. ~Free(T, Fillers)  BY <1>3, <2>1, FreeMoves
  <2>. QED  BY <1>1, <2>2 DEF RInv
<1>5. w \in WritePlans  BY <1>1, <1>4, CtlFacts
<1>6. PICK j, i : Stands(w, T, j, i) /\ Nears(w, P, j, i, Step)
  BY <1>1, <1>2, <1>4, Standing
<1>7. Fits(w)  BY <1>1 DEF Kept
<1>8. PlacePtr(w, j, i) /\ PlaceBlank(w, j, i)  BY <1>6, <1>7 DEF Stands, Progress
<1>9. PICK k \in 1 .. Len(w.image) : AtData(w, P[j], j, i, Step, k)
  BY <1>2, <1>6, Sites
<1>10. PICK p : p = <<k, i + 1>>  OBVIOUS
<1>11. p \in Places(w) /\ Filling(w, p[1]) = j /\ p[2] = i + 1
  BY <1>6, <1>9, <1>10, DataPlace
<1>12. w.type # "eeprom"
  <2>1. PutAt(w.image[k].address + w.base, w.image[k].data[i + 1]).do = "putat"  BY DEF PutAt
  <2>. QED  BY <1>2, <1>9, <2>1 DEF AtData
<1>13. ptr = w.base + w.image[k].address + i  BY <1>8, <1>9, <1>12 DEF AtData, PlacePtr
<1>14. Where(w, p) = ptr
  <2>1. /\ w.image[p[1]].address \in Nat /\ w.base \in Nat /\ i \in Nat
        /\ Where(w, p) = w.base + w.image[p[1]].address + p[2] - 1
    BY <1>5, <1>6, <1>11, PlaceFacts DEF Nears
  <2>2. p[1] = k  BY <1>10
  <2>. QED  BY <1>11, <1>13, <2>1, <2>2
<1>15. Where(w, p) \in Flash /\ Kept(w, Where(w, p))  BY <1>1, <1>14
<1>16. mem[Where(w, p)] = Blank  BY <1>6, <1>8, <1>11, <1>15, BlankBefore
<1>. QED  BY <1>14, <1>16

-------------------------------------------------------------------------------
(* Operations implements Update *)

LEMMA SamePromise ==
  ASSUME ctl'.now = ctl.now, ctl'.excused = ctl.excused
  PROVE  Promise' = Promise /\ Footprint(ctl.now)' = Footprint(ctl.now)
<1>1. PICK w : w = ctl.now  OBVIOUS
<1>2. \A c : Kept(w, c)' <=> Kept(w, c)  BY DEF Kept
<1>3. ctl'.now = w  BY <1>1
<1>4. {c \in DOMAIN Written(w) : Kept(w, c)'} = {c \in DOMAIN Written(w) : Kept(w, c)}
  BY <1>2
<1>. QED  BY <1>1, <1>3, <1>4 DEF Promise

\* What is not promised is nothing
LEMMA NoPromise ==
  ASSUME NEW f, NEW S, S = {}
  PROVE  [c \in S |-> f[c]] = << >>
OBVIOUS

LEMMA InitImplements == Init => U!Init
<1> SUFFICES ASSUME Init  PROVE U!Init
  OBVIOUS
<1>1. ctl.now = NoOperation /\ ctl.result = "SUCCESS" /\ faults = 0
  BY DEF Init, CtlInit
<1>2. ctl.now \in Plans /\ ctl.now.tag = "none"  BY <1>1 DEF Plans, NoOperation
<1>3. Promise = << >> /\ Footprint(ctl.now) = {}  BY <1>2, PromiseFacts
<1>4. mem \in [Cells -> Values]
  <2>1. Mixed \in Values  BY DEF Values
  <2>. QED  BY <2>1 DEF Init, TgtInit
<1>5. Outcome = "done"  BY <1>1 DEF Outcome, Astray, Running
<1>. QED  BY <1>1, <1>3, <1>4, <1>5 DEF U!Init

LEMMA LaunchImplements == IInv /\ Launch => U!Begin
<1> SUFFICES ASSUME IInv, Launch  PROVE U!Begin
  OBVIOUS
<1>1. ctl'.now = NoOperation /\ ctl'.result = "running"  BY DEF Launch
<1>2. ~Running /\ UNCHANGED <<tgtVars, rate, waits, faults>>  BY DEF Launch
<1>3. ctl'.now.tag = "none"  BY <1>1 DEF NoOperation
<1>4. Promise' = << >> /\ Footprint(ctl.now)' = {}
  BY <1>3 DEF Promise, Footprint
<1>5. Outcome # "running" /\ Outcome' = "done"  BY <1>1, <1>2, <1>3 DEF Outcome, Astray, Running
<1>6. DOMAIN << >> = {}  OBVIOUS
<1>. QED  BY <1>2, <1>4, <1>5, <1>6 DEF U!Begin, tgtVars

\* An operation that ends without a call to make ends in failure
LEMMA EndedImplements ==
  ASSUME IInv, ctl'.now = ctl.now, ctl'.excused = ctl.excused, ctl'.todo = << >>,
         ctl'.result \notin {"running", "SUCCESS", "ASTRAY"}, ~Astray, faults' = faults \/ Fault,
         \A c \in Cells \ Footprint(ctl.now) : mem'[c] = mem[c]
  PROVE  U!Fail
<1>1. Promise' = Promise /\ Footprint(ctl.now)' = Footprint(ctl.now)  BY SamePromise
<1>2. Outcome # "astray" /\ Outcome' = "failed"  BY DEF Outcome, Astray, Running
<1>3. faults' >= faults
  <2>1. faults \in Nat  BY DEF IInv, TypeOK
  <2>. QED  BY <2>1 DEF Fault
<1>. QED  BY <1>1, <1>2, <1>3 DEF U!Fail

LEMMA RefuseImplements == IInv /\ Refuse => U!Fail
<1> SUFFICES ASSUME IInv, Refuse  PROVE U!Fail
  OBVIOUS
<1>1. PICK why \in Refusals \cup {"FILE_IO_ERROR", "FILE_FORMAT_ERROR"} :
        ctl' = [ctl EXCEPT !.k = @ + 1, !.result = why]
  BY DEF Refuse
<1>2. ctl.todo = << >> /\ ~Astray /\ UNCHANGED <<tgtVars, rate, waits>> /\ (faults' = faults \/ Fault)
  BY DEF Refuse, Ready, Running, Astray
<1>3. ctl \in CtlRecords  BY CtlFacts
<1>4. why \notin {"running", "SUCCESS", "ASTRAY"}  BY DEF Refusals
<1>5. ctl'.todo = << >> /\ ctl'.now = ctl.now /\ ctl'.excused = ctl.excused
      /\ ctl'.result \notin {"running", "SUCCESS", "ASTRAY"}
  BY <1>1, <1>2, <1>3, <1>4 DEF CtlRecords
<1>. QED  BY <1>2, <1>5, EndedImplements DEF tgtVars

LEMMA OutputImplements == IInv /\ OutputFails => U!Fail
<1> SUFFICES ASSUME IInv, OutputFails  PROVE U!Fail
  OBVIOUS
<1>1. PICK why \in {"FILE_IO_ERROR", "FILE_FORMAT_ERROR"} : ctl' = [ctl EXCEPT !.result = why]
  BY DEF OutputFails
<1>2. ctl.todo = << >> /\ ~Astray /\ UNCHANGED <<tgtVars, rate, waits>> /\ Fault
  BY DEF OutputFails, Ready, Running, Astray
<1>3. ctl \in CtlRecords  BY CtlFacts
<1>4. ctl'.todo = << >> /\ ctl'.now = ctl.now /\ ctl'.excused = ctl.excused
      /\ ctl'.result \notin {"running", "SUCCESS", "ASTRAY"}
  BY <1>1, <1>2, <1>3 DEF CtlRecords
<1>. QED  BY <1>2, <1>4, EndedImplements DEF tgtVars

LEMMA EndChainImplements == IInv /\ EndChain => U!Begin
<1> SUFFICES ASSUME IInv, EndChain  PROVE U!Begin
  OBVIOUS
<1> DEFINE T == << StopCall >>
<1>1. /\ ctl' = [ctl EXCEPT !.k = @ + 1, !.now = NoOperation, !.todo = T]
      /\ UNCHANGED <<tgtVars, rate, waits, faults>> /\ Ready
  BY DEF EndChain
<1> HIDE DEF T
<1>2. ctl \in CtlRecords  BY CtlFacts
<1>3. ctl'.now = NoOperation /\ ctl'.result = ctl.result  BY <1>1, <1>2 DEF CtlRecords
<1>4. ctl'.now.tag = "none"  BY <1>3 DEF NoOperation
<1>5. Promise' = << >> /\ Footprint(ctl.now)' = {}  BY <1>4 DEF Promise, Footprint
<1>6. Outcome # "running"  BY <1>1 DEF Outcome, Astray, Ready, Running, Busy
<1>7. Outcome' = "done"  BY <1>1, <1>3, <1>4 DEF Outcome, Astray, Ready, Running
<1>8. DOMAIN << >> = {}  OBVIOUS
<1>. QED  BY <1>1, <1>5, <1>6, <1>7, <1>8 DEF U!Begin, tgtVars

LEMMA EndSessionImplements == IInv /\ RInv /\ EndSession => UNCHANGED U!vars
<1> SUFFICES ASSUME IInv, RInv, EndSession  PROVE UNCHANGED U!vars
  OBVIOUS
<1>1. Ready /\ ctl.k > Len(ctl.job) /\ UNCHANGED <<tgtVars, rate, waits, faults>>
  BY DEF EndSession
<1>2. ctl \in CtlRecords /\ Len(ctl.job) \in Nat /\ ctl.k \in 0 .. Len(ctl.job) + 1
  BY CtlFacts, JobFacts DEF IInv, TypeOK
<1>3. ctl.now.tag = "none"
  <2>1. ctl.k = Len(ctl.job) + 1  BY <1>1, <1>2
  <2>. QED  BY <2>1 DEF RInv
<1>4. ctl'.now = ctl.now /\ ctl'.excused = ctl.excused /\ ctl'.result \in {ctl.result, "SUCCESS"}
  BY <1>2 DEF EndSession, CtlRecords
<1>5. Outcome = "done" /\ Outcome' = "done"  BY <1>1, <1>3, <1>4 DEF Outcome, Astray, Ready, Running
<1>6. Promise' = Promise /\ Footprint(ctl.now)' = Footprint(ctl.now)  BY <1>4, SamePromise
<1>. QED  BY <1>1, <1>5, <1>6 DEF U!vars, tgtVars

\* An image that takes no call has no byte
LEMMA EmptyPlan ==
  ASSUME NEW w \in WritePlans, WriteCalls(w) = << >>
  PROVE  DOMAIN Written(w) = {}
<1>1. PICK P : P = WriteCalls(w)  OBVIOUS
<1>2. Len(P) = 0 /\ Filled(w) <= Len(P)
  <2>1. Filled(w) <= Len(P)  BY <1>1, PlanFacts
  <2>2. Len(P) = 0  BY <1>1
  <2>. QED  BY <2>1, <2>2
<1>3. Places(w) = {}
  <2> SUFFICES ASSUME NEW p \in Places(w)  PROVE FALSE
    OBVIOUS
  <2>1. p[1] \in 1 .. Len(w.image)  BY PlaceFacts
  <2>2. /\ Filling(w, p[1]) \in Nat /\ Filling(w, p[1]) <= Filled(w)
        /\ Before(w) \in Nat /\ Before(w) + 1 <= Filling(w, p[1]) /\ Filled(w) \in Nat
    BY <2>1, Order
  <2>. QED  BY <1>2, <2>2
<1>. QED  BY <1>3, WrittenFacts

LEMMA BeginImplements == IInv /\ RInv /\ BeginOperation => U!Begin
<1> SUFFICES ASSUME IInv, RInv, BeginOperation  PROVE U!Begin
  OBVIOUS
<1>1. PICK w, T : w = Planned /\ T = Calls(Planned)  OBVIOUS
<1>2. /\ ctl' = [ctl EXCEPT !.k = @ + 1, !.now = w, !.todo = T,
                           !.stripped = @ \cup Strips, !.excused = {}]
      /\ UNCHANGED <<tgtVars, rate, waits, faults>> /\ Ready
      /\ ctl.k < Len(ctl.job) /\ Refusals = {}
  BY <1>1 DEF BeginOperation
<1>3. ctl \in CtlRecords /\ ctl.job \in Jobs /\ ctl.k \in Nat
  BY CtlFacts, JobFacts
<1>4. /\ w \in Plans /\ w.tag = Op.tag /\ Op.tag \in {"W", "V", "R", "E"}
      /\ Op.tag = "W" => w \in WritePlans /\ T = WriteCalls(w)
      /\ Op.tag = "E" => T = << ChipErase >>
  BY <1>1, <1>2, <1>3, PlannedFacts
<1>5. ctl'.todo = T /\ ctl'.now = w /\ ctl'.result = ctl.result
  BY <1>2, <1>3 DEF CtlRecords
<1>6. Outcome # "running"  BY <1>2 DEF Outcome, Astray, Ready, Running, Busy
<1>7. Running' /\ w.tag # "none"  BY <1>2, <1>4, <1>5 DEF Ready, Running
<1>8. Outcome' \in {"running", "done"}  BY <1>7 DEF Outcome, Astray, Running
<1>9. Footprint(ctl.now)' \subseteq Cells /\ DOMAIN Promise' \subseteq Footprint(ctl.now)'
  <2>1. Footprint(w) \subseteq Cells
    <3>1. w.tag = "W" => Footprint(w) \subseteq Cells  BY <1>4, FootprintFacts
    <3>2. w.tag # "W" => Footprint(w) \subseteq Cells  BY DEF Footprint, Cells
    <3>. QED  BY <3>1, <3>2
  <2>2. CASE w.tag = "W"
    <3> DEFINE kept == {c \in DOMAIN Written(w) : Kept(w, c)'}
    <3>1. Promise' = [c \in kept |-> Written(w)[c]]  BY <1>5, <2>2 DEF Promise
    <3>2. kept \subseteq DOMAIN Written(w)  OBVIOUS
    <3> HIDE DEF kept
    <3>3. DOMAIN Promise' = kept  BY <3>1
    <3>4. DOMAIN Written(w) \subseteq Footprint(w)  BY <1>4, <2>2, FootprintFacts
    <3>. QED  BY <1>5, <2>1, <3>2, <3>3, <3>4
  <2>3. CASE w.tag = "E"
    <3>1. Promise' = [c \in Flash |-> Blank]  BY <1>5, <2>3 DEF Promise
    <3>2. Footprint(w) = Flash \cup Eeprom  BY <2>3 DEF Footprint
    <3>3. DOMAIN Promise' = Flash  BY <3>1
    <3>. QED  BY <1>5, <2>1, <3>2, <3>3
  <2>4. CASE w.tag \notin {"W", "E"}
    <3>1. Promise' = << >>  BY <1>5, <2>4 DEF Promise
    <3>2. DOMAIN << >> = {}  OBVIOUS
    <3>. QED  BY <1>5, <2>1, <3>1, <3>2
  <2>. QED  BY <2>2, <2>3, <2>4
<1>10. Outcome' = "done" => Promise' = << >>
  <2> SUFFICES ASSUME Outcome' = "done"  PROVE Promise' = << >>
    OBVIOUS
  <2>1. T = << >>  BY <1>5, <1>7 DEF Outcome, Astray, Running, Busy
  <2>2. CASE w.tag = "W"
    <3>1. DOMAIN Written(w) = {}  BY <1>4, <2>1, <2>2, EmptyPlan
    <3> DEFINE kept == {c \in DOMAIN Written(w) : Kept(w, c)'}
    <3>2. Promise' = [c \in kept |-> Written(w)[c]]  BY <1>5, <2>2 DEF Promise
    <3>3. kept = {}  BY <3>1
    <3> HIDE DEF kept
    <3>. QED  BY <3>2, <3>3, NoPromise
  <2>3. CASE w.tag = "E"
    <3>1. Len(<< ChipErase >>) = 1 /\ Len(<< >>) = 0  OBVIOUS
    <3>. QED  BY <1>4, <2>1, <2>3, <3>1
  <2>4. CASE w.tag \notin {"W", "E"}  BY <1>5, <2>4 DEF Promise
  <2>. QED  BY <2>2, <2>3, <2>4
<1>. QED  BY <1>2, <1>6, <1>8, <1>9, <1>10 DEF U!Begin, tgtVars

\* Behind its last call -W has written what it promised
LEMMA PromiseIsKept ==
  ASSUME ctl \in CtlRecords, ctl'.now = ctl.now, ctl'.excused = ctl.excused,
         ctl.now.tag = "W", ctl'.todo = << >>, Underway'
  PROVE  \A c \in DOMAIN Promise : mem'[c] = Promise[c]
<1>1. PICK w, P : w = ctl.now /\ P = WriteCalls(w)  OBVIOUS
<1>2. ctl.now \in Plans  BY JobFacts
<1>3. w \in WritePlans  BY <1>1, <1>2 DEF Plans, ImagePlans
<1>4. P \in Seq(CallRecords) /\ Len(P) \in Nat /\ Filled(w) <= Len(P)
  BY <1>1, <1>3, PlanFacts
<1>5. PICK j \in Nat, i \in Nat : Stands(ctl.now, ctl.todo, j, i)'  BY DEF Underway
<1>6. Left(<< >>, P, j, i) /\ (Fits(w) => Progress(w, j, i)')
  BY <1>1, <1>5 DEF Stands
<1>7. j = Len(P) + 1  BY <1>4, <1>6, Nothing, LeftFacts
<1>8. /\ DOMAIN Promise = {c \in DOMAIN Written(w) : Kept(w, c)}
      /\ \A c \in DOMAIN Promise : Promise[c] = Written(w)[c]
  BY <1>1, <1>2, PromiseFacts
<1> SUFFICES ASSUME NEW c \in DOMAIN Promise  PROVE mem'[c] = Promise[c]
  OBVIOUS
<1>9. c \in DOMAIN Written(w) /\ Kept(w, c) /\ Promise[c] = Written(w)[c]  BY <1>8
<1>10. PICK p \in Places(w) : Where(w, p) = c /\ Written(w)[c] = w.image[p[1]].data[p[2]]
  <2>1. HasByte(w, c)  BY <1>9, WrittenFacts
  <2>. QED  BY <2>1 DEF HasByte, IsFrom
<1>11. c \in Cells
  <2>1. DOMAIN Written(w) \subseteq Cells  BY WrittenFacts
  <2>. QED  BY <1>9, <2>1
<1>12. Kept(w, c)'  BY <1>9 DEF Kept
<1>13. PlaceWritten(w, j, i)'
  <2>1. Fits(w)  BY <1>9 DEF Kept
  <2>. QED  BY <1>6, <2>1 DEF Progress
<1>14. Reached(w, p, j, i)
  <2>1. p[1] \in 1 .. Len(w.image)  BY <1>3, PlaceFacts
  <2>2. Filling(w, p[1]) \in Nat /\ Filling(w, p[1]) <= Filled(w) /\ Filled(w) \in Nat
    BY <1>3, <2>1, Order
  <2>3. Filling(w, p[1]) < j  BY <1>4, <1>7, <2>2
  <2>. QED  BY <2>3 DEF Reached, Behind
<1>15. Kept(w, Where(w, p))'  BY <1>10, <1>12
<1>16. mem'[Where(w, p)] = w.image[p[1]].data[p[2]]
  BY <1>10, <1>11, <1>13, <1>14, <1>15 DEF PlaceWritten
<1>. QED  BY <1>9, <1>10, <1>16

LEMMA ProceedImplements == IInv /\ RInv /\ Proceed => [U!Next]_(U!vars)
<1> SUFFICES ASSUME IInv, RInv, Proceed  PROVE U!Change \/ U!Succeed \/ UNCHANGED U!vars
  BY DEF U!Next
<1>1. Effect /\ ctl' = [ctl EXCEPT !.todo = Advanced] /\ faults' = faults  BY DEF Proceed
<1>2. ctl \in CtlRecords  BY CtlFacts
<1>3. ctl'.now = ctl.now /\ ctl'.excused = ctl.excused /\ ctl'.result = ctl.result
  BY <1>1, <1>2 DEF CtlRecords
<1>4. Busy /\ (Running' <=> Running)  BY <1>1, <1>3, EffectIs DEF Running
<1>5. Promise' = Promise /\ Footprint(ctl.now)' = Footprint(ctl.now)  BY <1>3, SamePromise
<1>6. \A c \in Cells \ Footprint(ctl.now) : mem'[c] = mem[c]  BY <1>1, StepSafe
<1>7. CASE ~Running
  <2>1. ctl.result # "SUCCESS" /\ ~Astray  BY <1>4, <1>7 DEF RInv, IInv, Busy
  <2>2. Outcome = "failed" /\ Outcome' = "failed"
    BY <1>3, <1>4, <1>7, <2>1 DEF Outcome, Astray
  <2>3. U!Change  BY <1>1, <1>5, <1>6, <2>2 DEF U!Change
  <2>. QED  BY <2>3
<1>8. CASE Running /\ ctl.now.tag = "none"
  <2>1. Outcome = "done" /\ Outcome' = "done"  BY <1>3, <1>4, <1>8 DEF Outcome, Astray, Running
  <2>2. mem' = mem
    <3>1. mem \in [Cells -> Values] /\ mem' \in [Cells -> Values]
      BY <1>1, ProceedStep DEF IInv, TypeOK
    <3>2. Footprint(ctl.now) = {}  BY <1>8 DEF Footprint
    <3>3. \A c \in Cells : mem'[c] = mem[c]  BY <1>6, <3>2
    <3>. QED  BY <3>1, <3>3
  <2>3. UNCHANGED U!vars  BY <1>1, <1>5, <2>1, <2>2 DEF U!vars
  <2>. QED  BY <2>3
<1>9. CASE Running /\ ctl.now.tag # "none" /\ Busy'
  <2>1. Outcome = "running" /\ Outcome' = "running"  BY <1>3, <1>4, <1>9 DEF Outcome, Astray, Running
  <2>2. U!Change  BY <1>1, <1>5, <1>6, <2>1 DEF U!Change
  <2>. QED  BY <2>2
<1>10. CASE Running /\ ctl.now.tag # "none" /\ ~Busy'
  <2>1. Outcome = "running" /\ Outcome' = "done"  BY <1>3, <1>4, <1>10 DEF Outcome, Astray, Running
  <2>2. \A c \in DOMAIN Promise : mem'[c] = Promise[c]
    <3>1. CASE ctl.now.tag = "W"
      <4>1. ctl'.todo = << >>  BY <1>10 DEF Busy
      <4>2. Underway'  BY <1>10, <3>1, ProceedMoves
      <4>. QED  BY <1>2, <1>3, <3>1, <4>1, <4>2, PromiseIsKept
    <3>2. CASE ctl.now.tag = "E"
      <4>1. ctl.todo = << ChipErase >>  BY <1>4, <1>10, <3>2 DEF RInv
      <4>2. Step.do = "chip"
        <5>1. << ChipErase >>[1] = ChipErase  OBVIOUS
        <5>. QED  BY <4>1, <5>1, ChipEraseSteps DEF Step, Call
      <4>3. mem' \in ChipErased  BY <1>1, <4>2, EffectDid DEF Did
      <4>4. \A c \in Flash : mem'[c] = Blank  BY <4>3, ErasedAt
      <4>5. Promise = [c \in Flash |-> Blank]  BY <3>2 DEF Promise
      <4>. QED  BY <4>4, <4>5
    <3>3. CASE ctl.now.tag \notin {"W", "E"}
      <4>1. Promise = << >>  BY <3>3 DEF Promise
      <4>2. DOMAIN << >> = {}  OBVIOUS
      <4>. QED  BY <4>1, <4>2
    <3>. QED  BY <3>1, <3>2, <3>3
  <2>3. U!Succeed  BY <1>1, <1>5, <1>6, <2>1, <2>2 DEF U!Succeed
  <2>. QED  BY <2>3
<1>. QED  BY <1>7, <1>8, <1>9, <1>10

LEMMA FailImplements == IInv /\ RInv /\ StepFails => U!Excuse \/ U!Fail
<1> SUFFICES ASSUME IInv, RInv, StepFails  PROVE U!Excuse \/ U!Fail
  OBVIOUS
<1>1. Busy /\ Fault /\ (Effect \/ UNCHANGED <<tgtVars, rate, waits>>)
  BY DEF StepFails
<1>2. \A c \in Cells \ Footprint(ctl.now) : mem'[c] = mem[c]
  <2>1. CASE Effect  BY <2>1, StepSafe
  <2>2. CASE UNCHANGED <<tgtVars, rate, waits>>  BY <2>2 DEF tgtVars
  <2>. QED  BY <1>1, <2>1, <2>2
<1>3. faults \in Nat /\ faults' = faults + 1  BY <1>1 DEF Fault, IInv, TypeOK
<1>4. CASE Running /\ Call.cmd = CMD_FLASH_PAGE_ERASE
  <2>1. PICK w : w = ctl.now  OBVIOUS
  <2>2. /\ w.tag = "W" /\ ctl'.now = w /\ ctl'.result = ctl.result
        /\ ctl'.excused = ctl.excused \cup Unerased /\ ctl'.todo # << >>
    BY <1>4, <2>1, FailMoves
  <2>3. Outcome = "running" /\ Outcome' = "running"
    BY <1>1, <1>4, <2>1, <2>2 DEF Outcome, Astray, Running, Busy
  <2>4. Footprint(ctl.now)' = Footprint(ctl.now)  BY <2>1, <2>2
  <2> DEFINE kept  == {c \in DOMAIN Written(w) : Kept(w, c)}
             still == {c \in DOMAIN Written(w) : Kept(w, c)'}
  <2>5. Promise = [c \in kept |-> Written(w)[c]] /\ Promise' = [c \in still |-> Written(w)[c]]
    BY <2>1, <2>2 DEF Promise
  <2>6. ASSUME NEW c \in Cells, Kept(w, c)'
        PROVE  Kept(w, c)
    <3>1. CASE c \in Ram  BY <2>6, <3>1, TargetAssumption DEF Kept
    <3>2. CASE c \in Flash  BY <2>2, <2>6, <3>2, TargetAssumption DEF Kept
    <3>3. CASE c \in Eeprom  BY <2>6, <3>3, TargetAssumption DEF Kept
    <3>. QED  BY <3>1, <3>2, <3>3 DEF Cells
  <2>7. still \subseteq kept
    <3>1. DOMAIN Written(w) \subseteq Cells  BY WrittenFacts
    <3>. QED  BY <2>6, <3>1
  <2> HIDE DEF kept, still
  <2>8. DOMAIN Promise' \subseteq DOMAIN Promise
        /\ \A c \in DOMAIN Promise' : Promise'[c] = Promise[c]
    BY <2>5, <2>7
  <2>9. faults' > faults  BY <1>3
  <2>. QED  BY <1>2, <2>3, <2>4, <2>8, <2>9 DEF U!Excuse
<1>5. CASE ~(Running /\ Call.cmd = CMD_FLASH_PAGE_ERASE)
  <2>1. \/ ~Running /\ ctl' = [ctl EXCEPT !.todo = << >>]
        \/ Running /\ ctl' = [ctl EXCEPT !.todo = << >>, !.result = Failure]
    BY <1>5 DEF StepFails
  <2>2. ctl \in CtlRecords  BY CtlFacts
  <2>3. Failure \notin {"running", "SUCCESS", "ASTRAY"}  BY DEF Failure
  <2>4. ~Astray /\ (~Running => ctl.result \notin {"running", "SUCCESS", "ASTRAY"})
    BY <1>1 DEF RInv, IInv, Busy, Astray, Running
  <2>5. ctl'.todo = << >> /\ ctl'.now = ctl.now /\ ctl'.excused = ctl.excused
        /\ ctl'.result \notin {"running", "SUCCESS", "ASTRAY"}
    BY <2>1, <2>2, <2>3, <2>4 DEF CtlRecords
  <2>. QED  BY <1>1, <1>2, <2>4, <2>5, EndedImplements
<1>. QED  BY <1>4, <1>5

\* Only -W goes astray while it runs
LEMMA StraysFromW ==
  ASSUME IInv, RInv, Busy, Running,
         \/ Call.cmd \in {CMD_SENDBYTE, CMD_SENDBLOCK, CMD_FLASH_PAGE_ERASE}
         \/ Doing("putat")
  PROVE  ctl.now.tag = "W"
<1>1. PICK T : T = ctl.todo  OBVIOUS
<1>2. /\ T \in Seq(CallRecords) /\ T # << >> /\ Call = T[1] /\ Step = T[1].steps[1]
      /\ Step \in Steps
  BY <1>1, CtlFacts
<1>3. T[1] \in CallRecords /\ Len(T) \in Nat \ {0} /\ Len(T[1].steps) \in Nat \ {0}
  BY <1>2, AdvanceFacts
<1>4. 1 \in 1 .. Len(T) /\ 1 \in 1 .. Len(T[1].steps)  BY <1>3
<1>5. ASSUME Step \in Fillers  PROVE ctl.now.tag = "W"
  <2>1. ~Free(T, Fillers)  BY <1>2, <1>5, FreeMoves
  <2>. QED  BY <1>1, <2>1 DEF RInv
<1>6. CASE Call.cmd = CMD_FLASH_PAGE_ERASE
  BY <1>1, <1>2, <1>4, <1>6 DEF RInv, Confined
<1>7. CASE Call.cmd = CMD_SENDBLOCK
  <2>1. T[1].steps \in Seq(PutSteps)  BY <1>2, <1>3, <1>7 DEF CallRecords
  <2>2. Step \in PutSteps  BY <1>2, <1>4, <2>1, ElementOfSeq
  <2>. QED  BY <1>5, <2>2 DEF PutSteps, Fillers
<1>8. CASE Call.cmd = CMD_SENDBYTE
  <2>1. T[1].steps \in Seq(PutAtSteps)  BY <1>2, <1>3, <1>8 DEF CallRecords
  <2>2. Step \in PutAtSteps  BY <1>2, <1>4, <2>1, ElementOfSeq
  <2>. QED  BY <1>5, <2>2 DEF PutAtSteps, Fillers
<1>9. CASE Doing("putat")
  <2>1. Step \in Fillers  BY <1>2, <1>9 DEF Doing, Steps, Fillers
  <2>. QED  BY <1>5, <2>1
<1>. QED  BY <1>6, <1>7, <1>8, <1>9

LEMMA LeavingImplements ==
  IInv /\ RInv /\ (Kill \/ GivesUp \/ RunsByte) => U!Fail \/ U!Stray
<1> SUFFICES ASSUME IInv, RInv, Kill \/ GivesUp \/ RunsByte  PROVE U!Fail \/ U!Stray
  OBVIOUS
<1>1. Fault /\ UNCHANGED <<tgtVars, rate, waits>>  BY LeavingFacts
<1>2. PICK why, K :
        /\ why \in Results \ {"running", "SUCCESS"}
        /\ ctl' = [ctl EXCEPT !.result = why, !.todo = K]
        /\ why = "ASTRAY" =>
             /\ Busy
             /\ \/ Running /\ Call.cmd \in {CMD_SENDBYTE, CMD_SENDBLOCK, CMD_FLASH_PAGE_ERASE}
                \/ Doing("putat")
        /\ why # "ASTRAY" => Running
  BY LeavingFacts
<1>3. ctl \in CtlRecords  BY CtlFacts
<1>4. ctl'.now = ctl.now /\ ctl'.excused = ctl.excused /\ ctl'.result = why
  BY <1>2, <1>3 DEF CtlRecords
<1>5. faults \in Nat /\ faults' = faults + 1  BY <1>1 DEF Fault, IInv, TypeOK
<1>6. faults' >= faults /\ faults' > faults  BY <1>5
<1>7. Promise' = Promise /\ Footprint(ctl.now)' = Footprint(ctl.now)  BY <1>4, SamePromise
<1>8. CASE why # "ASTRAY"
  <2>1. Outcome # "astray"  BY <1>2, <1>8 DEF Outcome, Astray, Running
  <2>2. Outcome' = "failed"  BY <1>2, <1>4, <1>8 DEF Outcome, Astray, Running
  <2>. QED  BY <1>1, <1>6, <1>7, <2>1, <2>2 DEF U!Fail, tgtVars
<1>9. CASE why = "ASTRAY"
  <2>1. Busy /\ ~Astray  BY <1>2, <1>9 DEF IInv, Busy
  <2>2. Outcome \in {"running", "failed"}
    <3>1. CASE Running
      <4>1. ctl.now.tag = "W"  BY <1>2, <1>9, <2>1, <3>1, StraysFromW
      <4>. QED  BY <2>1, <3>1, <4>1 DEF Outcome
    <3>2. CASE ~Running
      <4>1. ctl.result # "SUCCESS"  BY <2>1, <3>2 DEF RInv
      <4>. QED  BY <2>1, <3>2, <4>1 DEF Outcome
    <3>. QED  BY <3>1, <3>2
  <2>3. Outcome' = "astray"  BY <1>4, <1>9 DEF Outcome, Astray
  <2>. QED  BY <1>1, <1>6, <1>7, <2>2, <2>3 DEF U!Stray, tgtVars
<1>. QED  BY <1>8, <1>9

LEMMA WanderImplements == IInv /\ Wander => U!Wander
<1> SUFFICES ASSUME IInv, Wander  PROVE U!Wander
  OBVIOUS
<1>1. Astray /\ Fault /\ ctl' = ctl  BY DEF Wander
<1>2. Outcome = "astray" /\ Outcome' = "astray"  BY <1>1 DEF Outcome, Astray
<1>3. Promise' = Promise /\ Footprint(ctl.now)' = Footprint(ctl.now)  BY <1>1, SamePromise
<1>4. faults' > faults  BY <1>1 DEF Fault, IInv, TypeOK
<1>. QED  BY <1>2, <1>3, <1>4 DEF U!Wander

LEMMA NextImplements == IInv /\ RInv /\ [Next]_vars => [U!Next]_(U!vars)
<1> SUFFICES ASSUME IInv, RInv, [Next]_vars  PROVE [U!Next]_(U!vars)
  OBVIOUS
<1>1. CASE Launch  BY <1>1, LaunchImplements DEF U!Next
<1>2. CASE Refuse  BY <1>2, RefuseImplements DEF U!Next
<1>3. CASE BeginOperation  BY <1>3, BeginImplements DEF U!Next
<1>4. CASE OutputFails  BY <1>4, OutputImplements DEF U!Next
<1>5. CASE EndChain  BY <1>5, EndChainImplements DEF U!Next
<1>6. CASE EndSession  BY <1>6, EndSessionImplements
<1>7. CASE Proceed  BY <1>7, ProceedImplements
<1>8. CASE StepFails  BY <1>8, FailImplements DEF U!Next
<1>9. CASE Kill \/ GivesUp \/ RunsByte  BY <1>9, LeavingImplements DEF U!Next
<1>10. CASE Wander  BY <1>10, WanderImplements DEF U!Next
<1>11. CASE UNCHANGED vars
  <2>1. ctl' = ctl /\ mem' = mem /\ faults' = faults  BY <1>11 DEF vars, tgtVars
  <2>2. Promise' = Promise /\ Footprint(ctl.now)' = Footprint(ctl.now)  BY <2>1, SamePromise
  <2>3. Outcome' = Outcome  BY <2>1 DEF Outcome, Astray, Running, Busy
  <2>. QED  BY <2>1, <2>2, <2>3 DEF U!vars
<1>. QED
  BY <1>1, <1>2, <1>3, <1>4, <1>5, <1>6, <1>7, <1>8, <1>9, <1>10, <1>11 DEF Next

-------------------------------------------------------------------------------
(* Theorems *)

\* In every state -W is at a place of its plan, the steps behind it have erased, set,
\* selected and written what they were to, and the steps ahead reach nothing that is not
\* the operation's: its own, and what the programmer does of the call it is left with when
\* the controller is killed or gives up, START bytes stored for the rest of a block among
\* it (main.cpp:180).  Once the two are out of step there are no steps ahead to speak of,
\* and nothing is said.  The inductive invariant (Operation.cpp:14-184, FastUPDI.cpp:41-113)
THEOREM Standings == Spec => []RInv
<1>1. Init => IInv /\ RInv  BY InitIsSound, InitStands
<1>2. IInv /\ RInv /\ [Next]_vars => (IInv /\ RInv)'  BY NextKeeps, NextStands
<1>. QED  BY <1>1, <1>2, PTL DEF Spec

\* A cell of flash that is programmed is blank, with every image: the page that the erase of
\* a section leaves out, as the section before has erased it, really is erased; chip erase,
\* or page erases where the memory begins with a page, reach every byte of the image; and
\* what is written before does not come back to it (Operation.cpp:114-144)
THEOREM PagesErased == Spec => []EveryPageErased
BY Invariant, Standings, PagesAreErased, PTL

\* Every chain of operations is a behaviour of Update: an operation that fails, or whose
\* block is filled up with START bytes when its controller is gone, changes only what it
\* may, and one that succeeds has set what it must, page for page and byte for byte, save
\* what a mishap on the way excuses.  Programmer and controller may leave the promise, but
\* only out of step: by a page erase that gets no answer, a place or a size made up of
\* STARTs, or a byte run as a command (Operation.cpp:138, main.cpp:126, 312, 316, 358-375);
\* until the next session begins nothing is claimed then
\* (Operation.cpp:14-184, FastUPDI.cpp:41-113)
THEOREM OperationsImplementUpdate == Spec => Implements
<1>1. Init => U!Init  BY InitImplements
<1>2. IInv /\ RInv /\ [Next]_vars => [U!Next]_(U!vars)  BY NextImplements
<1>. QED  BY <1>1, <1>2, Invariant, Standings, PTL DEF Spec, Implements, U!Spec
=============================================================================

-------------------------------- MODULE Update --------------------------------
(***************************************************************************)
(* What an operation on the target's memory promises, whatever calls it is *)
(* made of: it changes nothing outside the cells it may change, not even   *)
(* when it fails or is cut short; and it succeeds only when every cell it  *)
(* must set holds what it must hold.  A mishap on the way is the only      *)
(* excuse for a cell; the worst leads astray, and then nothing is promised *)
(* until the next operation.  Refined by Operations.                       *)
(***************************************************************************)
EXTENDS Naturals

CONSTANTS Cells, Values

VARIABLES
  mem,      \* what the cells hold
  may,      \* the cells the operation may change
  must,     \* what it must leave in some of them
  outcome,  \* of the operation: "running", "done", "failed" or "astray"
  mishaps   \* failures of the target or the line so far

vars == <<mem, may, must, outcome, mishaps>>

Init ==
  /\ mem \in [Cells -> Values] /\ may = {} /\ must = << >>
  /\ outcome = "done" /\ mishaps = 0

Begin ==
  /\ outcome # "running" /\ outcome' \in {"running", "done"}
  /\ may' \subseteq Cells /\ DOMAIN must' \subseteq may'
  /\ outcome' = "done" => must' = << >>
  /\ UNCHANGED <<mem, mishaps>>

\* The programmer may still be at work for an operation whose controller has died
Change ==
  /\ outcome \in {"running", "failed"}
  /\ \A c \in Cells \ may : mem'[c] = mem[c]
  /\ UNCHANGED <<may, must, outcome, mishaps>>

Excuse ==
  /\ outcome = "running" /\ mishaps' > mishaps
  /\ DOMAIN must' \subseteq DOMAIN must
  /\ \A c \in DOMAIN must' : must'[c] = must[c]
  /\ \A c \in Cells \ may : mem'[c] = mem[c]
  /\ UNCHANGED <<may, outcome>>

\* The last change and the success may be one step
Succeed ==
  /\ outcome = "running" /\ outcome' = "done"
  /\ \A c \in DOMAIN must : mem'[c] = must[c]
  /\ \A c \in Cells \ may : mem'[c] = mem[c]
  /\ UNCHANGED <<may, must, mishaps>>

Fail ==
  /\ outcome # "astray" /\ outcome' = "failed"
  /\ \A c \in Cells \ may : mem'[c] = mem[c]
  /\ mishaps' >= mishaps
  /\ UNCHANGED <<may, must>>

Stray ==
  /\ outcome \in {"running", "failed"} /\ outcome' = "astray" /\ mishaps' > mishaps
  /\ UNCHANGED <<mem, may, must>>

Wander ==
  /\ outcome = "astray" /\ mishaps' > mishaps
  /\ UNCHANGED <<may, must, outcome>>

Next == Begin \/ Change \/ Excuse \/ Succeed \/ Fail \/ Stray \/ Wander

Spec == Init /\ [][Next]_vars
=============================================================================

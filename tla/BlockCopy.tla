------------------------------ MODULE BlockCopy ------------------------------
(***************************************************************************)
(* What one block write promises: the bytes of a block reach the target    *)
(* one at a time, in order, none lost and none invented, and the command   *)
(* is reported successful only when all of them have.  A byte is named by  *)
(* its position in the block, so the sequence that arrived says which      *)
(* bytes arrived and in which order.                                       *)
(***************************************************************************)
EXTENDS Naturals, Sequences

VARIABLES size,     \* how many bytes the block has
          copied,   \* the bytes the target received, in order of arrival
          reported  \* the command was reported successful

vars == <<size, copied, reported>>

CONSTANT MaxSize

Init == /\ size \in 0 .. MaxSize
        /\ copied = << >>
        /\ reported = FALSE

Copy == /\ Len(copied) < size
        /\ copied' = Append(copied, Len(copied) + 1)
        /\ UNCHANGED <<size, reported>>

Report == /\ Len(copied) = size
          /\ reported' = TRUE
          /\ UNCHANGED <<size, copied>>

Next == Copy \/ Report

Spec == Init /\ [][Next]_vars
=============================================================================

----------------------------- MODULE MCBlockWrite -----------------------------
(***************************************************************************)
(* BlockWrite on a small instance: bytes have three values, so a segment   *)
(* and a packet have three bytes and blocks of up to eight bytes take up   *)
(* to three segments, the last one full, short or a single byte.  The      *)
(* buffer starts one byte before a carry of the address, so the carry      *)
(* falls inside a segment, and has no byte to spare.                       *)
(***************************************************************************)
EXTENDS BlockWrite
=============================================================================

---------------------------- MODULE MCUpdiTimeout ----------------------------
(***************************************************************************)
(* UpdiTimeout with all commands, or with one.                             *)
(***************************************************************************)
EXTENDS UpdiTimeout

AllCommands == DOMAIN Program
OnlyStop    == {"STOP"}
OnlyGetByte == {"GETBYTE"}
=============================================================================

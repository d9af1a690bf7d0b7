---------------------------- MODULE SerialProtocol ----------------------------
(***************************************************************************)
(* The codes of SerialProtocol.h, one copy of which is compiled into the   *)
(* controller and one into the firmware.  Commands, replies and data share *)
(* one byte stream: nothing but position tells a command from a data byte  *)
(* of the same value.                                                      *)
(***************************************************************************)
EXTENDS Naturals

CMD_NONE             == 0
CMD_SENDBYTE         == 161
CMD_SENDBLOCK        == 162
CMD_GETBYTE          == 168
CMD_GETBLOCK         == 169
CMD_SETADDR          == 160
CMD_CHIPERASE        == 150
CMD_FLASH_PAGE_ERASE == 43
CMD_FLASH_WR_EN      == 113
CMD_EEPROM_WR_EN     == 115
CMD_NVM_WR_DIS       == 120
CMD_RECOVER          == 178
CMD_START            == 193
CMD_SETBAUD          == 194
CMD_RESETTGT         == 206
CMD_STOP             == 207

\* What the switch of the command loop of main.cpp knows
Commands == {CMD_START, CMD_STOP, CMD_SENDBLOCK, CMD_GETBLOCK, CMD_GETBYTE, CMD_SENDBYTE,
             CMD_SETADDR, CMD_SETBAUD, CMD_FLASH_PAGE_ERASE, CMD_CHIPERASE,
             CMD_EEPROM_WR_EN, CMD_FLASH_WR_EN, CMD_NVM_WR_DIS, CMD_RESETTGT}

REPL_OK        == 208  \* Command performed successfully
REPL_INVALID   == 225  \* Invalid operation
REPL_ERROR     == 227  \* Unspecified error
REPL_TIMEOUT   == 232  \* UPDI response timed out
REPL_UPDINOACK == 233  \* UPDI did not ACK
REPL_UPDIRXERR == 234  \* UPDI receive error
REPL_ERASEFAIL == 239  \* Erase failed
REPL_ACK       == 165  \* Data acknowledged

FailureReplies == {REPL_ERROR, REPL_TIMEOUT, REPL_UPDINOACK, REPL_UPDIRXERR, REPL_ERASEFAIL}
=============================================================================

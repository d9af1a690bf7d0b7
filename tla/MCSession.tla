------------------------------- MODULE MCSession -------------------------------
(***************************************************************************)
(* Session on small instances.  The jobs are what the operations of        *)
(* Operation.cpp make of the calls: chip erase, write and verify; page     *)
(* erase and write; EEPROM write by bytes and read back.  Segments and     *)
(* packets have three bytes, so a block of four takes two of them, the     *)
(* second short.                                                           *)
(***************************************************************************)
EXTENDS SessionInvariant

Begin == << Call(CMD_START), Call(CMD_SETBAUD) >>
End   == << Call(CMD_STOP) >>

FlashJob == Begin \o << Call(CMD_CHIPERASE), Call(CMD_FLASH_WR_EN), Call(CMD_SETADDR),
              Block(CMD_SENDBLOCK, 4), Call(CMD_NVM_WR_DIS), Call(CMD_SETADDR),
              Block(CMD_GETBLOCK, 2) >> \o End

PageJob == Begin \o << Block(CMD_FLASH_PAGE_ERASE, 2), Call(CMD_FLASH_WR_EN),
              Call(CMD_SETADDR), Block(CMD_SENDBLOCK, 3), Call(CMD_NVM_WR_DIS) >> \o End

EepromJob == Begin \o << Call(CMD_EEPROM_WR_EN), Call(CMD_SENDBYTE), Call(CMD_NVM_WR_DIS),
              Call(CMD_GETBYTE) >> \o End

AllJobs      == {FlashJob, PageJob, EepromJob}
OneFlashJob  == {FlashJob}
OnePageJob   == {PageJob}
OneEepromJob == {EepromJob}

TargetFaults  == {"noack", "timeout", "masked", "error", "rxerr", "erasefail", "badstatus"}
AllFaults     == TargetFaults \cup {"crash", "late", "lost", "lostreply"}
NoAcks        == {"noack"}
Masked        == {"masked"}

\* A byte that is no command, the code of chip erase, and that of a command with data
SomeBytes == {7, CMD_CHIPERASE}
AnyBytes  == SomeBytes \cup {CMD_SENDBLOCK}
=============================================================================

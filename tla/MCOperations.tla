------------------------------ MODULE MCOperations ------------------------------
(***************************************************************************)
(* Operations on a small device: two cells of RAM, two of EEPROM, and      *)
(* three flash pages of two cells, which begin at address 4.  Rates are    *)
(* those of config.cfg.                                                    *)
(***************************************************************************)
EXTENDS Operations, TLC

RamCells    == 0 .. 1
EepromCells == 2 .. 3
FlashCells  == 4 .. 9
Bytes       == {1, 2, CMD_CHIPERASE, CMD_START}

Device ==
  "sram"   :> [address |-> 0, type |-> "ram", erase |-> "dont"] @@
  "eeprom" :> [address |-> 2, type |-> "eeprom", erase |-> "dont"] @@
  "flash"  :> [address |-> 4, type |-> "flash", erase |-> "chip"] @@
  "row"    :> [address |-> 8, type |-> "flash", erase |-> "page"]

Named(name) == [hex |-> FALSE, name |-> name]
At(a)       == [hex |-> TRUE, at |-> a]
File(image) == [hex |-> FALSE, image |-> image]
Byte(b)     == [hex |-> TRUE, byte |-> b]
From(a, data) == [address |-> a, data |-> data]

W(dest, data) == [tag |-> "W", dest |-> dest, data |-> data,
                  type |-> "", erase |-> "", baud |-> 0, verify |-> TRUE]
V(dest, data) == [tag |-> "V", dest |-> dest, data |-> data]
R(dest)       == [tag |-> "R", dest |-> dest]
Erase         == [tag |-> "E"]

Paged(w)    == [w EXCEPT !.erase = "page"]
AsFlash(w)  == [w EXCEPT !.type = "flash"]

\* An erase, and a store with the command for one selected
Strays == {EraseChip, Select("FLPER"), PutAt(4, CMD_START)}

\* Two sections, the second of one byte: chip erase, the limit of the rate, verify
ChipJob == << W(Named("flash"), File(<< From(0, <<1, 2, 1>>), From(5, <<2>>) >>)) >>

\* A section of one page, one that spans two, one within the last page of that
PageJob == << Paged(W(Named("flash"), File(<< From(0, <<2>>), From(3, <<1, 2>>),
                                              From(5, <<1>>) >>))) >>

\* The second begins where the first ends, and so does its page
NextPageJob == << Paged(W(Named("flash"), File(<< From(1, <<1>>), From(2, <<2>>) >>))) >>

\* A chain over all memories
ChainJob == << Erase, W(Named("eeprom"), Byte(CMD_CHIPERASE)), W(Named("row"), File(<< From(0, <<1>>) >>)),
               W(Named("sram"), File(<< From(0, <<2, 1>>) >>)), R(Named("flash")),
               V(Named("row"), File(<< From(0, <<1>>) >>)) >>

\* Direct addresses: of no memory type, and flash that does not begin with a page
DirectJob   == << W(At(1), Byte(1)), V(At(1), Byte(1)), R(At(4)), W(At(6), Byte(2)) >>
UnalignedJob == << Paged(AsFlash(W(At(5), File(<< From(0, <<1>>), From(1, <<2, 1>>) >>)))) >>

\* Rates the user asks for: too high for flash, and too high for UPDI_init
FastJob == << [ChipJob[1] EXCEPT !.baud = 400000], [PageJob[1] EXCEPT !.baud = 3000000] >>

AllJobs == {ChipJob, PageJob, NextPageJob, ChainJob, DirectJob, UnalignedJob, FastJob}

\* Two bytes of EEPROM, and a hexadecimal operand
EepromJobs == {<< W(Named("eeprom"), File(<< From(0, <<1, 2>>) >>)) >>}
DirectJobs == {DirectJob}
=============================================================================

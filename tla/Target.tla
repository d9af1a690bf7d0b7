-------------------------------- MODULE Target --------------------------------
(***************************************************************************)
(* The target's memories and its NVM controller, as far as FastUPDI relies *)
(* on them.  The target is external: what is said here is what NVM.h names *)
(* and the code assumes.                                                   *)
(***************************************************************************)
EXTENDS Naturals

CONSTANTS
  Ram, Eeprom, Flash,  \* the addresses of each kind of memory
  PageSize,            \* flashPageSize
  Data                 \* the bytes images are made of

Blank == 255  \* an erased cell
Mixed == 0    \* what is left of two different bytes in one flash cell
Cells == Ram \cup Eeprom \cup Flash
Values == Data \cup {Blank, Mixed}

ASSUME TargetAssumption ==
  /\ Cells \subseteq Nat /\ PageSize \in Nat \ {0}
  /\ Ram \cap Eeprom = {} /\ Ram \cap Flash = {} /\ Eeprom \cap Flash = {}
  /\ Data \subseteq 0 .. 255 /\ Mixed \notin Data /\ Blank \notin Data
  /\ \A c \in Flash : (c \div PageSize) * PageSize \in Flash  \* flash begins with a page

VARIABLES
  mem,  \* what the cells hold
  nvm,  \* NVMCTRL_CTRLA: the command selected
  ptr   \* the pointer of ST and LD

tgtVars == <<mem, nvm, ptr>>

\* A used target: no flash cell can be written before it is erased
TgtInit == mem = [c \in Cells |-> Mixed] /\ nvm = "NONE" /\ ptr = 0

NvmCommands == {"NONE", "NOOP", "FLWR", "FLPER", "EEERWR"}
Passive     == {"NONE", "NOOP"}

\* A command is not taken while another one is selected: NVMCTRL_ERROR_DOUBLESELECT
DoubleSelect(cmd) == cmd \notin Passive /\ nvm \notin Passive
Selected(cmd) == IF DoubleSelect(cmd) THEN nvm ELSE cmd

PageOf(a) == {c \in Flash : c \div PageSize = a \div PageSize}
Blanked(cells) == [c \in Cells |-> IF c \in cells THEN Blank ELSE mem[c]]

\* Flash bits can only be cleared
Programmed(old, new) ==
  IF old = Blank THEN new ELSE IF new \in {old, Blank} THEN old ELSE Mixed

\* What a store of v may make of the memory.  It may come too early for the NVM.
Stored(a, v, early) ==
  CASE a \in Ram                      -> {[mem EXCEPT ![a] = v]}
    [] a \in Eeprom /\ nvm = "EEERWR" -> {[mem EXCEPT ![a] = v]} \cup IF early THEN {mem} ELSE {}
    [] a \in Flash /\ nvm = "FLWR"    -> {[mem EXCEPT ![a] = Programmed(@, v)]}
                                            \cup IF early THEN {mem} ELSE {}
    [] a \in Flash /\ nvm = "FLPER"   -> {Blanked(PageOf(a))}
    [] OTHER                          -> {mem}

\* Whether chip erase takes the EEPROM along is a fuse of the target
ChipErased == {Blanked(Flash), Blanked(Flash \cup Eeprom)}
=============================================================================

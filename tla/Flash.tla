------------------------------- MODULE Flash -------------------------------
(***************************************************************************)
(* NOR flash as the commands of armboot see it: the table flash_info[],    *)
(* the sector protection kept in it, and the calls common/flash.c makes on *)
(* a board's driver (flash_erase, write_buff).  A driver call is not one   *)
(* step: sectors are erased and half-words programmed one at a time, a     *)
(* chip may report an error at each of them, the user may press ^C between *)
(* two sectors, and the power may fail anywhere.                           *)
(*                                                                         *)
(* The module has no specification of its own.  FlashCmd (the commands     *)
(* erase, protect and cp) and EnvStore (saveenv) extend it and call it.    *)
(*                                                                         *)
(* A number names the address of one cell, the unit write_buff programs (a half-word on *)
(* the EPXA boards); byte merging at unaligned ends is not in this module. *)
(***************************************************************************)
EXTENDS Integers, FiniteSets

CONSTANTS
    Banks,      \* CFG_MAX_FLASH_BANKS; banks are numbered from 1
    NSect,      \* [bank -> sector_count]; every board knows its flash
    Start,      \* [sector -> address of its first cell], info->start[]
    End,       \* [sector -> address of its last cell]
    Value,      \* contents of a cell
    Erased,     \* the contents an erase leaves (all bits one)
    Noise,      \* what an interrupted erase or program may leave
    Fits,       \* pairs <<old, new>> with (old & new) == new
    BootProtect \* the sectors flash_init protects: monitor and environment

Bank == 1..Banks

Sector == UNION {{b} \X (0..NSect[b] - 1) : b \in Bank}

SectorsOf(b) == {x \in Sector : x[1] = b}

CellsOf(x) == Start[x]..End[x]

Addr == UNION {CellsOf(x) : x \in Sector}

ASSUME GeometryAssumption ==
    /\ Banks \in Nat \ {0}
    /\ NSect \in [Bank -> Nat \ {0}]
    /\ Start \in [Sector -> Nat]
    /\ End \in [Sector -> Nat]
    /\ \A x \in Sector : Start[x] <= End[x]

(* Sectors do not overlap and are listed in address order, banks included   *)
(* (PHYS_FLASH_1 < PHYS_FLASH_2 in every configuration).  Banks need not be *)
(* contiguous: on lubbock and impa7 they are not.                           *)
ASSUME OrderAssumption ==
    \A x, y \in Sector :
        x[1] < y[1] \/ (x[1] = y[1] /\ x[2] < y[2]) => End[x] < Start[y]

ASSUME ValueAssumption ==
    /\ Erased \in Value
    /\ Noise \subseteq Value
    /\ Fits \subseteq Value \X Value
    /\ BootProtect \subseteq Sector

-----------------------------------------------------------------------------
(* Return codes of include/flash.h. *)
ERR_OK == 0
ERR_TIMOUT == -1
ERR_NOT_ERASED == -2
ERR_PROTECTED == -3
ERR_INVAL == -4
ERR_ALIGN == -5
ERR_PROG_ERROR == -8

DriverErrors == {ERR_TIMOUT, ERR_PROG_ERROR}

VARIABLES
    protect,            \* info->protect[]
    cell,               \* the array itself
    drv,                \* the driver call in progress
    rc,                 \* what the last flash call returned
    ctrlc_was_pressed   \* common/console.c

flashVars == <<protect, cell, drv, rc, ctrlc_was_pressed>>

Idle == [op |-> "idle"]

(* An erase of sectors at..last of a bank; "reported" is the count          *)
(* flash_sect_erase returns in place of the driver's code (0: none).        *)
EraseCall == [op : {"erase"}, bank : Bank, at : Nat, last : Nat, reported : Nat]

(* A copy of data[at..last] to the cells of the same addresses.             *)
WriteCall == [op : {"write"}, at : Nat, last : Nat, data : [Addr -> Value]]

FlashTypeOK ==
    /\ protect \in [Sector -> BOOLEAN]
    /\ cell \in [Addr -> Value]
    /\ drv \in {Idle} \cup EraseCall \cup WriteCall
    /\ rc \in Int
    /\ ctrlc_was_pressed \in BOOLEAN

FlashInit ==
    /\ protect = [x \in Sector |-> x \in BootProtect]
    /\ cell \in [Addr -> Value]
    /\ drv = Idle
    /\ rc = ERR_OK
    /\ ctrlc_was_pressed = FALSE

-----------------------------------------------------------------------------
(* Address arithmetic of common/flash.c. *)

(* Mutation: the last cell of the range is not looked at. *)
OverlapsShort(x, from, to) == from <= End[x] /\ to > Start[x]

Overlaps(x, from, to) == from <= End[x] /\ to >= Start[x]

(* The whole sectors of one bank a range consists of; empty when an end of  *)
(* the range is not on a sector boundary of the bank.                       *)
WholeSectors(b, from, to) ==
    {x \in SectorsOf(b) :
        \E f, l \in SectorsOf(b) :
            /\ Start[f] = from /\ End[l] = to
            /\ f[2] <= x[2] /\ x[2] <= l[2]}

InBank(b, a) ==
    Start[<<b, 0>>] <= a /\ a <= End[<<b, NSect[b] - 1>>]

(* addr2info: the banks that claim an address (the code takes the first). *)
BanksAt(a) == {b \in Bank : InBank(b, a)}

Addr2Info(a) == CHOOSE b \in BanksAt(a) : \A c \in BanksAt(a) : b <= c

-----------------------------------------------------------------------------
(* Protection: table updates, no access to the chip. *)

SetProtect(xs, p) == [x \in Sector |-> IF x \in xs THEN p ELSE protect[x]]

(* flash_sect_protect *)
SectProtected(from, to) == UNION {WholeSectors(b, from, to) : b \in Bank}

FlashSectProtect(p, from, to) ==
    /\ drv = Idle
    /\ protect' = SetProtect(SectProtected(from, to), p)
    /\ rc' = IF SectProtected(from, to) = {} THEN ERR_ALIGN ELSE ERR_OK
    /\ UNCHANGED <<cell, drv, ctrlc_was_pressed>>

-----------------------------------------------------------------------------
Return(code, reported) ==
    /\ drv' = Idle
    /\ rc' = IF reported > 0 THEN reported ELSE code

(* What the chip is busy with: the sector being erased or the cell being    *)
(* programmed.                                                              *)
Exposed ==
    {a \in Addr :
        \/ /\ drv.op = "erase" /\ drv.at <= drv.last
           /\ a \in CellsOf(<<drv.bank, drv.at>>)
        \/ /\ drv.op = "write" /\ drv.at <= drv.last
           /\ a = drv.at}

(* An operation that is cut short leaves noise in some of those cells.      *)
Disturb ==
    \E hit \in SUBSET Exposed : \E left \in [hit -> Noise] :
        cell' = [a \in Addr |-> IF a \in hit THEN left[a] ELSE cell[a]]

-----------------------------------------------------------------------------
(* The erase path. *)

(* Mutation: the loop starts at the first sector of the bank. *)
FlashEraseFromZero(b, f, l, reported) ==
    /\ drv = Idle
    /\ drv' = [op |-> "erase", bank |-> b, at |-> 0, last |-> l, reported |-> reported]
    /\ UNCHANGED <<protect, cell, ctrlc_was_pressed, rc>>

(* int_flash_erase / amd_flash_erase: every sector is checked before the    *)
(* first one is touched.                                                    *)
FlashErase(b, f, l, reported) ==
    LET target == {x \in SectorsOf(b) : x[2] \in f..l}
    IN  /\ drv = Idle
        /\ UNCHANGED <<protect, cell, ctrlc_was_pressed>>
        /\ \/ (\E x \in target : protect[x]) /\ Return(ERR_PROTECTED, reported)
           \/ /\ \A x \in target : ~protect[x]
              /\ drv' = [op |-> "erase", bank |-> b, at |-> f, last |-> l,
                         reported |-> reported]
              /\ UNCHANGED rc

(* flash_sect_erase: only a range made of whole sectors of one bank reaches *)
(* the driver; any other one returns 0.                                     *)
FlashSectErase(from, to) ==
    \/ \E b \in Bank : \E f, l \in 0..NSect[b] - 1 :
          /\ Start[<<b, f>>] = from /\ End[<<b, l>>] = to /\ f <= l
          /\ FlashErase(b, f, l, l - f + 1)
    \/ /\ drv = Idle
       /\ \A b \in Bank : WholeSectors(b, from, to) = {}
       /\ Return(ERR_OK, 0)
       /\ UNCHANGED <<protect, cell, ctrlc_was_pressed>>

(* One turn of the loop over the sectors. *)
EraseSector ==
    /\ drv.op = "erase" /\ drv.at <= drv.last
    /\ cell' = [a \in Addr |->
                  IF a \in CellsOf(<<drv.bank, drv.at>>) THEN Erased ELSE cell[a]]
    /\ drv' = [drv EXCEPT !.at = @ + 1]
    /\ UNCHANGED <<protect, rc, ctrlc_was_pressed>>

(* Mutation: the error of a sector is dropped and the loop goes on. *)
EraseErrorIgnored ==
    /\ drv.op = "erase" /\ drv.at <= drv.last
    /\ Disturb
    /\ drv' = [drv EXCEPT !.at = @ + 1]
    /\ UNCHANGED <<protect, rc, ctrlc_was_pressed>>

(* The chip reports an error, or the wait for it times out. *)
EraseError ==
    /\ drv.op = "erase" /\ drv.at <= drv.last
    /\ Disturb
    /\ \E e \in DriverErrors : Return(e, drv.reported)
    /\ UNCHANGED <<protect, ctrlc_was_pressed>>

(* ^C is polled before each sector and ends the loop; rc is still that of   *)
(* the last sector erased, ERR_OK.                                          *)
EraseCtrlC ==
    /\ drv.op = "erase" /\ drv.at <= drv.last
    /\ ctrlc_was_pressed' = TRUE
    /\ Return(ERR_OK, drv.reported)
    /\ UNCHANGED <<protect, cell>>

(* After the loop ^C is polled once more, for the message only. *)
EraseReturn ==
    /\ drv.op = "erase" /\ drv.at > drv.last
    /\ ctrlc_was_pressed' \in {ctrlc_was_pressed, TRUE}
    /\ Return(ERR_OK, drv.reported)
    /\ UNCHANGED <<protect, cell>>

-----------------------------------------------------------------------------
(* The write path. *)

(* flash_write: both ends must be in flash, and no sector of the banks      *)
(* between them that meets the range may be protected.                      *)
FlashWrite(data, from, to) ==
    LET inside == BanksAt(from) # {} /\ BanksAt(to) # {}
        hit == {x \in Sector : /\ x[1] \in Addr2Info(from)..Addr2Info(to)
                               /\ Overlaps(x, from, to)
                               /\ protect[x]}
    IN  /\ drv = Idle
        /\ UNCHANGED <<protect, cell, ctrlc_was_pressed>>
        /\ \/ to < from /\ Return(ERR_OK, 0)
           \/ from <= to /\ ~inside /\ Return(ERR_INVAL, 0)
           \/ from <= to /\ inside /\ hit # {} /\ Return(ERR_PROTECTED, 0)
           \/ /\ from <= to /\ inside /\ hit = {}
              /\ drv' = [op |-> "write", at |-> from, last |-> to, data |-> data]
              /\ UNCHANGED rc

Fitting == drv.at \in Addr => <<cell[drv.at], drv.data[drv.at]>> \in Fits

(* write_word / write_hword: a cell that still has the ones the data needs  *)
(* is programmed.  Between two banks there is no cell to program.           *)
WriteCell ==
    /\ drv.op = "write" /\ drv.at <= drv.last
    /\ Fitting
    /\ cell' = [a \in Addr |-> IF a = drv.at THEN drv.data[a] ELSE cell[a]]
    /\ drv' = [drv EXCEPT !.at = @ + 1]
    /\ UNCHANGED <<protect, rc, ctrlc_was_pressed>>

(* Mutation: a cell that cannot be programmed is skipped. *)
WriteNotErasedSkipped ==
    /\ drv.op = "write" /\ drv.at <= drv.last
    /\ ~Fitting
    /\ drv' = [drv EXCEPT !.at = @ + 1]
    /\ UNCHANGED <<protect, cell, rc, ctrlc_was_pressed>>

WriteNotErased ==
    /\ drv.op = "write" /\ drv.at <= drv.last
    /\ ~Fitting
    /\ Return(ERR_NOT_ERASED, 0)
    /\ UNCHANGED <<protect, cell, ctrlc_was_pressed>>

WriteError ==
    /\ drv.op = "write" /\ drv.at <= drv.last
    /\ Disturb
    /\ \E e \in DriverErrors : Return(e, 0)
    /\ UNCHANGED <<protect, ctrlc_was_pressed>>

WriteReturn ==
    /\ drv.op = "write" /\ drv.at > drv.last
    /\ Return(ERR_OK, 0)
    /\ UNCHANGED <<protect, cell, ctrlc_was_pressed>>

-----------------------------------------------------------------------------
DriverStep ==
    \/ EraseSector \/ EraseError \/ EraseCtrlC \/ EraseReturn
    \/ WriteCell \/ WriteNotErased \/ WriteError \/ WriteReturn

(* Mutation: flash_init does not clear the table before it protects. *)
FlashResetUncleared ==
    /\ Disturb
    /\ protect' = [x \in BootProtect |-> TRUE]
    /\ drv' = Idle
    /\ rc' = ERR_OK
    /\ ctrlc_was_pressed' = FALSE

(* Power failure or reset, followed by flash_init. *)
FlashReset ==
    /\ Disturb
    /\ protect' = [x \in Sector |-> x \in BootProtect]
    /\ drv' = Idle
    /\ rc' = ERR_OK
    /\ ctrlc_was_pressed' = FALSE

-----------------------------------------------------------------------------
(* What the checks made before the first step leave true until the last:    *)
(* the driver has no protected sector ahead of it.                          *)
DriverSafe ==
    /\ drv.op = "erase" =>
          /\ drv.last < NSect[drv.bank]
          /\ \A x \in SectorsOf(drv.bank) : x[2] \in drv.at..drv.last => ~protect[x]
    /\ drv.op = "write" =>
          \A x \in Sector : Overlaps(x, drv.at, drv.last) => ~protect[x]

(* No step modifies a sector that is protected when it is taken: neither    *)
(* flash_erase nor flash_write reaches one, although each looks at the      *)
(* table once, before the many steps that rely on it (common/flash.c:119,   *)
(* flash_int.c:288).                                                        *)
ProtectedKept ==
    [][\A x \in Sector :
         protect[x] => \A a \in CellsOf(x) : cell'[a] = cell[a]]_flashVars
=============================================================================

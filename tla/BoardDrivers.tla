----------------------------- MODULE BoardDrivers -----------------------------
(***************************************************************************)
(* The flash drivers of the boards (board/*/flash*.c) as what they do on   *)
(* the bus.  flash_erase and write_word have one shape on all boards:      *)
(* commands, a loop that polls the chips until they are ready or the timer *)
(* says it is too late, more commands, and a judgement of the last status. *)
(* What differs is in these records:                                       *)
(*                                                                         *)
(*   before   commands up to the loop         late   commands at a time-out *)
(*   after    commands behind the loop        early  may the time-out be    *)
(*   leaves   a time-out skips "after"               seen before the status *)
(*   judge    how success is told from failure                             *)
(*                                                                         *)
(* "off" and "on" among the commands are disable_interrupts and            *)
(* enable_interrupts; "read" reads the status once more.                   *)
(*                                                                         *)
(*   judge = "status"   flash_error or a test of the bits, after the loop  *)
(*           "none"     the status is not looked at                        *)
(*           "busy"     it is looked at only while a chip is not ready     *)
(*           "again"    by the "read" behind the loop                      *)
(*           "data"     AMD: DQ5 in the loop, then the data are read back  *)
(***************************************************************************)
EXTENDS Sequences

(* write_buff of a board: the unit it programs, in bytes; whether the       *)
(* blocks are unlocked before; whether the value read for the check is      *)
(* unshuffled although the data are not (lart).                             *)
Buff(width) == [width |-> width, unlocks |-> FALSE]

-----------------------------------------------------------------------------
(* Intel chips, the bits of the status tested by flash_error. *)

(* Mutation: the status is not reset. *)
LartEraseUnreset ==
    [before |-> <<"erase", "confirm">>, early |-> TRUE,
     late |-> <<"suspend">>, leaves |-> FALSE, after |-> <<"array">>, judge |-> "status"]

LartErase ==
    [before |-> <<"clear", "erase", "confirm">>, early |-> TRUE,
     late |-> <<"suspend">>, leaves |-> FALSE, after |-> <<"array">>, judge |-> "status"]

(* Mutation: the chips are not set to read their array. *)
LartWriteStatus ==
    [before |-> <<"off", "clear", "program", "data">>, early |-> TRUE,
     late |-> <<"suspend">>, leaves |-> FALSE, after |-> <<"on">>,
     judge |-> "status"]

LartWrite ==
    [before |-> <<"off", "clear", "program", "data">>, early |-> TRUE,
     late |-> <<"suspend">>, leaves |-> FALSE, after |-> <<"array", "on">>,
     judge |-> "status"]

LartBuff == Buff(4)

Dnp1110Erase == LartErase
Dnp1110Write == LartWrite
Dnp1110Buff == Buff(4)

(* The reset of the status is commented out; a time-out of an erase does    *)
(* not suspend it; interrupts are enabled before the array is read again.   *)
SamsungErase ==
    [before |-> <<"erase", "confirm">>, early |-> TRUE,
     late |-> <<"clear">>, leaves |-> FALSE,
     after |-> <<"status", "array", "resume">>, judge |-> "status"]

SamsungWrite ==
    [before |-> <<"off", "program", "data">>, early |-> TRUE,
     late |-> <<"suspend">>, leaves |-> FALSE,
     after |-> <<"status", "read", "on", "array", "resume">>, judge |-> "again"]

SamsungBuff == Buff(4)

(* The EPXA boards: blocks are locked at power-up and unlocked by the driver. *)
KipdcsIntErase ==
    [before |-> <<"config", "unlock", "clear", "erase", "confirm">>, early |-> TRUE,
     late |-> <<"suspend">>, leaves |-> FALSE,
     after |-> <<"config", "unlock", "array">>, judge |-> "status"]

KipdcsIntWrite == LartWrite
KipdcsIntBuff == [width |-> 2, unlocks |-> TRUE]

KipcharmIntErase == KipdcsIntErase
KipcharmIntWrite == LartWrite
KipcharmIntBuff == [width |-> 2, unlocks |-> TRUE]

Epxa1dbIntErase == KipdcsIntErase
Epxa1dbIntWrite == LartWrite
Epxa1dbIntBuff == [width |-> 2, unlocks |-> TRUE]

-----------------------------------------------------------------------------
(* Intel chips, the status tested in place. *)

(* Nobody looks at the error bits of an erase, nor at those of a write once *)
(* both chips are ready.                                                    *)
Impa7Erase ==
    [before |-> <<"erase", "confirm">>, early |-> FALSE,
     late |-> <<"suspend", "array">>, leaves |-> TRUE, after |-> <<"array">>, judge |-> "none"]

Impa7Write ==
    [before |-> <<"off", "clear", "program", "data", "status">>, early |-> FALSE,
     late |-> <<"suspend">>, leaves |-> FALSE, after |-> <<"array", "on">>,
     judge |-> "busy"]

Impa7Buff == Buff(4)

Ep7312Erase ==
    [before |-> <<"erase", "confirm">>, early |-> FALSE,
     late |-> <<"suspend", "array">>, leaves |-> TRUE,
     after |-> <<"clear", "array">>, judge |-> "none"]

(* Mutation: the error bits are looked at while the chip is busy only. *)
Ep7312WriteBusy ==
    [before |-> <<"off", "clear", "program", "data">>, early |-> FALSE,
     late |-> <<"suspend">>, leaves |-> FALSE, after |-> <<"array", "on">>,
     judge |-> "busy"]

Ep7312Write ==
    [before |-> <<"off", "clear", "program", "data">>, early |-> FALSE,
     late |-> <<"suspend">>, leaves |-> FALSE, after |-> <<"array", "on">>,
     judge |-> "status"]

Ep7312Buff == Buff(2)

LubbockErase == Ep7312Erase
LubbockWrite == Ep7312Write
LubbockBuff == Buff(2)

CradleErase == Ep7312Erase
CradleWrite == Ep7312Write
CradleBuff == Buff(2)

-----------------------------------------------------------------------------
(* AMD chips.  The unlock cycles are part of the command they precede; a    *)
(* chip that is busy takes no command, so "array" at a time-out does        *)
(* nothing.                                                                 *)

ShannonErase ==
    [before |-> <<"erase", "confirm">>, early |-> TRUE,
     late |-> <<"array">>, leaves |-> FALSE, after |-> <<"array">>, judge |-> "status"]

ShannonWrite ==
    [before |-> <<"off", "program", "data">>, early |-> TRUE,
     late |-> <<>>, leaves |-> FALSE, after |-> <<"array", "on">>, judge |-> "data"]

ShannonBuff == Buff(4)

Smdk2410Erase == ShannonErase
Smdk2410Write == ShannonWrite
Smdk2410Buff == Buff(2)

KipdcsAmdErase == ShannonErase
KipdcsAmdWrite == ShannonWrite
KipdcsAmdBuff == Buff(2)

KipcharmAmdErase == ShannonErase
KipcharmAmdWrite == ShannonWrite
KipcharmAmdBuff == Buff(2)

Epxa1dbAmdErase == ShannonErase
Epxa1dbAmdWrite == ShannonWrite
Epxa1dbAmdBuff == Buff(2)

-----------------------------------------------------------------------------
Driver(family, erase, write, buff) ==
    [family |-> family, erase |-> erase, write |-> write, buff |-> buff]

(* The driver that is linked for a board (on the EPXA boards, the one        *)
(* flash_init chose by the chip's answer).                                   *)
DriverOf(board) ==
    CASE board = "lart" -> Driver("intel", LartErase, LartWrite, LartBuff)
      [] board = "dnp1110" -> Driver("intel", Dnp1110Erase, Dnp1110Write, Dnp1110Buff)
      [] board = "samsung" -> Driver("intel", SamsungErase, SamsungWrite, SamsungBuff)
      [] board = "kipdcs_int" -> Driver("intel", KipdcsIntErase, KipdcsIntWrite, KipdcsIntBuff)
      [] board = "kipcharm_int" ->
            Driver("intel", KipcharmIntErase, KipcharmIntWrite, KipcharmIntBuff)
      [] board = "epxa1db_int" ->
            Driver("intel", Epxa1dbIntErase, Epxa1dbIntWrite, Epxa1dbIntBuff)
      [] board = "impa7" -> Driver("intel", Impa7Erase, Impa7Write, Impa7Buff)
      [] board = "ep7312" -> Driver("intel", Ep7312Erase, Ep7312Write, Ep7312Buff)
      [] board = "lubbock" -> Driver("intel", LubbockErase, LubbockWrite, LubbockBuff)
      [] board = "cradle" -> Driver("intel", CradleErase, CradleWrite, CradleBuff)
      [] board = "shannon" -> Driver("amd", ShannonErase, ShannonWrite, ShannonBuff)
      [] board = "smdk2410" -> Driver("amd", Smdk2410Erase, Smdk2410Write, Smdk2410Buff)
      [] board = "kipdcs_amd" -> Driver("amd", KipdcsAmdErase, KipdcsAmdWrite, KipdcsAmdBuff)
      [] board = "kipcharm_amd" ->
            Driver("amd", KipcharmAmdErase, KipcharmAmdWrite, KipcharmAmdBuff)
      [] board = "epxa1db_amd" ->
            Driver("amd", Epxa1dbAmdErase, Epxa1dbAmdWrite, Epxa1dbAmdBuff)
=============================================================================

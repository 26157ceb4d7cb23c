------------------------------ MODULE FlashCmd ------------------------------
(***************************************************************************)
(* The commands that modify flash: erase (do_flerase), protect             *)
(* (do_protect) and cp with a destination in flash (do_mem_cp).  A command *)
(* runs to its end before the next one is read; the board may be reset, or *)
(* lose power, at any time.                                                *)
(***************************************************************************)
EXTENDS Flash

CONSTANTS
    Ranges,     \* the <<addr_first, addr_last>> the user may type
    Sources     \* what the RAM given to cp may hold: functions on Addr

ASSUME CommandAssumption ==
    /\ Ranges \subseteq Nat \X Nat
    /\ Sources \subseteq [Addr -> Value]

VARIABLES
    cmd,        \* the last command and its arguments
    status      \* "ready" at the prompt, "running", then "ok" (0) or "failed" (1)

cmdVars == <<cmd, status>>
vars == <<protect, cell, drv, rc, ctrlc_was_pressed, cmd, status>>

NoCommand == [name |-> "none"]

Status(code) == IF code < 0 THEN "failed" ELSE "ok"

TypeOK ==
    /\ FlashTypeOK
    /\ cmd \in {NoCommand}
            \cup [name : {"erase", "protect"}, from : Nat, to : Nat]
            \cup [name : {"erase_sectors"}, bank : Bank, f : Nat, l : Nat]
            \cup [name : {"erase_all"}, bank : Bank]
            \cup [name : {"cp"}, from : Nat, to : Nat, data : Sources]
    /\ status \in {"ready", "running", "ok", "failed"}

Init == FlashInit /\ cmd = NoCommand /\ status = "ready"

-----------------------------------------------------------------------------
(* erase <first> <last> *)
EraseRange(from, to) ==
    /\ status = "ready"
    /\ from < to
    /\ FlashSectErase(from, to)
    /\ cmd' = [name |-> "erase", from |-> from, to |-> to]
    /\ status' = "running"

(* erase N:f-l, and erase bank N, which is N:0-(sector_count - 1) *)
EraseSectors(b, f, l) ==
    /\ status = "ready"
    /\ f <= l
    /\ FlashErase(b, f, l, 0)
    /\ cmd' = [name |-> "erase_sectors", bank |-> b, f |-> f, l |-> l]
    /\ status' = "running"

(* erase all: bank after bank, up to the first error *)
EraseAll ==
    /\ status = "ready"
    /\ FlashErase(1, 0, NSect[1] - 1, 0)
    /\ cmd' = [name |-> "erase_all", bank |-> 1]
    /\ status' = "running"

EraseNextBank ==
    /\ status = "running" /\ cmd.name = "erase_all" /\ drv = Idle
    /\ rc >= 0 /\ cmd.bank < Banks
    /\ FlashErase(cmd.bank + 1, 0, NSect[cmd.bank + 1] - 1, 0)
    /\ cmd' = [cmd EXCEPT !.bank = @ + 1]
    /\ UNCHANGED status

(* protect on|off <first> <last> *)
ProtectRange(p, from, to) ==
    /\ status = "ready"
    /\ from < to
    /\ FlashSectProtect(p, from, to)
    /\ cmd' = [name |-> "protect", from |-> from, to |-> to]
    /\ status' = Status(rc')

(* protect on|off N:f-l, bank N, or all, which is every sector *)
ProtectSectors(p, xs) ==
    /\ status = "ready"
    /\ protect' = SetProtect(xs, p)
    /\ cmd' = NoCommand
    /\ status' = "ok"
    /\ UNCHANGED <<cell, drv, rc, ctrlc_was_pressed>>

(* cp: goes to flash_write when the destination is in a flash bank *)
CopyToFlash(data, from, to) ==
    /\ status = "ready"
    /\ BanksAt(from) # {}
    /\ FlashWrite(data, from, to)
    /\ cmd' = [name |-> "cp", from |-> from, to |-> to, data |-> data]
    /\ status' = "running"

(* Mutation: erase all does not leave the loop on an error. *)
CommandReturnAfterLastBank ==
    /\ status = "running" /\ drv = Idle
    /\ cmd.name = "erase_all" => cmd.bank = Banks
    /\ status' = Status(rc)
    /\ UNCHANGED <<protect, cell, drv, rc, ctrlc_was_pressed, cmd>>

(* The command prints the error, if any, and returns. *)
CommandReturn ==
    /\ status = "running" /\ drv = Idle
    /\ cmd.name = "erase_all" => rc < 0 \/ cmd.bank = Banks
    /\ status' = Status(rc)
    /\ UNCHANGED <<protect, cell, drv, rc, ctrlc_was_pressed, cmd>>

(* run_command starts with clear_ctrlc. *)
Prompt ==
    /\ status \in {"ok", "failed"}
    /\ status' = "ready"
    /\ cmd' = NoCommand
    /\ ctrlc_was_pressed' = FALSE
    /\ UNCHANGED <<protect, cell, drv, rc>>

Driver == DriverStep /\ UNCHANGED cmdVars

Reset == FlashReset /\ cmd' = NoCommand /\ status' = "ready"

Typed ==
    \/ \E r \in Ranges :
          \/ EraseRange(r[1], r[2])
          \/ \E p \in BOOLEAN : ProtectRange(p, r[1], r[2])
          \/ \E data \in Sources : CopyToFlash(data, r[1], r[2])
    \/ \E b \in Bank :
          \E f, l \in 0..NSect[b] - 1 :
             \/ EraseSectors(b, f, l)
             \/ \E p \in BOOLEAN :
                   f <= l /\ ProtectSectors(p, {x \in SectorsOf(b) : x[2] \in f..l})
    \/ EraseAll
    \/ \E p \in BOOLEAN : ProtectSectors(p, Sector)

Next ==
    \/ Typed \/ Prompt
    \/ EraseNextBank \/ CommandReturn \/ Driver
    \/ Reset

(* A driver call makes progress whatever the chip does, as every wait is    *)
(* bounded by CFG_FLASH_ERASE_TOUT; nobody has to type or to reset.         *)
Spec ==
    /\ Init /\ [][Next]_vars
    /\ WF_vars(Driver) /\ WF_vars(EraseNextBank) /\ WF_vars(CommandReturn)

-----------------------------------------------------------------------------
SectorsIn(from, to) == {x \in Sector : from <= Start[x] /\ End[x] <= to}

(* The cells the running command was asked to modify. *)
Target ==
    CASE cmd.name \in {"erase", "cp"} -> cmd.from..cmd.to
      [] cmd.name = "erase_sectors" ->
            UNION {CellsOf(x) : x \in {y \in SectorsOf(cmd.bank) : y[2] \in cmd.f..cmd.l}}
      [] cmd.name = "erase_all" -> Addr
      [] OTHER -> {}

(* A command modifies nothing outside the range it was given, whatever the  *)
(* chip reports and also when the power fails in the middle of it.          *)
OnlyTargetModified ==
    [][\A a \in Addr : cell'[a] # cell[a] => a \in Target]_vars

(* When cp says "done." the flash holds the source: a failed or skipped     *)
(* half-word in the middle of the copy cannot go unnoticed.                 *)
CopyComplete ==
    (status = "ok" /\ cmd.name = "cp") =>
        \A a \in Addr \cap (cmd.from..cmd.to) : cell[a] = cmd.data[a]

(* When erase N:f-l or erase all says "Done." every sector is erased, unless *)
(* the user pressed ^C, which ctrlc_was_pressed remembers.                   *)
EraseComplete ==
    (status = "ok" /\ cmd.name \in {"erase_sectors", "erase_all"} /\ ~ctrlc_was_pressed) =>
        \A a \in Target : cell[a] = Erased

(* Every command comes back to the prompt (or the board is reset).          *)
CommandEnds == status = "running" ~> status # "running"

(* flash.c:97: "Make sure all target addresses are within Flash bounds".    *)
(* The code does not: a copy over a gap between banks writes into the gap.  *)
WritesInFlash == drv.op = "write" /\ drv.at <= drv.last => drv.at \in Addr
=============================================================================

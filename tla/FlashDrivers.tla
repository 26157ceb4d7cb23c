----------------------------- MODULE FlashDrivers -----------------------------
(***************************************************************************)
(* The boards' flash drivers at work on their chips: two chips of 16 bits  *)
(* side by side, or one, that take commands, are busy for some time, may   *)
(* fail, and show their status or their contents on the same addresses.    *)
(* Flash.tla has the calls above them (protection, ^C, the table); here is *)
(* what happens on the bus between two sectors or two words.               *)
(*                                                                         *)
(* A byte is the set of its bits that are 1; programming clears bits.      *)
(***************************************************************************)
EXTENDS BoardDrivers, Integers, FiniteSets

CONSTANTS
    Boards,         \* some of those of DriverOf
    Sectors,        \* sectors are numbered from 0
    SectorSize,     \* bytes
    Bits,
    Puzzle,         \* lart: the lines the bits are moved to
    Contents,       \* of the flash at first
    Sources,        \* what is written: [address -> byte]
    Calls,          \* [op, from, to]: bytes of a write, sectors of an erase
    MaxCalls,
    MaxFaults       \* chips that fail and time-outs, together

Addr == 0..(Sectors * SectorSize - 1)

ASSUME DriversAssumption ==
    /\ Boards \subseteq
          {"lart", "dnp1110", "samsung", "kipdcs_int", "kipcharm_int", "epxa1db_int", "impa7",
           "ep7312", "lubbock", "cradle", "shannon", "smdk2410", "kipdcs_amd", "kipcharm_amd",
           "epxa1db_amd"}
    /\ Sectors \in Nat \ {0} /\ SectorSize \in Nat \ {0} /\ SectorSize % 4 = 0
    /\ Bits # {} /\ Puzzle \in [Bits -> Bits]
    /\ Contents \subseteq [Addr -> SUBSET Bits] /\ Sources \subseteq [Addr -> SUBSET Bits]
    /\ \A k \in Calls :
          /\ k = [op |-> k.op, from |-> k.from, to |-> k.to] /\ k.from <= k.to
          /\ \/ k.op = "write" /\ k.from \in Addr /\ k.to \in Addr
             \/ k.op = "erase" /\ k.from \in 0..(Sectors - 1) /\ k.to \in 0..(Sectors - 1)
    /\ MaxCalls \in Nat /\ MaxFaults \in Nat

VARIABLES
    board,
    chip,       \* [mode, busy, halted, error, job] of each chip
    cell,       \* contents
    locked,     \* the sectors locked in the chip (EPXA boards)
    irq,        \* are interrupts enabled
    call,       \* the call in progress, or the last one
    phase,
    todo,       \* commands to do in this phase
    seen,       \* what the status was judged to be
    rc,
    src,
    calls, faults,
    before      \* of the call: the contents, were the chips readable, did anything go wrong

vars == <<board, chip, cell, locked, irq, call, phase, todo, seen, rc, src, calls,
          faults, before>>

Nothing == "nothing"

D == DriverOf(board)
Part == IF call.op = "erase" THEN D.erase ELSE D.write
Width == D.buff.width
Chips == 1..(Width \div 2)
SectorOf(a) == a \div SectorSize
WordOf(a) == a - (a % Width)
Lane(a) == 1 + (a % Width) \div 2       \* the chip a byte is in
InSector(s) == {a \in Addr : SectorOf(a) = s}

ChipType(x) ==
    /\ x = [mode |-> x.mode, busy |-> x.busy, halted |-> x.halted, error |-> x.error,
            job |-> x.job]
    /\ x.mode \in {"array", "status", "erase", "program", "config"}
    /\ x.busy \in {Nothing, "erase", "program"} /\ x.halted \in {Nothing, "erase", "program"}
    /\ x.error \in BOOLEAN

CallType ==
    \/ call = [op |-> Nothing] /\ phase = "idle"
    \/ /\ call = [op |-> "erase", at |-> call.at, from |-> call.from, to |-> call.to]
       /\ call.from \in 0..(Sectors - 1) /\ call.to \in -1..(Sectors - 1)
       /\ call.at \in call.from..Sectors
    \/ /\ call = [op |-> "write", at |-> call.at, from |-> call.from, to |-> call.to,
                  word |-> call.word]
       /\ call.from \in Addr /\ call.to \in Addr
       /\ call.at \in Nat /\ call.at % Width = 0 /\ call.from < call.at + Width

TypeOK ==
    /\ board \in Boards
    /\ chip = [c \in Chips |-> chip[c]] /\ \A c \in Chips : ChipType(chip[c])
    /\ cell \in [Addr -> SUBSET Bits]
    /\ locked \subseteq 0..(Sectors - 1)
    /\ irq \in BOOLEAN
    /\ CallType
    /\ phase \in {"idle", "unlock", "unlocked", "unit", "before", "poll", "late", "after", "lock",
                 "locked"}
    /\ seen \in {"ok", "error", "late"}
    /\ rc \in {"OK", "NOT_ERASED", "PROG_ERROR", "TIMOUT"}
    /\ src \in [Addr -> SUBSET Bits]
    /\ calls \in Nat /\ faults \in Nat
    /\ before = [cell |-> before.cell, readable |-> before.readable, fault |-> before.fault,
                 halted |-> before.halted]
    /\ before.cell \in [Addr -> SUBSET Bits]
    /\ before.readable \in BOOLEAN /\ before.fault \in BOOLEAN /\ before.halted \in BOOLEAN

-----------------------------------------------------------------------------
(* The chips (data sheets). *)

Idle == [mode |-> "array", busy |-> Nothing, halted |-> Nothing, error |-> FALSE, job |-> <<>>]

Readable(c) ==
    /\ chip[c].mode = "array" /\ chip[c].busy = Nothing
    /\ D.family = "amd" => ~chip[c].error

(* A read of an address in a chip that does not show its contents gives its  *)
(* status: the bit that says ready, which in an AMD chip is the complement of *)
(* that bit of what the chip was told to leave there (DQ7, in the low byte).  *)
ReadyBit == CHOOSE b \in Bits : TRUE

Status(a) ==
    LET job == chip[Lane(a)].job
    IN  IF D.family = "amd" /\ a % 2 = 0 /\ a \in DOMAIN job THEN {ReadyBit} \ job[a]
        ELSE {ReadyBit}

Read(a) == IF Readable(Lane(a)) THEN cell[a] ELSE Status(a)

Refused(x) == [x EXCEPT !.mode = "status", !.error = TRUE]

IntelChip(x, cmd, lockedHere) ==
    IF x.busy # Nothing
      THEN IF cmd = "suspend"
             THEN [x EXCEPT !.halted = x.busy, !.busy = Nothing, !.mode = "status"]
             ELSE x
    ELSE CASE x.mode = "program" \/ (x.mode = "erase" /\ cmd = "confirm") ->
                IF lockedHere \/ x.halted # Nothing THEN Refused(x)
                ELSE [x EXCEPT !.busy = x.mode, !.mode = "status"]
           [] x.mode = "erase" /\ cmd # "confirm" -> Refused(x)
           [] x.mode = "config" -> [x EXCEPT !.mode = "status"]
           [] OTHER ->
                CASE cmd \in {"array", "status", "erase", "program", "config"} ->
                        [x EXCEPT !.mode = cmd]
                  [] cmd = "clear" -> [x EXCEPT !.error = FALSE]
                  [] cmd = "resume" /\ x.halted # Nothing ->
                        [x EXCEPT !.busy = x.halted, !.halted = Nothing, !.mode = "status"]
                  [] OTHER -> x

AmdChip(x, cmd) ==
    IF x.busy # Nothing THEN x
    ELSE IF cmd = "array" THEN [x EXCEPT !.mode = "array", !.error = FALSE, !.job = <<>>]
    ELSE IF x.error THEN x
    ELSE IF cmd \in {"erase", "program"} THEN [x EXCEPT !.mode = cmd]
    ELSE IF x.mode = "program" \/ (x.mode = "erase" /\ cmd = "confirm")
      THEN [x EXCEPT !.busy = x.mode, !.mode = "array"]
    ELSE x

(* What a chip is told to leave in which of its cells. *)
Job(c) ==
    [a \in {a \in Addr : Lane(a) = c /\ (IF call.op = "erase" THEN SectorOf(a) ELSE WordOf(a))
                                         = call.at} |->
        IF call.op = "erase" THEN Bits ELSE call.word[a - call.at]]

(* A command on the bus, to the address of the unit. *)
Bus(cmd) ==
    LET sector == IF call.op = "erase" THEN call.at ELSE SectorOf(call.at)
        here == sector \in locked
    IN  /\ chip' = [c \in Chips |->
                      LET x == IF D.family = "amd" THEN AmdChip(chip[c], cmd)
                               ELSE IntelChip(chip[c], cmd, here)
                      IN  IF cmd \in {"confirm", "data"} /\ x.busy # chip[c].busy
                            THEN [x EXCEPT !.job = Job(c)] ELSE x]
        /\ locked' = IF cmd = "unlock" /\ \A c \in Chips : chip[c].mode = "config"
                       THEN locked \ {sector} ELSE locked

(* A chip is done; it succeeds or fails. *)
Finish(c) ==
    /\ c \in Chips /\ chip[c].busy # Nothing /\ phase # "idle"
    /\ \/ /\ cell' = [a \in Addr |->
                        IF a \notin DOMAIN chip[c].job THEN cell[a]
                        ELSE IF chip[c].busy = "erase" THEN Bits
                        ELSE cell[a] \cap chip[c].job[a]]
          /\ chip' = [chip EXCEPT ![c].busy = Nothing, ![c].job = <<>>]
          /\ UNCHANGED <<faults, before>>
       \/ /\ faults < MaxFaults /\ faults' = faults + 1
          /\ chip' = [chip EXCEPT ![c].busy = Nothing, ![c].error = TRUE,
                                  ![c].job = IF D.family = "amd" THEN @ ELSE <<>>]
          /\ before' = [before EXCEPT !.fault = TRUE]
          /\ UNCHANGED cell
    /\ UNCHANGED <<board, locked, irq, call, phase, todo, seen, rc, src, calls>>

-----------------------------------------------------------------------------
(* Calls. *)

Init ==
    /\ board \in Boards
    /\ chip = [c \in Chips |-> Idle]
    /\ cell \in Contents
    /\ locked = IF D.buff.unlocks THEN 0..(Sectors - 1) ELSE {}
    /\ irq = TRUE /\ phase = "idle" /\ todo = <<>> /\ seen = "ok" /\ rc = "OK"
    /\ call = [op |-> Nothing]
    /\ src \in Sources
    /\ calls = 0 /\ faults = 0
    /\ before = [cell |-> cell, readable |-> TRUE, fault |-> FALSE, halted |-> FALSE]

AllReadable == \A c \in Chips : Readable(c)

(* flash_erase and write_buff are called with what the commands checked. *)
Start(k) ==
    /\ phase = "idle" /\ calls < MaxCalls
    /\ calls' = calls + 1
    /\ before' = [cell |-> cell, readable |-> AllReadable, fault |-> FALSE,
                  halted |-> \E c \in Chips : chip[c].halted # Nothing]
    /\ call' = IF k.op = "erase" THEN [op |-> "erase", at |-> k.from, from |-> k.from, to |-> k.to]
               ELSE [op |-> "write", at |-> WordOf(k.from), from |-> k.from, to |-> k.to,
                     word |-> <<>>]
    /\ phase' = IF k.op = "write" /\ D.buff.unlocks THEN "unlock" ELSE "unit"
    /\ irq' = (irq /\ k.op = "write")
    /\ rc' = "OK"
    /\ UNCHANGED <<board, chip, cell, locked, todo, seen, src, faults>>

(* int_write_buff: the sectors a write touches are unlocked before and after *)
(* it.  The search for the first one ends one before the first sector that   *)
(* begins at the address or behind it; for the first byte of the bank that   *)
(* is start[-1], which is the flash_id.                                      *)
SectorsUnlocked ==
    {s \in -1..(Sectors - 1) :
        /\ s * SectorSize <= call.to
        /\ \A t \in 0..(Sectors - 1) : t * SectorSize < call.from => t <= s
        /\ s = -1 => call.from = 0}

Unlock ==
    /\ phase \in {"unlock", "lock"}
    /\ chip' = [c \in Chips |-> IntelChip(IntelChip(chip[c], "config", FALSE), "unlock", FALSE)]
    /\ locked' = locked \ SectorsUnlocked
    /\ phase' = IF phase = "unlock" THEN "unlocked" ELSE "locked"
    /\ UNCHANGED <<board, cell, irq, call, todo, seen, rc, src, calls, faults, before>>

UnlockEnds ==
    /\ phase \in {"unlocked", "locked"}
    /\ chip' = [c \in Chips |-> IntelChip(chip[c], "array", FALSE)]
    /\ phase' = IF phase = "unlocked" THEN "unit" ELSE "idle"
    /\ UNCHANGED <<board, cell, locked, irq, call, todo, seen, rc, src, calls, faults,
                   before>>

ReturnFrom(code) ==
    /\ rc' = code
    /\ phase' = IF call.op = "write" /\ D.buff.unlocks THEN "lock" ELSE "idle"

(* A byte of the word: from the source, or what is there. *)
Merged(a) == IF a \in call.from..call.to THEN src[a] ELSE Read(a)

Shuffled(byte) == IF board = "lart" THEN {Puzzle[b] : b \in byte} ELSE byte

(* "Check if Flash is (sufficiently) erased" *)
Erasable(word) == \A j \in DOMAIN word : word[j] \subseteq Shuffled(Read(call.at + j))

(* The next sector or word; ^C ends an erase between two sectors. *)
Unit ==
    /\ phase = "unit"
    /\ \/ /\ call.at > call.to
          /\ ReturnFrom("OK") /\ irq' = TRUE
          /\ UNCHANGED <<call, todo>>
       \/ /\ call.op = "erase" /\ call.at <= call.to
          /\ \/ phase' = "before" /\ todo' = Part.before /\ UNCHANGED <<call, irq, rc>>
             \/ /\ call' = [call EXCEPT !.to = call.at - 1]
                /\ ReturnFrom("OK") /\ irq' = TRUE /\ UNCHANGED todo
       \/ LET word == [j \in 0..(Width - 1) |-> Merged(call.at + j)]
          IN  /\ call.op = "write" /\ call.at <= call.to
              /\ call' = [call EXCEPT !.word = word]
              /\ IF Erasable(word)
                   THEN phase' = "before" /\ todo' = Part.before /\ UNCHANGED rc
                   ELSE ReturnFrom("NOT_ERASED") /\ UNCHANGED todo
              /\ UNCHANGED irq
    /\ UNCHANGED <<board, chip, cell, locked, seen, src, calls, faults, before>>

(* One command of the phase. *)
Command ==
    /\ phase \in {"before", "late", "after"} /\ todo # <<>>
    /\ todo' = Tail(todo)
    /\ LET cmd == Head(todo)
       IN  CASE cmd \in {"off", "on"} ->
                    irq' = (cmd = "on") /\ UNCHANGED <<chip, locked, seen>>
             [] cmd = "read" ->
                    /\ seen' = IF \E c \in Chips : chip[c].busy # Nothing \/ chip[c].error
                                                      \/ chip[c].halted # Nothing
                                 THEN "error" ELSE "ok"
                    /\ UNCHANGED <<chip, locked, irq>>
             [] OTHER -> Bus(cmd) /\ UNCHANGED <<irq, seen>>
    /\ UNCHANGED <<board, cell, call, phase, rc, src, calls, faults, before>>

Ready == \A c \in Chips : chip[c].busy = Nothing
Failed == \E c \in Chips : chip[c].busy = Nothing /\ chip[c].error

(* The loop ends: all chips are ready, or one that is ready has failed and   *)
(* the driver looks.                                                         *)
Poll ==
    /\ phase = "poll"
    /\ \/ /\ Ready
          /\ seen' = IF Part.judge \in {"status", "again", "data"} /\ Failed THEN "error"
                     ELSE "ok"
       \/ /\ ~Ready /\ Part.judge = "busy" /\ Failed
          /\ seen' = "error"
    /\ phase' = "after" /\ todo' = Part.after
    /\ UNCHANGED <<board, chip, cell, locked, irq, call, rc, src, calls, faults, before>>

(* Mutation: there is no time-out while the chips are busy. *)
TooLateReady ==
    /\ phase = "poll" /\ Part.early /\ Ready
    /\ faults < MaxFaults /\ faults' = faults + 1
    /\ seen' = "late" /\ phase' = "late" /\ todo' = Part.late
    /\ before' = [before EXCEPT !.fault = TRUE]
    /\ UNCHANGED <<board, chip, cell, locked, irq, call, rc, src, calls>>

(* The timer says it is too late.  Not counted when the chips hang.          *)
TooLate ==
    /\ phase = "poll" /\ (Part.early \/ ~Ready)
    /\ IF Ready THEN faults < MaxFaults /\ faults' = faults + 1
       ELSE faults' = faults
    /\ seen' = "late" /\ phase' = "late" /\ todo' = Part.late
    /\ before' = [before EXCEPT !.fault = TRUE]
    /\ UNCHANGED <<board, chip, cell, locked, irq, call, rc, src, calls>>

(* The phase's commands are done. *)
PhaseEnds ==
    /\ phase \in {"before", "late"} /\ todo = <<>>
    /\ \/ phase = "before" /\ phase' = "poll" /\ UNCHANGED <<todo, irq, rc>>
       \/ /\ phase = "late" /\ ~Part.leaves
          /\ phase' = "after" /\ todo' = Part.after /\ UNCHANGED <<irq, rc>>
       \/ /\ phase = "late" /\ Part.leaves
          /\ ReturnFrom("TIMOUT") /\ irq' = TRUE /\ UNCHANGED todo
    /\ UNCHANGED <<board, chip, cell, locked, call, seen, src, calls, faults, before>>

(* What the unit comes to. *)
Verdict ==
    IF Part.judge = "data"
      THEN IF seen = "error" \/ \E j \in DOMAIN call.word : Read(call.at + j) # call.word[j]
             THEN "PROG_ERROR" ELSE "OK"
    ELSE CASE seen = "ok" -> "OK" [] seen = "error" -> "PROG_ERROR" [] OTHER -> "TIMOUT"

UnitEnds ==
    /\ phase = "after" /\ todo = <<>>
    /\ IF Verdict = "OK"
         THEN /\ phase' = "unit"
              /\ call' = [call EXCEPT !.at = @ + (IF call.op = "erase" THEN 1 ELSE Width)]
              /\ UNCHANGED <<rc, irq>>
         ELSE /\ ReturnFrom(Verdict)
              /\ irq' = TRUE
              /\ UNCHANGED call
    /\ UNCHANGED <<board, chip, cell, locked, todo, seen, src, calls, faults, before>>

DriverStep ==
    Unlock \/ UnlockEnds \/ Unit \/ Command \/ Poll \/ TooLate \/ PhaseEnds \/ UnitEnds

Next == (\E k \in Calls : Start(k)) \/ DriverStep \/ (\E c \in Chips : Finish(c))

(* The processor does not stop, and the timer runs; a chip may hang. *)
Spec == Init /\ [][Next]_vars /\ WF_vars(DriverStep)

-----------------------------------------------------------------------------
Suspends == D.family = "intel" /\ board # "samsung"

(* Is a failure of a chip noticed.  An erase error is not on four boards,    *)
(* and on impa7 (two chips) hardly a write error; on lart the check for      *)
(* erased flash compares bits of different lines.                            *)
Judges ==
    IF call.op = "erase" THEN Part.judge # "none" ELSE board \notin {"impa7", "lart"}

(* When a driver returns, the flash can be read again, errors and time-outs  *)
(* included: the environment and the exception vectors are in it.  After a   *)
(* time-out that cannot be suspended it may be busy (AMD chips, samsung), and *)
(* on impa7 when one chip fails before the other is ready.                   *)
ArrayAfterCall ==
    phase = "idle" /\ board # "impa7" /\ before.readable =>
        AllReadable \/ (before.fault /\ ~Suspends)

(* While the flash cannot be read no interrupt may come, as the vectors are  *)
(* in it (the comment above every disable_interrupts).  Not kept by samsung, *)
(* the EPXA boards' Intel drivers and impa7.                                 *)
VectorsReadable ==
    irq /\ before.readable /\ phase # "idle" => AllReadable \/ (before.fault /\ ~Suspends)

(* Both, the second for the boards that keep it: who reads the flash when    *)
(* the driver lets others run finds its contents and not a status.           *)
FlashReadable ==
    /\ ArrayAfterCall
    /\ board \in {"samsung", "impa7"} \/ D.buff.unlocks \/ VectorsReadable

(* ERR_OK means done: every byte of a write, every sector of an erase up to  *)
(* where ^C ended it, however the chips' failures and time-outs fall.  The   *)
(* bytes beside those written and the sectors beside those erased keep their *)
(* contents, although whole words are programmed (write_buff's merging at    *)
(* odd ends).                                                                *)
DoneMeansDone ==
    phase = "idle" /\ call.op # Nothing /\ before.readable =>
        \A a \in Addr :
            IF (IF call.op = "write" THEN a ELSE SectorOf(a)) \in call.from..call.to
            THEN rc = "OK" /\ Judges => cell[a] = (IF call.op = "write" THEN src[a] ELSE Bits)
            ELSE cell[a] = before.cell[a]

(* An error is one of the call it is reported for, and not one a chip still  *)
(* shows from an earlier call.  samsung never resets the status; an erase    *)
(* or a program that was suspended is never taken up again.                  *)
ErrorIsOwn ==
    phase = "idle" /\ rc \in {"PROG_ERROR", "TIMOUT"} /\ before.readable /\ ~before.halted
        /\ board # "samsung" => before.fault

(* Every call returns, also when a chip hangs. *)
CallEnds == (phase # "idle") ~> (phase = "idle")
=============================================================================

-------------------------------- MODULE Timer --------------------------------
(***************************************************************************)
(* The time of the monitor, which has no interrupts: a hardware counter    *)
(* that is read when somebody asks, and the three kinds of waits made of   *)
(* it: udelay, NetLoop's time-out and a flash driver's limit.              *)
(*                                                                         *)
(* There are two timers.  "decrementer" (cpu/arm720t, cpu/arm920t): a      *)
(* counter counts from Reload down to 0 and starts again; what passed      *)
(* between two reads is added up in timestamp.  "incrementer" (cpu/sa1100, *)
(* cpu/xscale, cpu/epxa): the hardware counts up in a register as wide as  *)
(* a word, and resetting the time writes it.                               *)
(***************************************************************************)
EXTENDS Integers

CONSTANTS
    Reload,         \* TIMER_LOAD_VAL
    Width,          \* 2^32
    Hz,             \* CFG_HZ
    Kilo,           \* 1000: milliseconds in a second, microseconds in a millisecond
    Delays,         \* arguments of udelay, in the commands
    RxDelays,       \*    and in an Ethernet driver
    TimeOuts,       \* time-outs of the network and the flash code, in ticks
    Boards,         \* [timer, rxDelays]: its timer; does its Ethernet driver call udelay
    MaxGap,         \* ticks between two looks at the time in a waiting loop
    MaxSince        \* where the count of ticks since a time-out was set stops

ASSUME TimerAssumption ==
    /\ Reload \in Nat \ {0} /\ Width \in Nat \ {0} /\ Reload < Width
    /\ Hz \in Nat \ {0} /\ Kilo \in Nat \ {0}
    /\ Delays \cup RxDelays \subseteq Nat /\ TimeOuts \subseteq 1..(Width - 1)
    /\ Boards \subseteq [timer : {"decrementer", "incrementer"}, rxDelays : BOOLEAN]
    /\ \A b \in Boards : b.rxDelays => RxDelays # {}
    /\ MaxGap \in 1..Reload
    /\ MaxSince \in Nat

VARIABLES
    board,
    counter,        \* the hardware register
    timestamp,      \* decrementer: the time added up
    lastdec,        \*    and the register at the last look
    gap,            \* ticks since the last look in a waiting loop
    received,       \* the Ethernet driver was called in this turn of the loop
    delay,          \* udelay's time to wait for, or None
    timeValue,      \* the time-out's, or None
    asked,          \* ticks the delay and the time-out were to last
    since,          \* ticks since they began, counted up to MaxSince
    wrapped         \* whose arithmetic went over the width of a word

vars == <<board, counter, timestamp, lastdec, gap, received, delay, timeValue, asked, since, wrapped>>

None == -1
Waits == {"delay", "timeout"}
Time == 0..(Width - 1)
Decrementer == board.timer = "decrementer"

TypeOK ==
    /\ board \in Boards
    /\ counter \in IF Decrementer THEN 0..Reload ELSE Time
    /\ timestamp \in Time /\ lastdec \in 0..Reload
    /\ gap \in 0..MaxGap /\ received \in BOOLEAN
    /\ delay \in Time \cup {None} /\ timeValue \in Time \cup {None}
    /\ asked \in [Waits -> Nat] /\ since \in [Waits -> 0..MaxSince]
    /\ wrapped \subseteq Waits

-----------------------------------------------------------------------------
(* The hardware. *)

Idle == delay = None /\ timeValue = None
Waiting(w) == IF w = "delay" THEN delay # None ELSE timeValue # None

Next1(c) == IF Decrementer THEN (IF c = 0 THEN Reload ELSE c - 1) ELSE (c + 1) % Width

(* A tick while somebody waits.  The loops look at the time at least once in *)
(* MaxGap ticks.                                                             *)
Tick ==
    /\ ~Idle /\ gap < MaxGap
    /\ counter' = Next1(counter)
    /\ gap' = gap + 1
    /\ since' = [w \in Waits |-> IF Waiting(w) /\ since[w] < MaxSince THEN since[w] + 1
                                ELSE since[w]]
    /\ UNCHANGED <<board, timestamp, lastdec, received, delay, timeValue, asked, wrapped>>

(* Any number of ticks while nobody does: nothing reads the time at the      *)
(* prompt.                                                                   *)
Prompt ==
    /\ Idle
    /\ counter' \in IF Decrementer THEN 0..Reload ELSE Time
    /\ UNCHANGED <<board, timestamp, lastdec, gap, received, delay, timeValue, asked, since, wrapped>>

-----------------------------------------------------------------------------
(* Mutation: a wrap adds the whole period twice over the last look. *)
PassedTwice(now) ==
    IF lastdec >= now THEN lastdec - now ELSE lastdec + Reload + 2 - now

(* Mutation: what passed over a wrap is not counted. *)
PassedUnwrapped(now) == IF lastdec >= now THEN lastdec - now ELSE 0

(* What get_timer_masked adds: after a wrap one tick less than passed.       *)
Passed(now) ==
    IF lastdec >= now THEN lastdec - now ELSE lastdec + Reload - now

(* The time get_timer_masked returns. *)
Now == IF Decrementer THEN (timestamp + Passed(counter)) % Width ELSE counter

(* get_timer_masked *)
Look ==
    /\ timestamp' = IF Decrementer THEN Now ELSE timestamp
    /\ lastdec' = IF Decrementer THEN counter ELSE lastdec
    /\ gap' = 0
    /\ UNCHANGED counter

(* reset_timer_masked *)
ResetTimer ==
    /\ timestamp' = 0
    /\ lastdec' = IF Decrementer THEN counter ELSE lastdec
    /\ counter' = IF Decrementer THEN counter ELSE 0
    /\ gap' = 0

Begins(w, ticks, overflow) ==
    /\ asked' = [asked EXCEPT ![w] = ticks]
    /\ since' = [since EXCEPT ![w] = 0]
    /\ wrapped' = IF overflow THEN wrapped \cup {w} ELSE wrapped \ {w}

Ends(w) ==
    /\ asked' = [asked EXCEPT ![w] = 0] /\ since' = [since EXCEPT ![w] = 0]
    /\ wrapped' = wrapped \ {w}

-----------------------------------------------------------------------------
(* udelay: whole milliseconds, in the arithmetic of a word. *)

DelayTicks(usec) == (((usec \div Kilo) * Hz) % Width) \div Kilo

WholeTicks(usec) == ((usec \div Kilo) * Hz) \div Kilo

(* The count of ticks goes beyond every wait. *)
ASSUME SinceAssumption ==
    /\ \A usec \in Delays \cup RxDelays : WholeTicks(usec) <= MaxSince
    /\ \A iv \in TimeOuts : iv < MaxSince

(* The decrementer's udelay waits for a time; the incrementer's sets the     *)
(* time back to zero first, also under a time-out that is set.               *)
DelayBegin(usec) ==
    LET ticks == DelayTicks(usec)
        until == IF Decrementer THEN Now + ticks ELSE ticks
    IN  /\ delay' = until % Width
        /\ IF Decrementer THEN Look ELSE ResetTimer
        /\ Begins("delay", WholeTicks(usec),
                  until + MaxGap >= Width \/ ticks # WholeTicks(usec))
        /\ UNCHANGED <<board, timeValue>>

(* A command's delay, or one of the Ethernet driver between two packets.     *)
Udelay ==
    /\ delay = None
    /\ timeValue # None => board.rxDelays /\ ~received
    /\ received' = (timeValue # None)
    /\ \E usec \in IF timeValue = None THEN Delays ELSE RxDelays : DelayBegin(usec)

(* Mutation: the loop looks for one value. *)
DelayOverEqual == IF Decrementer THEN Now = delay ELSE Now = delay + 1

DelayOver == IF Decrementer THEN Now >= delay ELSE Now > delay

(* One turn of udelay's loop. *)
DelayLoop ==
    /\ delay # None
    /\ Look
    /\ IF DelayOver THEN delay' = None /\ Ends("delay")
       ELSE UNCHANGED <<delay, asked, since, wrapped>>
    /\ UNCHANGED <<board, received, timeValue>>

-----------------------------------------------------------------------------
(* Ticks between two looks of NetLoop at its time-out. *)
LongestTurn ==
    IF board.rxDelays
    THEN 3 * MaxGap + (CHOOSE d \in {WholeTicks(u) : u \in RxDelays} :
                            \A u \in RxDelays : WholeTicks(u) <= d)
    ELSE MaxGap

(* NetSetTimeout's deadline *)
Deadline(iv) == Now + iv

(* NetSetTimeout *)
NetSetTimeout ==
    /\ Idle
    /\ \E iv \in TimeOuts :
          /\ timeValue' = Deadline(iv) % Width
          /\ Begins("timeout", iv, Now + iv + LongestTurn >= Width)
    /\ Look
    /\ received' = FALSE
    /\ UNCHANGED <<board, delay>>

(* A flash driver starts an erase or a write: it resets the time and waits   *)
(* until it exceeds a limit.                                                 *)
FlashWait ==
    /\ Idle
    /\ \E iv \in TimeOuts :
          /\ timeValue' = iv
          /\ Begins("timeout", iv, iv + LongestTurn >= Width)
    /\ ResetTimer
    /\ received' = FALSE
    /\ UNCHANGED <<board, delay>>

(* NetLoop's and the flash drivers' comparison *)
Expired == Now > timeValue

(* A turn of the loop that waits, and its end, by the time or by what it     *)
(* waited for.                                                               *)
Poll ==
    /\ timeValue # None /\ delay = None
    /\ ~Expired
    /\ Look
    /\ received' = FALSE
    /\ UNCHANGED <<board, delay, timeValue, asked, since, wrapped>>

Expire ==
    /\ timeValue # None /\ delay = None
    /\ Expired
    /\ Look
    /\ timeValue' = None /\ Ends("timeout")
    /\ UNCHANGED <<board, received, delay>>

Answer ==
    /\ timeValue # None /\ delay = None
    /\ timeValue' = None /\ Ends("timeout")
    /\ UNCHANGED <<board, counter, timestamp, lastdec, gap, received, delay>>

-----------------------------------------------------------------------------
(* interrupt_init *)
Init ==
    /\ board \in Boards
    /\ counter \in IF Decrementer THEN {Reload} ELSE Time
    /\ timestamp = 0 /\ lastdec = Reload
    /\ gap = 0 /\ received = FALSE /\ delay = None /\ timeValue = None
    /\ asked = [w \in Waits |-> 0] /\ since = [w \in Waits |-> 0]
    /\ wrapped = {}

Next ==
    \/ Tick \/ Prompt \/ Udelay \/ DelayLoop
    \/ NetSetTimeout \/ FlashWait \/ Poll \/ Expire \/ Answer

(* The hardware ticks and the loops turn. *)
Spec ==
    /\ Init /\ [][Next]_vars
    /\ SF_vars(Tick) /\ WF_vars(DelayLoop) /\ WF_vars(Poll \/ Expire)

-----------------------------------------------------------------------------
(* No wait ends before its time, although the time is pieced together from   *)
(* reads of a counter that wraps in between (get_timer_masked), may be set   *)
(* back by somebody else's delay, and is compared in a word (udelay,         *)
(* NetLoop).  A wait whose arithmetic overflows the word promises nothing.   *)
NeverEarly ==
    [][ /\ Expire => "timeout" \in wrapped \/ since["timeout"] > asked["timeout"]
        /\ delay # None /\ delay' = None =>
              "delay" \in wrapped \/ since["delay"] >= asked["delay"] ]_vars

(* The time lost by wraps: one tick in a period of the decrementer. *)
Lost == since["timeout"] \div (Reload + 1) + 1

(* A time-out is late by no more than the ticks lost in wraps, and one turn  *)
(* of the loop with a delay of the Ethernet driver in it: on the boards with *)
(* a decrementer, and on the others when the driver makes no delays          *)
(* (NetLoop's comparison of an absolute time).                               *)
InTime ==
    timeValue # None /\ "timeout" \notin wrapped
        /\ (Decrementer \/ ~board.rxDelays)
        => since["timeout"] <= asked["timeout"] + Lost + LongestTurn

(* Frames keep coming for whose sake the driver sets the time back. *)
ResetForEver == ~Decrementer /\ board.rxDelays /\ []<>(delay # None)

(* udelay always comes back, whatever it was asked for and however often the *)
(* counter wraps meanwhile, and a time-out that is set expires, unless the   *)
(* answer comes ("try again, forever": arp.c, bootp.c, rarp.c) or the        *)
(* Ethernet driver never stops setting the time back (dnp1110's, cradle's,   *)
(* epxa1db's and kipcharm's SMC91111); only a time that can hardly be met,   *)
(* at the very end of the word, is not promised.                             *)
WaitsEnd ==
    /\ (delay # None /\ "delay" \notin wrapped) ~> (delay = None)
    /\ \/ ResetForEver
       \/ ((timeValue # None /\ "timeout" \notin wrapped) ~> (timeValue = None))
=============================================================================

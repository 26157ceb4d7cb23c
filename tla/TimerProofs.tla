----------------------------- MODULE TimerProofs -----------------------------
(***************************************************************************)
(* Theorems about the time, for every reload value and width of the        *)
(* counters, every frequency and every time waited for.                    *)
(***************************************************************************)
EXTENDS Timer, WellFoundedInduction, TLAPS

-----------------------------------------------------------------------------
(* Arithmetic. *)

(* Division keeps to the natural numbers. *)
LEMMA Quotient ==
    ASSUME NEW a \in Nat, NEW k \in Nat \ {0}
    PROVE  a \div k \in Nat
  OBVIOUS

(* So does the remainder, which is smaller than what was divided by and no   *)
(* greater than what was divided.                                            *)
LEMMA Remainder ==
    ASSUME NEW a \in Nat, NEW k \in Nat \ {0}
    PROVE  /\ a % k \in 0..(k - 1) /\ a % k <= a
           /\ a < k => a % k = a
  OBVIOUS

(* Products of natural numbers are natural numbers. *)
LEMMA Product ==
    ASSUME NEW a \in Nat, NEW b \in Nat
    PROVE  a * b \in Nat
  OBVIOUS

(* Delays are numbers of ticks. *)
LEMMA Ticks ==
    ASSUME NEW usec \in Nat
    PROVE  WholeTicks(usec) \in Nat /\ DelayTicks(usec) \in Nat
  <1> DEFINE m == (usec \div Kilo) * Hz
  <1>1. Kilo \in Nat \ {0} /\ Hz \in Nat /\ Width \in Nat \ {0}
    BY TimerAssumption
  <1>2. m \in Nat
    BY <1>1, Quotient, Product
  <1> HIDE DEF m
  <1>3. m % Width \in Nat
    BY <1>1, <1>2, Remainder
  <1>4. m \div Kilo \in Nat /\ (m % Width) \div Kilo \in Nat
    BY <1>1, <1>2, <1>3, Quotient
  <1> QED BY <1>4 DEF m, WholeTicks, DelayTicks

(* The longest of the Ethernet driver's delays is one of them, so that a turn *)
(* of NetLoop has a length.                                                  *)
LEMMA Turn ==
    ASSUME board \in Boards
    PROVE  /\ LongestTurn \in Nat
           /\ IF board.rxDelays
              THEN \A u \in RxDelays : 3 * MaxGap + WholeTicks(u) <= LongestTurn
              ELSE LongestTurn = MaxGap
  <1>1. MaxGap \in Nat /\ MaxSince \in Nat /\ (board.rxDelays => RxDelays # {})
    BY TimerAssumption
  <1>2. \A u \in RxDelays : WholeTicks(u) \in Nat /\ WholeTicks(u) <= MaxSince
    BY TimerAssumption, SinceAssumption, Ticks
  <1>3. CASE board.rxDelays
    <2> DEFINE S == {WholeTicks(u) : u \in RxDelays}
               R == {ss \in Nat \X Nat : ss[1] < ss[2]}
               T == {n \in Nat : \E x \in S : n = MaxSince - x}
    <2>1. IsWellFoundedOn(R, Nat)
      BY NatLessThanWellFounded DEF OpToRel
    <2>2. ASSUME NEW x \in Nat, NEW y \in Nat, ~(<<y, x>> \in R)
          PROVE  x <= y
      BY <2>2
    <2>3. \A x \in S : x \in Nat /\ x <= MaxSince
      BY <1>2
    <2>4. S # {}
      BY <1>1, <1>3
    <2> HIDE DEF R, S
    <2>5. T \subseteq Nat /\ T # {}
      BY <1>1, <2>3, <2>4
    <2> HIDE DEF T
    <2>6. PICK n \in T : \A y \in T : ~(<<y, n>> \in R)
      BY <2>1, <2>5, WFMin
    <2>7. \A y \in T : n <= y
      BY <2>2, <2>5, <2>6
    <2>8. PICK d \in S : n = MaxSince - d
      BY <2>6 DEF T
    <2>9. ASSUME NEW x \in S
          PROVE  x <= d
      <3>1. MaxSince - x \in T
        BY <1>1, <2>3 DEF T
      <3> QED BY <1>1, <2>3, <2>7, <2>8, <3>1
    <2>10. \E e \in S : \A u \in RxDelays : WholeTicks(u) <= e
      BY <2>9 DEF S
    <2> DEFINE e == CHOOSE e \in S : \A u \in RxDelays : WholeTicks(u) <= e
    <2>11. e \in S /\ \A u \in RxDelays : WholeTicks(u) <= e
      BY <2>10
    <2>12. LongestTurn = 3 * MaxGap + e
      BY <1>3 DEF LongestTurn, S
    <2> HIDE DEF e
    <2> QED BY <1>1, <1>2, <1>3, <2>3, <2>11, <2>12
  <1>4. CASE ~board.rxDelays
    BY <1>1, <1>4 DEF LongestTurn
  <1> QED BY <1>3, <1>4

-----------------------------------------------------------------------------
(* Types. *)

(* The constants and the time that is read. *)
LEMMA Reading ==
    ASSUME TypeOK
    PROVE  /\ Width \in Nat \ {0} /\ Reload \in Nat \ {0} /\ Reload < Width
           /\ MaxGap \in Nat \ {0} /\ MaxGap <= Reload /\ MaxSince \in Nat
           /\ Passed(counter) \in Int
           /\ Decrementer => Passed(counter) \in Nat
           /\ Now \in Time
  <1>1. /\ Width \in Nat \ {0} /\ Reload \in Nat \ {0} /\ Reload < Width
        /\ MaxGap \in Nat \ {0} /\ MaxGap <= Reload /\ MaxSince \in Nat
    BY TimerAssumption
  <1>2. /\ counter \in Nat /\ lastdec \in 0..Reload /\ timestamp \in Nat
        /\ Decrementer => counter \in 0..Reload
        /\ ~Decrementer => counter \in Time
    BY <1>1 DEF TypeOK, Time
  <1>3. /\ Passed(counter) \in Int
        /\ Decrementer => Passed(counter) \in Nat
    BY <1>1, <1>2 DEF Passed
  <1>4. Decrementer => timestamp + Passed(counter) \in Nat
    BY <1>2, <1>3
  <1>5. Now \in Time
    BY <1>1, <1>2, <1>4, Remainder DEF Now, Time
  <1> QED BY <1>1, <1>3, <1>5

(* A look at the time, and setting it to zero. *)
LEMMA Looking ==
    ASSUME TypeOK, Look \/ ResetTimer, board' = board
    PROVE  /\ counter' \in IF Decrementer THEN 0..Reload ELSE Time
           /\ timestamp' \in Time /\ lastdec' \in 0..Reload /\ gap' \in 0..MaxGap
           /\ Decrementer' = Decrementer
  <1>1. Now \in Time /\ Width \in Nat \ {0} /\ MaxGap \in Nat /\ 0 \in Time /\ 0 \in 0..MaxGap
    BY Reading DEF Time
  <1> QED BY <1>1 DEF TypeOK, Look, ResetTimer, Decrementer

(* The types stay. *)
LEMMA NextTypes ==
    ASSUME TypeOK, [Next]_vars
    PROVE  TypeOK'
  <1>1. /\ Width \in Nat \ {0} /\ Reload \in Nat \ {0} /\ Reload < Width
        /\ MaxGap \in Nat \ {0} /\ MaxSince \in Nat /\ Now \in Time
        /\ 0 \in 0..MaxSince /\ Kilo \in Nat \ {0} /\ Hz \in Nat
        /\ Delays \cup RxDelays \subseteq Nat /\ TimeOuts \subseteq Nat
    BY Reading, TimerAssumption
  <1>2. ASSUME NEW w \in Waits, NEW n \in Nat, NEW o \in BOOLEAN, Begins(w, n, o)
        PROVE  /\ asked' \in [Waits -> Nat] /\ since' \in [Waits -> 0..MaxSince]
               /\ wrapped' \subseteq Waits
    BY <1>1, <1>2 DEF Begins, TypeOK
  <1>3. ASSUME NEW w \in Waits, Ends(w)
        PROVE  /\ asked' \in [Waits -> Nat] /\ since' \in [Waits -> 0..MaxSince]
               /\ wrapped' \subseteq Waits
    BY <1>1, <1>3 DEF Ends, TypeOK
  <1>4. CASE Tick
    <2>1. counter' \in IF Decrementer THEN 0..Reload ELSE Time
      <3>1. CASE Decrementer
        BY <1>1, <1>4, <3>1 DEF Tick, Next1, TypeOK
      <3>2. CASE ~Decrementer
        <4>1. counter + 1 \in Nat
          BY <1>1, <3>2 DEF TypeOK, Time
        <4> QED BY <1>1, <1>4, <3>2, <4>1, Remainder DEF Tick, Next1, Time
      <3> QED BY <3>1, <3>2
    <2>2. since' \in [Waits -> 0..MaxSince]
      BY <1>1, <1>4 DEF Tick, TypeOK
    <2>3. gap' \in 0..MaxGap
      BY <1>1, <1>4 DEF Tick, TypeOK
    <2>4. UNCHANGED <<board, timestamp, lastdec, received, delay, timeValue, asked, wrapped>>
      BY <1>4 DEF Tick
    <2> QED BY <2>1, <2>2, <2>3, <2>4 DEF TypeOK, Decrementer
  <1>5. CASE Prompt
    BY <1>5 DEF Prompt, TypeOK, Decrementer
  <1>6. ASSUME NEW usec \in Delays \cup RxDelays, DelayBegin(usec), received' \in BOOLEAN
        PROVE  TypeOK'
    <2> DEFINE ticks == DelayTicks(usec)
               until == IF Decrementer THEN Now + ticks ELSE ticks
               o == until + MaxGap >= Width \/ ticks # WholeTicks(usec)
    <2>1. ticks \in Nat /\ until \in Nat /\ WholeTicks(usec) \in Nat
      BY <1>1, Ticks DEF Time
    <2>2. /\ delay' = until % Width /\ (Look \/ ResetTimer)
          /\ Begins("delay", WholeTicks(usec), o) /\ UNCHANGED <<board, timeValue>>
      BY <1>6 DEF DelayBegin
    <2> HIDE DEF until
    <2>3. o \in BOOLEAN
      OBVIOUS
    <2> HIDE DEF ticks, o
    <2>4. delay' \in Time
      BY <1>1, <2>1, <2>2, Remainder DEF Time
    <2>5. /\ asked' \in [Waits -> Nat] /\ since' \in [Waits -> 0..MaxSince]
          /\ wrapped' \subseteq Waits
      BY <1>2, <2>1, <2>2, <2>3 DEF Waits
    <2>6. /\ counter' \in IF Decrementer THEN 0..Reload ELSE Time
          /\ timestamp' \in Time /\ lastdec' \in 0..Reload /\ gap' \in 0..MaxGap
          /\ Decrementer' = Decrementer
      BY <2>2, Looking
    <2> QED BY <1>6, <2>2, <2>4, <2>5, <2>6 DEF TypeOK
  <1>7. CASE Udelay
    <2>1. received' \in BOOLEAN /\ \E usec \in Delays \cup RxDelays : DelayBegin(usec)
      BY <1>7 DEF Udelay
    <2> QED BY <1>6, <2>1
  <1>8. CASE DelayLoop
    <2>1. /\ Look /\ UNCHANGED <<board, received, timeValue>>
          /\ \/ delay' = None /\ Ends("delay")
             \/ UNCHANGED <<delay, asked, since, wrapped>>
      BY <1>8 DEF DelayLoop
    <2>2. /\ asked' \in [Waits -> Nat] /\ since' \in [Waits -> 0..MaxSince]
          /\ wrapped' \subseteq Waits
      BY <1>3, <2>1 DEF TypeOK, Waits
    <2>3. /\ counter' \in IF Decrementer THEN 0..Reload ELSE Time
          /\ timestamp' \in Time /\ lastdec' \in 0..Reload /\ gap' \in 0..MaxGap
          /\ Decrementer' = Decrementer
      BY <2>1, Looking
    <2> QED BY <2>1, <2>2, <2>3 DEF TypeOK
  <1>9. CASE NetSetTimeout \/ FlashWait
    <2>1. PICK iv \in TimeOuts :
             /\ timeValue' \in {Deadline(iv) % Width, iv}
             /\ \E o \in BOOLEAN : Begins("timeout", iv, o)
      <3>1. CASE NetSetTimeout
        <4>1. PICK iv \in TimeOuts :
                /\ timeValue' = Deadline(iv) % Width
                /\ Begins("timeout", iv, Now + iv + LongestTurn >= Width)
          BY <3>1 DEF NetSetTimeout
        <4>2. (Now + iv + LongestTurn >= Width) \in BOOLEAN
          OBVIOUS
        <4> QED BY <4>1, <4>2
      <3>2. CASE FlashWait
        <4>1. PICK iv \in TimeOuts :
                timeValue' = iv /\ Begins("timeout", iv, iv + LongestTurn >= Width)
          BY <3>2 DEF FlashWait
        <4>2. (iv + LongestTurn >= Width) \in BOOLEAN
          OBVIOUS
        <4> QED BY <4>1, <4>2
      <3> QED BY <1>9, <3>1, <3>2
    <2>2. Look \/ ResetTimer
      BY <1>9 DEF NetSetTimeout, FlashWait
    <2>3. received' = FALSE /\ UNCHANGED <<board, delay>>
      BY <1>9 DEF NetSetTimeout, FlashWait
    <2>4. timeValue' \in Time
      <3>1. iv \in 1..(Width - 1)
        BY TimerAssumption
      <3>2. Deadline(iv) \in Nat
        BY <1>1, <3>1 DEF Deadline, Time
      <3> QED BY <1>1, <2>1, <3>1, <3>2, Remainder DEF Time
    <2>5. /\ asked' \in [Waits -> Nat] /\ since' \in [Waits -> 0..MaxSince]
          /\ wrapped' \subseteq Waits
      BY <1>1, <1>2, <2>1 DEF Waits
    <2>6. /\ counter' \in IF Decrementer THEN 0..Reload ELSE Time
          /\ timestamp' \in Time /\ lastdec' \in 0..Reload /\ gap' \in 0..MaxGap
          /\ Decrementer' = Decrementer
      BY <2>2, <2>3, Looking
    <2> QED BY <2>3, <2>4, <2>5, <2>6 DEF TypeOK
  <1>10. CASE Poll \/ Expire
    <2>1. /\ Look /\ UNCHANGED <<board, delay>> /\ received' \in BOOLEAN
          /\ timeValue' \in {None, timeValue}
          /\ Ends("timeout") \/ UNCHANGED <<asked, since, wrapped>>
      BY <1>10 DEF Poll, Expire, TypeOK
    <2>2. /\ asked' \in [Waits -> Nat] /\ since' \in [Waits -> 0..MaxSince]
          /\ wrapped' \subseteq Waits
      BY <1>3, <2>1 DEF TypeOK, Waits
    <2>3. /\ counter' \in IF Decrementer THEN 0..Reload ELSE Time
          /\ timestamp' \in Time /\ lastdec' \in 0..Reload /\ gap' \in 0..MaxGap
          /\ Decrementer' = Decrementer
      BY <2>1, Looking
    <2> QED BY <2>1, <2>2, <2>3 DEF TypeOK
  <1>11. CASE Answer
    <2>1. /\ asked' \in [Waits -> Nat] /\ since' \in [Waits -> 0..MaxSince]
          /\ wrapped' \subseteq Waits
      BY <1>3, <1>11 DEF Answer, Waits
    <2> QED BY <1>11, <2>1 DEF Answer, TypeOK, Decrementer
  <1>12. CASE UNCHANGED vars
    BY <1>12 DEF vars, TypeOK, Decrementer
  <1> QED BY <1>4, <1>5, <1>7, <1>8, <1>9, <1>10, <1>11, <1>12 DEF Next

(* They hold at first. *)
LEMMA InitTypes ==
    ASSUME Init
    PROVE  TypeOK
  <1>1. /\ Width \in Nat \ {0} /\ Reload \in Nat \ {0} /\ MaxGap \in Nat /\ MaxSince \in Nat
        /\ 0 \in Time /\ 0 \in 0..MaxGap /\ 0 \in 0..MaxSince /\ Reload \in 0..Reload
    BY TimerAssumption DEF Time
  <1>2. asked \in [Waits -> Nat] /\ since \in [Waits -> 0..MaxSince] /\ wrapped \subseteq Waits
    BY <1>1 DEF Init
  <1> QED BY <1>1, <1>2 DEF Init, TypeOK

(* Counters, times and waits keep to their widths. *)
THEOREM TypeCorrect == Spec => []TypeOK
  <1>1. TypeOK /\ [Next]_vars => TypeOK'
    BY NextTypes
  <1> QED BY <1>1, InitTypes, PTL DEF Spec

-----------------------------------------------------------------------------
(* No wait ends early. *)

(* While somebody waits, the decrementer is as far behind the last look as   *)
(* ticks have passed, and has wrapped at most once.                          *)
CounterOK ==
    Decrementer /\ ~Idle =>
        counter = IF gap <= lastdec THEN lastdec - gap ELSE lastdec + (Reload + 1) - gap

(* The time at the next look is at most this. *)
Clock == IF Decrementer THEN timestamp + gap ELSE counter

(* The time has gone on since a wait began by no more than the ticks that    *)
(* passed, or the count of these has gone beyond the wait.                   *)
NotAhead(w, deadline) ==
    deadline # None /\ w \notin wrapped =>
        /\ asked[w] <= MaxSince /\ (w = "timeout" => asked[w] < MaxSince)
        /\ since[w] = MaxSince \/ Clock + asked[w] <= deadline + since[w]

TimeInv == TypeOK /\ CounterOK /\ NotAhead("delay", delay) /\ NotAhead("timeout", timeValue)

(* What is read is not ahead of the clock. *)
LEMMA NowBehind ==
    ASSUME TypeOK, CounterOK, ~Idle
    PROVE  Now <= Clock /\ Now \in Nat /\ Clock \in Nat
  <1>1. /\ Width \in Nat \ {0} /\ Reload \in Nat \ {0} /\ Now \in Nat
        /\ MaxGap \in Nat /\ MaxGap <= Reload
    BY Reading DEF Time
  <1>2. /\ timestamp \in Nat /\ lastdec \in 0..Reload /\ gap \in 0..Reload
    BY <1>1 DEF TypeOK, Time
  <1>3. CASE Decrementer
    <2>1. counter = IF gap <= lastdec THEN lastdec - gap ELSE lastdec + (Reload + 1) - gap
      BY <1>3 DEF CounterOK
    <2>2. Passed(counter) \in Nat /\ Passed(counter) <= gap
      BY <1>1, <1>2, <2>1 DEF Passed
    <2>3. timestamp + Passed(counter) \in Nat
      BY <1>2, <2>2
    <2>4. Now <= timestamp + Passed(counter)
      BY <1>1, <1>3, <2>3, Remainder DEF Now
    <2> QED BY <1>1, <1>2, <1>3, <2>2, <2>4 DEF Clock
  <1>4. CASE ~Decrementer
    BY <1>1, <1>4 DEF Now, Clock
  <1> QED BY <1>3, <1>4

(* A look or a reset does not put the clock ahead. *)
LEMMA LookBehind ==
    ASSUME TypeOK, Look \/ ResetTimer, board' = board
    PROVE  /\ CounterOK' /\ Clock' \in Nat /\ gap' = 0
           /\ Look => Clock' = Now
           /\ ResetTimer => Clock' = 0
           /\ CounterOK /\ ~Idle => Clock' <= Clock
  <1>1. /\ Now \in Nat /\ Decrementer' = Decrementer /\ gap' = 0 /\ lastdec \in 0..Reload
        /\ Reload \in Nat
    BY Reading DEF Time, Decrementer, Look, ResetTimer, TypeOK
  <1>2. CounterOK'
    <2>1. Decrementer => lastdec' = counter' /\ counter' \in Nat
      BY <1>1 DEF Look, ResetTimer, TypeOK
    <2> QED BY <1>1, <2>1 DEF CounterOK
  <1>3. (Look => Clock' = Now) /\ (ResetTimer => Clock' = 0)
    BY <1>1 DEF Look, ResetTimer, Clock, Now
  <1>4. CounterOK /\ ~Idle => Clock' <= Clock
    <2>1. CounterOK /\ ~Idle => Now <= Clock /\ Clock \in Nat
      BY NowBehind
    <2> QED BY <1>1, <1>3, <2>1
  <1> QED BY <1>1, <1>2, <1>3, <1>4

(* A wait that goes on while the time is looked at. *)
LEMMA StaysBehind ==
    ASSUME TypeOK, TypeOK', NEW w \in Waits, NEW d \in Time \cup {None},
           NotAhead(w, d), ~Idle \/ d = None,
           Clock' \in Nat, Clock \in Nat, ~Idle => Clock' <= Clock,
           asked'[w] = asked[w], since'[w] = since[w], w \in wrapped' <=> w \in wrapped
    PROVE  NotAhead(w, d)'
  <1>1. asked[w] \in Nat /\ since[w] \in Nat /\ MaxSince \in Nat /\ (d # None => d \in Nat)
    BY Reading DEF TypeOK, Time
  <1> QED BY <1>1 DEF NotAhead

(* A wait that begins. *)
LEMMA BeginsBehind ==
    ASSUME TypeOK, NEW w \in Waits, NEW n \in Nat, NEW o \in BOOLEAN, Begins(w, n, o),
           NEW d \in Nat, ~o => Clock' + n <= d,
           n <= MaxSince, w = "timeout" => n < MaxSince
    PROVE  /\ d # None /\ w \notin wrapped' =>
                /\ asked'[w] <= MaxSince /\ (w = "timeout" => asked'[w] < MaxSince)
                /\ Clock' + asked'[w] <= d + since'[w]
           /\ \A v \in Waits \ {w} : /\ asked'[v] = asked[v] /\ since'[v] = since[v]
                                     /\ v \in wrapped' <=> v \in wrapped
  <1>1. /\ asked' = [asked EXCEPT ![w] = n] /\ since' = [since EXCEPT ![w] = 0]
        /\ o => w \in wrapped'
        /\ \A v \in Waits \ {w} : v \in wrapped' <=> v \in wrapped
    BY DEF Begins
  <1>2. asked'[w] = n /\ since'[w] = 0
    BY <1>1 DEF TypeOK
  <1>3. \A v \in Waits \ {w} : asked'[v] = asked[v] /\ since'[v] = since[v]
    BY <1>1 DEF TypeOK
  <1> QED BY <1>1, <1>2, <1>3

(* udelay begins, with a time-out set or not. *)
LEMMA UdelayBehind ==
    ASSUME TimeInv, Udelay
    PROVE  TimeInv'
  <1>1. TypeOK /\ TypeOK' /\ CounterOK
    BY NextTypes DEF TimeInv, Next
  <1>2. PICK usec \in Delays \cup RxDelays : DelayBegin(usec)
    BY DEF Udelay
  <1> DEFINE ticks == DelayTicks(usec)
             whole == WholeTicks(usec)
             until == IF Decrementer THEN Now + ticks ELSE ticks
             o == until + MaxGap >= Width \/ ticks # whole
  <1>3. /\ ticks \in Nat /\ whole \in Nat /\ whole <= MaxSince /\ until \in Nat /\ Now \in Nat
        /\ Width \in Nat \ {0} /\ MaxGap \in Nat
    BY <1>1, TimerAssumption, SinceAssumption, Reading, Ticks DEF Time
  <1>4. /\ delay' = until % Width /\ IF Decrementer THEN Look ELSE ResetTimer
        /\ Begins("delay", whole, o) /\ UNCHANGED <<board, timeValue>>
    BY <1>2 DEF DelayBegin
  <1>5. /\ CounterOK' /\ Clock' \in Nat
        /\ Decrementer => Clock' = Now
        /\ ~Decrementer => Clock' = 0
        /\ ~Idle => Clock' <= Clock
    BY <1>1, <1>4, LookBehind
  <1>6. ~o => Clock' + whole = until
    BY <1>3, <1>5
  <1>7. o \in BOOLEAN
    OBVIOUS
  <1>8. ~o => delay' = until
    <2>1. ~o => until < Width
      BY <1>3
    <2> HIDE DEF until, o
    <2> QED BY <1>3, <1>4, <2>1, Remainder
  <1>9. delay' \in Nat
    BY <1>3, <1>4, Remainder
  <1> HIDE DEF ticks, whole, until, o
  <1>10. ~o => Clock' + whole <= delay'
    BY <1>3, <1>6, <1>8
  <1>11. /\ delay' # None /\ "delay" \notin wrapped' =>
              /\ asked'["delay"] <= MaxSince
              /\ Clock' + asked'["delay"] <= delay' + since'["delay"]
         /\ asked'["timeout"] = asked["timeout"] /\ since'["timeout"] = since["timeout"]
         /\ "timeout" \in wrapped' <=> "timeout" \in wrapped
    <2>1. ASSUME NEW d \in Nat, d = delay'
          PROVE  /\ d # None /\ "delay" \notin wrapped' =>
                      /\ asked'["delay"] <= MaxSince
                      /\ Clock' + asked'["delay"] <= d + since'["delay"]
                 /\ asked'["timeout"] = asked["timeout"] /\ since'["timeout"] = since["timeout"]
                 /\ "timeout" \in wrapped' <=> "timeout" \in wrapped
      BY <1>1, <1>3, <1>4, <1>7, <1>10, <2>1, BeginsBehind DEF Waits
    <2> QED BY <1>9, <2>1
  <1>12. NotAhead("delay", delay)'
    BY <1>11 DEF NotAhead
  <1>13. NotAhead("timeout", timeValue)'
    <2>1. timeValue \in Time \cup {None} /\ NotAhead("timeout", timeValue)
      BY DEF TimeInv, TypeOK
    <2>2. ~Idle => Clock \in Nat
      BY <1>1, NowBehind
    <2>3. timeValue # None => ~Idle
      BY DEF Idle
    <2>4. asked["timeout"] \in Nat /\ since["timeout"] \in Nat /\ MaxSince \in Nat
          /\ (timeValue # None => timeValue \in Nat)
      BY <1>1, Reading DEF TypeOK, Time, Waits
    <2> QED BY <1>4, <1>5, <1>11, <2>1, <2>2, <2>3, <2>4 DEF NotAhead
  <1> QED BY <1>1, <1>5, <1>12, <1>13 DEF TimeInv

(* A time-out is set, by NetSetTimeout or a flash driver. *)
LEMMA TimeOutBehind ==
    ASSUME TimeInv, NetSetTimeout \/ FlashWait
    PROVE  TimeInv'
  <1>1. TypeOK /\ TypeOK' /\ CounterOK
    BY NextTypes DEF TimeInv, Next
  <1>2. /\ Width \in Nat \ {0} /\ Now \in Nat /\ LongestTurn \in Nat
        /\ \A iv \in TimeOuts : iv \in Nat /\ iv < MaxSince /\ iv < Width
    BY <1>1, TimerAssumption, SinceAssumption, Reading, Turn DEF Time, TypeOK
  <1>3. /\ CounterOK' /\ Clock' \in Nat
        /\ Look => Clock' = Now
        /\ ResetTimer => Clock' = 0
    BY <1>1, LookBehind DEF NetSetTimeout, FlashWait
  <1>4. delay = None /\ delay' = None
    BY DEF NetSetTimeout, FlashWait, Idle
  <1>5. PICK iv \in TimeOuts :
          /\ timeValue' \in Nat
          /\ \E o \in BOOLEAN : /\ Begins("timeout", iv, o)
                                /\ ~o => Clock' + iv <= timeValue'
    <2>1. CASE NetSetTimeout
      <3>1. PICK iv \in TimeOuts :
              /\ timeValue' = Deadline(iv) % Width
              /\ Begins("timeout", iv, Now + iv + LongestTurn >= Width)
        BY <2>1 DEF NetSetTimeout
      <3> DEFINE o == Now + iv + LongestTurn >= Width
      <3>2. Now + iv \in Nat
        BY <1>2
      <3>3. timeValue' \in Nat /\ (~o => timeValue' = Now + iv)
        <4>1. timeValue' = (Now + iv) % Width
          BY <3>1 DEF Deadline
        <4>2. ~o => Now + iv < Width
          BY <1>2
        <4> HIDE DEF o
        <4> QED BY <1>2, <3>2, <4>1, <4>2, Remainder
      <3>4. Clock' = Now
        BY <1>3, <2>1 DEF NetSetTimeout
      <3>5. o \in BOOLEAN
        OBVIOUS
      <3>6. Begins("timeout", iv, o)
        BY <3>1
      <3> HIDE DEF o
      <3>7. ~o => Clock' + iv <= timeValue'
        BY <1>2, <3>3, <3>4
      <3> QED BY <3>3, <3>5, <3>6, <3>7
    <2>2. CASE FlashWait
      <3>1. PICK iv \in TimeOuts :
              timeValue' = iv /\ Begins("timeout", iv, iv + LongestTurn >= Width)
        BY <2>2 DEF FlashWait
      <3> DEFINE o == iv + LongestTurn >= Width
      <3>2. Clock' = 0
        BY <1>3, <2>2 DEF FlashWait
      <3>3. timeValue' \in Nat /\ Clock' + iv <= timeValue'
        BY <1>2, <3>1, <3>2
      <3>4. o \in BOOLEAN /\ Begins("timeout", iv, o)
        BY <3>1
      <3> HIDE DEF o
      <3> QED BY <3>3, <3>4
    <2> QED BY <2>1, <2>2
  <1>6. PICK o \in BOOLEAN : Begins("timeout", iv, o) /\ (~o => Clock' + iv <= timeValue')
    BY <1>5
  <1>7. timeValue' # None /\ "timeout" \notin wrapped' =>
            /\ asked'["timeout"] <= MaxSince /\ asked'["timeout"] < MaxSince
            /\ Clock' + asked'["timeout"] <= timeValue' + since'["timeout"]
    <2>1. ASSUME NEW d \in Nat, d = timeValue'
          PROVE  d # None /\ "timeout" \notin wrapped' =>
                    /\ asked'["timeout"] <= MaxSince /\ asked'["timeout"] < MaxSince
                    /\ Clock' + asked'["timeout"] <= d + since'["timeout"]
      <3>1. iv \in Nat /\ iv <= MaxSince /\ iv < MaxSince
        BY <1>2, TimerAssumption
      <3> QED BY <1>1, <1>6, <2>1, <3>1, BeginsBehind DEF Waits
    <2> QED BY <1>5, <2>1
  <1>8. NotAhead("timeout", timeValue)'
    BY <1>7 DEF NotAhead
  <1>9. NotAhead("delay", delay)'
    BY <1>4 DEF NotAhead
  <1> QED BY <1>1, <1>3, <1>8, <1>9 DEF TimeInv

(* A tick. *)
LEMMA TickBehind ==
    ASSUME TimeInv, Tick
    PROVE  TimeInv'
  <1>1. TypeOK /\ TypeOK' /\ CounterOK /\ ~Idle
    BY NextTypes DEF TimeInv, Next, Tick
  <1>2. /\ Width \in Nat \ {0} /\ Reload \in Nat \ {0} /\ MaxGap <= Reload /\ MaxGap \in Nat
        /\ MaxSince \in Nat
    BY <1>1, Reading
  <1>3. /\ gap \in Nat /\ gap < MaxGap /\ gap' = gap + 1 /\ counter' = Next1(counter)
        /\ lastdec \in 0..Reload /\ timestamp \in Nat /\ counter \in Nat
        /\ Decrementer' = Decrementer /\ Idle' = Idle
        /\ UNCHANGED <<timestamp, lastdec, delay, timeValue, asked, wrapped>>
    BY <1>1 DEF Tick, TypeOK, Time, Decrementer, Idle
  <1>4. CounterOK'
    <2>1. CASE Decrementer
      <3>1. counter = IF gap <= lastdec THEN lastdec - gap ELSE lastdec + (Reload + 1) - gap
        BY <1>1, <2>1 DEF CounterOK
      <3>2. counter' = IF counter = 0 THEN Reload ELSE counter - 1
        BY <1>3, <2>1 DEF Next1
      <3>3. counter' = IF gap + 1 <= lastdec THEN lastdec - (gap + 1)
                       ELSE lastdec + (Reload + 1) - (gap + 1)
        BY <1>2, <1>3, <3>1, <3>2
      <3> QED BY <1>3, <3>3 DEF CounterOK
    <2>2. CASE ~Decrementer
      BY <1>3, <2>2 DEF CounterOK
    <2> QED BY <2>1, <2>2
  <1>5. Clock \in Nat /\ Clock' \in Nat /\ Clock' <= Clock + 1
    <2>1. CASE Decrementer
      BY <1>3, <2>1 DEF Clock
    <2>2. CASE ~Decrementer
      <3>1. counter' = (counter + 1) % Width
        BY <1>3, <2>2 DEF Next1
      <3>2. counter + 1 \in Nat
        BY <1>3
      <3>3. counter' \in Nat /\ counter' <= counter + 1
        BY <1>2, <3>1, <3>2, Remainder
      <3> QED BY <1>3, <2>2, <3>3 DEF Clock
    <2> QED BY <2>1, <2>2
  <1>6. ASSUME NEW w \in Waits, Waiting(w)
        PROVE  since'[w] = IF since[w] < MaxSince THEN since[w] + 1 ELSE since[w]
    BY <1>6 DEF Tick
  <1>7. ASSUME NEW w \in Waits, NEW d \in Time \cup {None}, NotAhead(w, d), d # None => Waiting(w)
        PROVE  d # None /\ w \notin wrapped' =>
                /\ asked'[w] <= MaxSince /\ (w = "timeout" => asked'[w] < MaxSince)
                /\ since'[w] = MaxSince \/ Clock' + asked'[w] <= d + since'[w]
    <2>1. /\ asked[w] \in Nat /\ since[w] \in 0..MaxSince /\ (d # None => d \in Nat)
      BY <1>1 DEF TypeOK, Time
    <2> QED BY <1>2, <1>3, <1>5, <1>6, <1>7, <2>1 DEF NotAhead
  <1>8. NotAhead("delay", delay)' /\ NotAhead("timeout", timeValue)'
    <2>1. /\ delay \in Time \cup {None} /\ timeValue \in Time \cup {None}
          /\ NotAhead("delay", delay) /\ NotAhead("timeout", timeValue)
          /\ delay # None => Waiting("delay")
          /\ timeValue # None => Waiting("timeout")
      BY DEF TimeInv, TypeOK, Waiting
    <2> QED BY <1>3, <1>7, <2>1 DEF NotAhead, Waits
  <1> QED BY <1>1, <1>4, <1>8 DEF TimeInv

(* A look while somebody waits. *)
LEMMA LoopBehind ==
    ASSUME TimeInv, DelayLoop \/ Poll \/ Expire \/ Answer
    PROVE  TimeInv'
  <1>1. TypeOK /\ TypeOK' /\ CounterOK /\ ~Idle
    BY NextTypes DEF TimeInv, Next, DelayLoop, Poll, Expire, Answer, Idle
  <1>2. /\ CounterOK' /\ Clock' \in Nat /\ Clock' <= Clock /\ Clock \in Nat
    <2>1. CASE Answer
      <3>1. Idle' /\ UNCHANGED <<board, timestamp, counter, gap>>
        BY <2>1 DEF Answer, Idle
      <3>2. Clock \in Nat
        BY <1>1, NowBehind
      <3>3. Clock' = Clock
        BY <3>1 DEF Clock, Decrementer
      <3> QED BY <3>1, <3>2, <3>3 DEF CounterOK
    <2>2. CASE ~Answer
      <3>1. Look /\ board' = board
        BY <2>2 DEF DelayLoop, Poll, Expire
      <3> QED BY <1>1, <3>1, LookBehind, NowBehind
    <2> QED BY <2>1, <2>2
  <1>3. ASSUME NEW w \in Waits, NEW d \in Time \cup {None}, NotAhead(w, d),
               asked'[w] = asked[w], since'[w] = since[w], w \in wrapped' <=> w \in wrapped
        PROVE  d # None /\ w \notin wrapped' =>
                /\ asked'[w] <= MaxSince /\ (w = "timeout" => asked'[w] < MaxSince)
                /\ since'[w] = MaxSince \/ Clock' + asked'[w] <= d + since'[w]
    <2>1. /\ asked[w] \in Nat /\ since[w] \in Nat /\ (d # None => d \in Nat)
      BY <1>1 DEF TypeOK, Time
    <2> QED BY <1>2, <1>3, <2>1 DEF NotAhead
  <1>4. /\ delay \in Time \cup {None} /\ timeValue \in Time \cup {None}
        /\ NotAhead("delay", delay) /\ NotAhead("timeout", timeValue)
        /\ asked \in [Waits -> Nat] /\ since \in [Waits -> 0..MaxSince]
    BY DEF TimeInv, TypeOK
  <1>5. ASSUME NEW w \in Waits, NEW v \in Waits, w # v, Ends(w)
        PROVE  asked'[v] = asked[v] /\ since'[v] = since[v] /\ (v \in wrapped' <=> v \in wrapped)
    BY <1>4, <1>5 DEF Ends
  <1>6. /\ \/ delay' = None
           \/ /\ delay' = delay /\ asked'["delay"] = asked["delay"]
              /\ since'["delay"] = since["delay"]
              /\ "delay" \in wrapped' <=> "delay" \in wrapped
        /\ \/ timeValue' = None
           \/ /\ timeValue' = timeValue /\ asked'["timeout"] = asked["timeout"]
              /\ since'["timeout"] = since["timeout"]
              /\ "timeout" \in wrapped' <=> "timeout" \in wrapped
    BY <1>5 DEF DelayLoop, Poll, Expire, Answer, Waits
  <1>7. NotAhead("delay", delay)'
    BY <1>3, <1>4, <1>6 DEF NotAhead, Waits
  <1>8. NotAhead("timeout", timeValue)'
    BY <1>3, <1>4, <1>6 DEF NotAhead, Waits
  <1> QED BY <1>1, <1>2, <1>7, <1>8 DEF TimeInv

(* The clock is never ahead of a wait. *)
LEMMA NextBehind ==
    ASSUME TimeInv, [Next]_vars
    PROVE  TimeInv'
  <1>1. CASE Prompt
    <2>1. TypeOK' /\ Idle' /\ delay' = None /\ timeValue' = None
      BY <1>1, NextTypes DEF TimeInv, Next, Prompt, Idle
    <2> QED BY <2>1 DEF TimeInv, CounterOK, NotAhead
  <1>2. CASE UNCHANGED vars
    <2>1. TypeOK'
      BY <1>2, NextTypes DEF TimeInv
    <2>2. CounterOK'
      BY <1>2 DEF vars, TimeInv, CounterOK, Idle, Decrementer
    <2>3. Clock' = Clock
      BY <1>2 DEF vars, Clock, Decrementer
    <2>4. NotAhead("delay", delay)' /\ NotAhead("timeout", timeValue)'
      BY <1>2, <2>3 DEF vars, TimeInv, NotAhead
    <2> QED BY <2>1, <2>2, <2>4 DEF TimeInv
  <1> QED BY <1>1, <1>2, UdelayBehind, TimeOutBehind, TickBehind, LoopBehind DEF Next

(* No wait ends before its time: get_timer_masked pieces the time together   *)
(* from reads of a counter that wraps in between, udelay may set it back     *)
(* under a time-out, and both compare it in a word.                          *)
THEOREM NeverEarlyHolds == Spec => NeverEarly
  <1>1. Init => TimeInv
    <2> SUFFICES ASSUME Init PROVE TimeInv
      OBVIOUS
    <2>1. delay = None /\ timeValue = None
      BY DEF Init
    <2> QED BY <2>1, InitTypes DEF TimeInv, CounterOK, NotAhead, Idle
  <1>2. TimeInv /\ [Next]_vars => TimeInv'
    BY NextBehind
  <1>3. TimeInv /\ [Next]_vars =>
          [ /\ Expire => "timeout" \in wrapped \/ since["timeout"] > asked["timeout"]
            /\ delay # None /\ delay' = None =>
                  "delay" \in wrapped \/ since["delay"] >= asked["delay"] ]_vars
    <2> SUFFICES ASSUME TimeInv, Next
                 PROVE  /\ Expire => "timeout" \in wrapped \/ since["timeout"] > asked["timeout"]
                        /\ delay # None /\ delay' = None =>
                              "delay" \in wrapped \/ since["delay"] >= asked["delay"]
      OBVIOUS
    <2>1. /\ TypeOK /\ CounterOK /\ NotAhead("delay", delay) /\ NotAhead("timeout", timeValue)
          /\ asked \in [Waits -> Nat] /\ since \in [Waits -> Nat]
          /\ timeValue # None => timeValue \in Nat
          /\ delay # None => delay \in Nat
          /\ MaxSince \in Nat
      BY Reading DEF TimeInv, TypeOK, Time
    <2>2. ASSUME Expire
          PROVE  "timeout" \in wrapped \/ since["timeout"] > asked["timeout"]
      <3>1. timeValue # None /\ ~Idle /\ Now > timeValue
        BY <2>2 DEF Expire, Expired, Idle
      <3>2. Now <= Clock /\ Now \in Nat /\ Clock \in Nat
        BY <2>1, <3>1, NowBehind
      <3>3. asked["timeout"] \in Nat /\ since["timeout"] \in Nat
        BY <2>1 DEF Waits
      <3> QED BY <2>1, <3>1, <3>2, <3>3 DEF NotAhead
    <2>3. ASSUME delay # None, delay' = None
          PROVE  "delay" \in wrapped \/ since["delay"] >= asked["delay"]
      <3>1. DelayLoop /\ ~Idle
        <4>1. /\ ~NetSetTimeout /\ ~FlashWait /\ ~Poll /\ ~Expire /\ ~Answer
              /\ ~Prompt /\ ~Udelay /\ ~Tick
          BY <2>3 DEF NetSetTimeout, FlashWait, Poll, Expire, Answer, Prompt, Udelay, Tick, Idle
        <4> QED BY <2>3, <4>1 DEF Next, Idle
      <3>2. DelayOver
        BY <2>3, <3>1 DEF DelayLoop
      <3>3. Now >= delay
        <4>1. Now \in Nat
          BY <2>1, Reading DEF Time
        <4> QED BY <2>1, <2>3, <3>2, <4>1 DEF DelayOver
      <3>4. Now <= Clock /\ Now \in Nat /\ Clock \in Nat
        BY <2>1, <3>1, NowBehind
      <3>5. asked["delay"] \in Nat /\ since["delay"] \in Nat
        BY <2>1 DEF Waits
      <3> QED BY <2>1, <2>3, <3>3, <3>4, <3>5 DEF NotAhead
    <2> QED BY <2>2, <2>3
  <1> QED BY <1>1, <1>2, <1>3, PTL DEF Spec, NeverEarly

-----------------------------------------------------------------------------
(* A time-out is not late. *)

(* The time at the last look. *)
Seen == IF Decrementer THEN timestamp ELSE counter - gap

(* With so many wraps since the time-out was set, each of which lost a tick, *)
(* this is what the time and the register have come to.                      *)
After(wraps) ==
    /\ since["timeout"] + timeValue <= Seen + asked["timeout"] + wraps + gap
    /\ Decrementer => \E first \in 0..Reload :
                        Seen + asked["timeout"] + lastdec = timeValue + wraps * Reload + first

(* How far NetLoop may be past its time-out at the last look: not at all, or *)
(* in a delay of the Ethernet driver, or behind one.                         *)
PastBy ==
    IF delay # None THEN Seen <= delay /\ delay + 2 * MaxGap <= timeValue + LongestTurn
    ELSE IF received THEN Seen + MaxGap <= timeValue + LongestTurn
    ELSE Seen <= timeValue

Promised == timeValue # None /\ "timeout" \notin wrapped /\ (Decrementer \/ ~board.rxDelays)

LateOK ==
    Promised =>
        /\ timeValue + LongestTurn < Width
        /\ Seen \in Nat /\ Seen + asked["timeout"] >= timeValue
        /\ PastBy /\ (delay # None => received) /\ (received => board.rxDelays)
        /\ \E wraps \in Nat : (~Decrementer => wraps = 0) /\ After(wraps)

(* The numbers behind it: so many wraps and the ticks between them.          *)
LEMMA Numbers ==
    ASSUME NEW s \in Nat, NEW e \in Nat, NEW w \in Nat, NEW g \in Nat, NEW a \in Nat,
           NEW R \in Nat \ {0}, NEW f \in 0..R, NEW l \in 0..R,
           s <= e + w + g, e + g <= a, e + l = w * R + f
    PROVE  s <= a + s \div (R + 1) + 1
  <1> DEFINE q == s \div (R + 1)
  <1>1. q \in Nat /\ s < (q + 1) * (R + 1)
    OBVIOUS
  <1> HIDE DEF q
  <1>2. SUFFICES ASSUME s >= a + q + 2
                 PROVE  FALSE
    BY <1>1 DEF q
  <1>3. w >= q + 2
    BY <1>1, <1>2
  <1>4. w * R >= (q + 2) * R
    <2>1. w - (q + 2) \in Nat
      BY <1>1, <1>3
    <2>2. (w - (q + 2)) * R \in Nat
      BY <2>1, Product
    <2>3. (w - (q + 2)) * R = w * R - (q + 2) * R
      BY <1>1
    <2>4. w * R \in Nat /\ (q + 2) * R \in Nat
      BY <1>1, Product
    <2> QED BY <2>2, <2>3, <2>4
  <1>5. (q + 2) * R = q * R + 2 * R /\ (q + 1) * (R + 1) = q * R + R + q + 1 /\ q * R \in Nat
        /\ w * R \in Nat
    BY <1>1, Product
  <1> QED BY <1>1, <1>2, <1>3, <1>4, <1>5

(* A wrap. *)
LEMMA OneMore ==
    ASSUME NEW w \in Nat, NEW R \in Nat
    PROVE  w + 1 \in Nat /\ (w + 1) * R = w * R + R /\ w * R \in Nat
  BY Product

(* At the last look NetLoop was past its time-out by less than a turn.       *)
LEMMA Past ==
    ASSUME TypeOK, LateOK, Promised
    PROVE  /\ LongestTurn \in Nat /\ MaxGap \in Nat /\ timeValue \in Nat /\ Seen \in Nat
           /\ asked["timeout"] \in Nat /\ since["timeout"] \in Nat /\ gap \in 0..MaxGap
           /\ LongestTurn >= MaxGap /\ (board.rxDelays => LongestTurn >= 3 * MaxGap)
           /\ Seen + gap <= timeValue + LongestTurn
           /\ delay # None => delay \in Nat
  <1>1. /\ LongestTurn \in Nat /\ MaxGap \in Nat /\ timeValue \in Nat /\ Seen \in Nat
        /\ asked["timeout"] \in Nat /\ since["timeout"] \in Nat /\ gap \in 0..MaxGap
        /\ delay # None => delay \in Nat
    BY Turn, TimerAssumption DEF TypeOK, Time, Waits, LateOK, Promised
  <1>2. LongestTurn >= MaxGap /\ (board.rxDelays => LongestTurn >= 3 * MaxGap)
    <2>1. CASE board.rxDelays
      <3>1. PICK u \in RxDelays : 3 * MaxGap + WholeTicks(u) <= LongestTurn
        BY <2>1, Turn, TimerAssumption DEF TypeOK
      <3>2. WholeTicks(u) \in Nat
        BY Ticks, TimerAssumption
      <3> QED BY <1>1, <3>1, <3>2
    <2>2. CASE ~board.rxDelays
      BY <1>1, <2>2, Turn DEF TypeOK
    <2> QED BY <2>1, <2>2
  <1>3. PastBy
    BY DEF LateOK
  <1>4. Seen + gap <= timeValue + LongestTurn
    <2>1. CASE delay # None
      BY <1>1, <1>3, <2>1 DEF PastBy
    <2>2. CASE delay = None /\ received
      BY <1>1, <1>3, <2>2 DEF PastBy
    <2>3. CASE delay = None /\ ~received
      BY <1>1, <1>2, <1>3, <2>3 DEF PastBy
    <2> QED BY <2>1, <2>2, <2>3
  <1> QED BY <1>1, <1>2, <1>4

(* A look while a time-out is set takes what passed into account.            *)
LEMMA LookLate ==
    ASSUME TypeOK, CounterOK, LateOK, Promised, Look,
           UNCHANGED <<board, timeValue, asked["timeout"], since["timeout"]>>
    PROVE  /\ Seen' = Now /\ Now \in Nat /\ Now >= Seen /\ Now <= Seen + gap
           /\ \E wraps \in Nat : (~Decrementer => wraps = 0) /\ After(wraps)'
  <1>1. /\ LongestTurn \in Nat /\ MaxGap \in Nat /\ timeValue \in Nat /\ Seen \in Nat
        /\ asked["timeout"] \in Nat /\ since["timeout"] \in Nat /\ gap \in 0..MaxGap
        /\ Seen + gap <= timeValue + LongestTurn
        /\ timeValue + LongestTurn < Width
    BY Past DEF LateOK
  <1>2. /\ Width \in Nat \ {0} /\ Reload \in Nat \ {0} /\ MaxGap <= Reload /\ Now \in Nat
        /\ counter \in Nat /\ timestamp \in Nat /\ lastdec \in 0..Reload
    BY Reading DEF TypeOK, Time
  <1>3. ~Idle /\ gap' = 0 /\ Decrementer' = Decrementer
    BY DEF Promised, Idle, Look, Decrementer
  <1>4. PICK wraps \in Nat : (~Decrementer => wraps = 0) /\ After(wraps)
    BY DEF LateOK
  <1>5. CASE Decrementer
    <2>1. counter = IF gap <= lastdec THEN lastdec - gap ELSE lastdec + (Reload + 1) - gap
      BY <1>3, <1>5 DEF CounterOK
    <2>2. Seen = timestamp /\ Now = (timestamp + Passed(counter)) % Width
      BY <1>5 DEF Seen, Now
    <2>3. PICK first \in 0..Reload :
             Seen + asked["timeout"] + lastdec = timeValue + wraps * Reload + first
      BY <1>4, <1>5 DEF After
    <2>4. since["timeout"] + timeValue <= Seen + asked["timeout"] + wraps + gap
      BY <1>4 DEF After
    <2>5. wraps + 1 \in Nat /\ (wraps + 1) * Reload = wraps * Reload + Reload /\ wraps * Reload \in Nat
      BY <1>2, OneMore
    <2>6. Passed(counter) = IF gap <= lastdec THEN gap ELSE gap - 1
      BY <1>1, <1>2, <2>1 DEF Passed
    <2>7. Now = timestamp + Passed(counter)
      <3>1. timestamp + Passed(counter) \in Nat /\ timestamp + Passed(counter) < Width
        BY <1>1, <1>2, <2>2, <2>6
      <3> QED BY <1>2, <2>2, <3>1, Remainder
    <2>8. Seen' = Now /\ lastdec' = counter
      BY <1>3, <1>5 DEF Look, Seen
    <2>9. CASE gap <= lastdec
      <3>1. Now = Seen + gap /\ lastdec' = lastdec - gap
        BY <2>1, <2>2, <2>6, <2>7, <2>8, <2>9
      <3>2. /\ Seen' + asked["timeout"] + lastdec' = timeValue + wraps * Reload + first
            /\ since["timeout"] + timeValue <= Seen' + asked["timeout"] + wraps + 0
        BY <1>1, <1>2, <2>3, <2>4, <2>5, <2>8, <3>1
      <3>3. After(wraps)'
        BY <1>3, <1>5, <3>2 DEF After
      <3> QED BY <1>1, <1>2, <1>5, <2>8, <3>1, <3>3
    <2>10. CASE ~(gap <= lastdec)
      <3>1. Now = Seen + gap - 1 /\ lastdec' = lastdec + (Reload + 1) - gap /\ gap >= 1
        BY <1>1, <1>2, <2>1, <2>2, <2>6, <2>7, <2>8, <2>10
      <3>2. /\ Seen' + asked["timeout"] + lastdec' = timeValue + (wraps + 1) * Reload + first
            /\ since["timeout"] + timeValue <= Seen' + asked["timeout"] + (wraps + 1) + 0
        <4>1. ASSUME NEW p \in Nat, NEW n \in Nat, n = p + Reload,
                     Seen + asked["timeout"] + lastdec = timeValue + p + first
              PROVE  Seen' + asked["timeout"] + lastdec' = timeValue + n + first
          BY <1>1, <1>2, <2>3, <2>8, <3>1, <4>1
        <4>2. Seen' + asked["timeout"] + lastdec' = timeValue + (wraps + 1) * Reload + first
          <5>1. (wraps + 1) * Reload \in Nat
            BY <1>2, <2>5
          <5> QED BY <2>3, <2>5, <4>1, <5>1
        <4> QED BY <1>1, <1>2, <2>4, <2>8, <3>1, <4>2
      <3>3. After(wraps + 1)'
        BY <1>3, <1>5, <3>2 DEF After
      <3> QED BY <1>1, <1>2, <1>5, <2>5, <2>8, <3>1, <3>3
    <2> QED BY <2>9, <2>10
  <1>6. CASE ~Decrementer
    <2>1. Seen = counter - gap /\ Now = counter /\ Seen' = counter' - gap' /\ counter' = counter
      BY <1>3, <1>6 DEF Seen, Now, Look
    <2>2. since["timeout"] + timeValue <= Seen + asked["timeout"] + wraps + gap
      BY <1>4 DEF After
    <2>3. Seen' = Now /\ Now >= Seen /\ Now = Seen + gap
      BY <1>1, <1>2, <1>3, <2>1
    <2>4. since["timeout"] + timeValue <= Seen' + asked["timeout"] + wraps + 0
      BY <1>1, <1>2, <2>2, <2>3
    <2>5. After(wraps)'
      BY <1>3, <1>6, <2>4 DEF After
    <2> QED BY <1>1, <1>2, <1>4, <2>3, <2>5
  <1> QED BY <1>5, <1>6

(* Division does not turn the order around. *)
LEMMA QuotientRises ==
    ASSUME NEW a \in Nat, NEW b \in Nat, NEW k \in Nat \ {0}, a <= b
    PROVE  a \div k <= b \div k
  <1> DEFINE p == a \div k
             q == b \div k
  <1>1. p \in Nat /\ q \in Nat /\ p * k <= a /\ b < (q + 1) * k
    OBVIOUS
  <1> HIDE DEF p, q
  <1>2. SUFFICES ASSUME p > q
                 PROVE  FALSE
    BY <1>1 DEF p, q
  <1>3. p * k >= (q + 1) * k
    <2>1. (p - (q + 1)) * k \in Nat
      <3>1. p - (q + 1) \in Nat
        BY <1>1, <1>2
      <3> QED BY <3>1, Product
    <2>2. (p - (q + 1)) * k = p * k - (q + 1) * k
      BY <1>1
    <2>3. p * k \in Nat /\ (q + 1) * k \in Nat
      BY <1>1, Product
    <2> QED BY <2>1, <2>2, <2>3
  <1>4. p * k \in Nat /\ (q + 1) * k \in Nat
    BY <1>1, Product
  <1> QED BY <1>1, <1>3, <1>4

(* udelay waits for no more than it was asked for. *)
LEMMA TicksBelow ==
    ASSUME NEW usec \in Nat
    PROVE  DelayTicks(usec) <= WholeTicks(usec)
  <1> DEFINE m == (usec \div Kilo) * Hz
  <1>1. Kilo \in Nat \ {0} /\ Hz \in Nat /\ Width \in Nat \ {0}
    BY TimerAssumption
  <1>2. m \in Nat
    BY <1>1, Quotient, Product
  <1> HIDE DEF m
  <1>3. m % Width \in Nat /\ m % Width <= m
    BY <1>1, <1>2, Remainder
  <1>4. (m % Width) \div Kilo <= m \div Kilo
    BY <1>1, <1>2, <1>3, QuotientRises
  <1> QED BY <1>4 DEF m, WholeTicks, DelayTicks

(* A delay of the Ethernet driver while a time-out is set. *)
LEMMA UdelayLate ==
    ASSUME TimeInv, LateOK, Promised, Udelay
    PROVE  LateOK'
  <1>1. /\ TypeOK /\ CounterOK /\ board.rxDelays /\ Decrementer
        /\ delay = None /\ ~received /\ received' = TRUE
    BY DEF TimeInv, Promised, Udelay
  <1>2. PICK usec \in RxDelays : DelayBegin(usec)
    BY DEF Udelay, Promised
  <1> DEFINE ticks == DelayTicks(usec)
             until == Now + ticks
             o == until + MaxGap >= Width \/ ticks # WholeTicks(usec)
  <1>3. /\ delay' = until % Width /\ Look /\ UNCHANGED <<board, timeValue>>
        /\ Begins("delay", WholeTicks(usec), o)
    BY <1>1, <1>2 DEF DelayBegin
  <1>4. /\ asked'["timeout"] = asked["timeout"] /\ since'["timeout"] = since["timeout"]
        /\ "timeout" \in wrapped' <=> "timeout" \in wrapped
    BY <1>1, <1>3 DEF Begins, TypeOK, Waits
  <1>5. /\ LongestTurn \in Nat /\ MaxGap \in Nat /\ timeValue \in Nat /\ Seen \in Nat
        /\ gap \in 0..MaxGap
    BY <1>1, Past
  <1>6. Seen <= timeValue /\ timeValue + LongestTurn < Width
        /\ Seen + asked["timeout"] >= timeValue
    BY <1>1 DEF LateOK, PastBy
  <1>7. /\ Seen' = Now /\ Now \in Nat /\ Now >= Seen /\ Now <= Seen + gap
        /\ \E wraps \in Nat : (~Decrementer => wraps = 0) /\ After(wraps)'
    BY <1>1, <1>3, <1>4, LookLate
  <1>8. ticks \in Nat /\ ticks + 3 * MaxGap <= LongestTurn
    <2>1. /\ WholeTicks(usec) \in Nat /\ ticks \in Nat /\ ticks <= WholeTicks(usec)
      BY Ticks, TicksBelow, TimerAssumption
    <2>2. 3 * MaxGap + WholeTicks(usec) <= LongestTurn
      BY <1>1, Turn DEF TypeOK
    <2> HIDE DEF ticks
    <2> QED BY <1>5, <2>1, <2>2
  <1> HIDE DEF ticks, o
  <1>9. until \in Nat /\ until + 2 * MaxGap <= timeValue + LongestTurn /\ until < Width
    <2>1. Width \in Nat
      BY TimerAssumption
    <2> QED BY <1>5, <1>6, <1>7, <1>8, <2>1
  <1>10. delay' = until
    <2>1. Width \in Nat \ {0}
      BY TimerAssumption
    <2> HIDE DEF until
    <2> QED BY <1>3, <1>9, <2>1, Remainder
  <1>11. Seen' <= delay' /\ delay' + 2 * MaxGap <= timeValue + LongestTurn /\ delay' # None
    BY <1>7, <1>8, <1>9, <1>10 DEF None
  <1>12. LongestTurn' = LongestTurn /\ Decrementer'
    BY <1>1, <1>3 DEF LongestTurn, Decrementer
  <1>13. PastBy'
    BY <1>3, <1>11, <1>12 DEF PastBy
  <1>14. Seen' \in Nat /\ Seen' + asked'["timeout"] >= timeValue'
    <2>1. asked["timeout"] \in Nat
      BY <1>1, Past
    <2> QED BY <1>3, <1>4, <1>5, <1>6, <1>7, <2>1
  <1> QED BY <1>1, <1>3, <1>6, <1>7, <1>12, <1>13, <1>14 DEF LateOK

(* A time-out is set. *)
LEMMA TimeOutLate ==
    ASSUME TimeInv, NetSetTimeout \/ FlashWait
    PROVE  LateOK'
  <1>1. /\ TypeOK /\ Idle /\ delay' = None /\ received' = FALSE /\ board' = board
        /\ Decrementer' = Decrementer /\ LongestTurn' = LongestTurn
    BY DEF TimeInv, NetSetTimeout, FlashWait, Idle, Decrementer, LongestTurn
  <1>2. /\ Width \in Nat \ {0} /\ Now \in Nat /\ LongestTurn \in Nat /\ Reload \in Nat
        /\ \A iv \in TimeOuts : iv \in Nat /\ iv < Width
    BY <1>1, TimerAssumption, Reading, Turn DEF Time, TypeOK
  <1>3. /\ lastdec' \in 0..Reload /\ gap' = 0
    BY <1>1, Looking DEF NetSetTimeout, FlashWait, Look, ResetTimer
  <1>4. PICK iv \in TimeOuts : \E o \in BOOLEAN :
          /\ Begins("timeout", iv, o) /\ Seen' \in Nat
          /\ ~o => timeValue' = Seen' + iv /\ timeValue' + LongestTurn < Width
    <2>1. CASE NetSetTimeout
      <3>1. PICK iv \in TimeOuts :
              /\ timeValue' = Deadline(iv) % Width
              /\ Begins("timeout", iv, Now + iv + LongestTurn >= Width)
        BY <2>1 DEF NetSetTimeout
      <3> DEFINE o == Now + iv + LongestTurn >= Width
      <3>2. Seen' = Now
        <4>1. Look
          BY <2>1 DEF NetSetTimeout
        <4>2. ~Decrementer => counter \in Nat
          BY <1>1 DEF TypeOK, Time
        <4> QED BY <1>1, <1>3, <4>1, <4>2 DEF Look, Seen, Now
      <3>3. Now + iv \in Nat
        BY <1>2
      <3>4. ~o => timeValue' = Now + iv
        <4>1. timeValue' = (Now + iv) % Width
          BY <3>1 DEF Deadline
        <4>2. ~o => Now + iv < Width
          BY <1>2
        <4> HIDE DEF o
        <4> QED BY <1>2, <3>3, <4>1, <4>2, Remainder
      <3>5. ~o => Now + iv + LongestTurn < Width
        BY <1>2
      <3>6. o \in BOOLEAN /\ Begins("timeout", iv, o)
        BY <3>1
      <3> HIDE DEF o
      <3> QED BY <1>2, <3>2, <3>4, <3>5, <3>6
    <2>2. CASE FlashWait
      <3>1. PICK iv \in TimeOuts :
              timeValue' = iv /\ Begins("timeout", iv, iv + LongestTurn >= Width)
        BY <2>2 DEF FlashWait
      <3> DEFINE o == iv + LongestTurn >= Width
      <3>2. Seen' = 0
        <4>1. ResetTimer
          BY <2>2 DEF FlashWait
        <4> QED BY <1>1, <4>1 DEF ResetTimer, Seen
      <3>3. ~o => iv + LongestTurn < Width
        BY <1>2
      <3>4. o \in BOOLEAN /\ Begins("timeout", iv, o)
        BY <3>1
      <3> HIDE DEF o
      <3> QED BY <1>2, <3>1, <3>2, <3>3, <3>4
    <2> QED BY <2>1, <2>2
  <1>5. PICK o \in BOOLEAN :
          /\ Begins("timeout", iv, o) /\ Seen' \in Nat
          /\ ~o => timeValue' = Seen' + iv /\ timeValue' + LongestTurn < Width
    BY <1>4
  <1>6. /\ asked'["timeout"] = iv /\ since'["timeout"] = 0 /\ (o => "timeout" \in wrapped')
        /\ iv \in Nat
    BY <1>1, <1>2, <1>5 DEF Begins, TypeOK, Waits
  <1>7. SUFFICES ASSUME ~o
                 PROVE  LateOK'
    BY <1>6 DEF LateOK, Promised
  <1>8. PICK t \in Nat : t = Seen' /\ timeValue' = t + iv /\ timeValue' + LongestTurn < Width
    BY <1>5, <1>7, Zenon
  <1>9. ASSUME NEW v, v = timeValue', NEW l, l = lastdec'
        PROVE  /\ v = t + iv /\ v \in Nat /\ l \in 0..Reload /\ t <= v /\ t + iv >= v
               /\ 0 + v <= t + iv + 0 + 0
               /\ t + iv + l = v + 0 * Reload + l
    <2>1. v = t + iv /\ l \in 0..Reload
      BY <1>3, <1>8, <1>9
    <2> QED BY <1>2, <1>6, <2>1
  <1>10. After(0)'
    <2>1. /\ 0 + timeValue' <= t + iv + 0 + gap'
          /\ t + iv + lastdec' = timeValue' + 0 * Reload + lastdec' /\ lastdec' \in 0..Reload
      BY <1>3, <1>9
    <2> QED BY <1>1, <1>6, <1>8, <2>1 DEF After
  <1>11. PastBy' /\ Seen' + asked'["timeout"] >= timeValue'
    <2>1. t <= timeValue' /\ t + iv >= timeValue'
      BY <1>9
    <2> QED BY <1>1, <1>6, <1>8, <2>1 DEF PastBy
  <1> QED BY <1>1, <1>5, <1>8, <1>10, <1>11 DEF LateOK

(* A tick while a time-out is set. *)
LEMMA TickLate ==
    ASSUME TimeInv, LateOK, Promised, Tick
    PROVE  LateOK'
  <1>1. /\ TypeOK /\ LongestTurn \in Nat /\ MaxGap \in Nat /\ timeValue \in Nat /\ Seen \in Nat
        /\ asked["timeout"] \in Nat /\ since["timeout"] \in Nat /\ gap \in 0..MaxGap
        /\ Width \in Nat \ {0} /\ LongestTurn >= MaxGap
    BY Past, TimerAssumption DEF TimeInv
  <1>2. /\ gap' = gap + 1 /\ gap < MaxGap /\ counter' = Next1(counter)
        /\ UNCHANGED <<board, timestamp, lastdec, received, delay, timeValue, asked, wrapped>>
        /\ Decrementer' = Decrementer /\ LongestTurn' = LongestTurn
    BY DEF Tick, Decrementer, LongestTurn
  <1>3. since'["timeout"] \in {since["timeout"], since["timeout"] + 1}
    BY <1>1 DEF Tick, Waits
  <1>4. Seen' = Seen
    <2>1. CASE Decrementer
      BY <1>2, <2>1 DEF Seen
    <2>2. CASE ~Decrementer
      <3>1. Seen <= timeValue /\ timeValue + LongestTurn < Width
        BY <2>2 DEF LateOK, PastBy, Promised
      <3>2. Seen = counter - gap /\ counter \in Nat
        BY <1>1, <2>2 DEF Seen, TypeOK, Time
      <3>3. counter + 1 < Width /\ counter + 1 \in Nat
        BY <1>1, <1>2, <3>1, <3>2
      <3>4. counter' = counter + 1
        BY <1>1, <1>2, <2>2, <3>3, Remainder DEF Next1
      <3> QED BY <1>1, <1>2, <2>2, <3>2, <3>4 DEF Seen
    <2> QED BY <2>1, <2>2
  <1>5. PICK wraps \in Nat : (~Decrementer => wraps = 0) /\ After(wraps)
    BY DEF LateOK
  <1>6. since'["timeout"] + timeValue' <= Seen' + asked'["timeout"] + wraps + gap'
    BY <1>1, <1>2, <1>3, <1>4, <1>5 DEF After
  <1>7. After(wraps)'
    BY <1>2, <1>4, <1>5, <1>6 DEF After
  <1>8. PastBy'
    BY <1>2, <1>4 DEF LateOK, PastBy
  <1> QED BY <1>1, <1>2, <1>4, <1>5, <1>7, <1>8 DEF LateOK

(* A turn of NetLoop, or of udelay's loop under it. *)
LEMMA LoopLate ==
    ASSUME TimeInv, LateOK, Promised, DelayLoop \/ Poll
    PROVE  LateOK'
  <1>1. /\ TypeOK /\ CounterOK /\ Look /\ UNCHANGED <<board, timeValue>>
        /\ Decrementer' = Decrementer /\ LongestTurn' = LongestTurn
    BY DEF TimeInv, DelayLoop, Poll, Decrementer, LongestTurn
  <1>2. /\ asked'["timeout"] = asked["timeout"] /\ since'["timeout"] = since["timeout"]
        /\ "timeout" \in wrapped' <=> "timeout" \in wrapped
    BY <1>1 DEF DelayLoop, Poll, Ends, TypeOK, Waits
  <1>3. /\ LongestTurn \in Nat /\ MaxGap \in Nat /\ timeValue \in Nat /\ Seen \in Nat
        /\ asked["timeout"] \in Nat /\ gap \in 0..MaxGap /\ (delay # None => delay \in Nat)
    BY <1>1, Past
  <1>4. /\ Seen' = Now /\ Now \in Nat /\ Now >= Seen /\ Now <= Seen + gap
        /\ \E wraps \in Nat : (~Decrementer => wraps = 0) /\ After(wraps)'
    BY <1>1, <1>2, LookLate
  <1>5. /\ timeValue + LongestTurn < Width /\ Seen + asked["timeout"] >= timeValue
        /\ PastBy /\ (delay # None => received) /\ (received => board.rxDelays)
    BY DEF LateOK
  <1>6. PastBy' /\ (delay' # None => received') /\ (received' => board.rxDelays)
    <2>1. CASE Poll
      <3>1. delay' = None /\ received' = FALSE /\ ~(Now > timeValue)
        BY <2>1 DEF Poll, Expired
      <3> QED BY <1>1, <1>3, <1>4, <3>1 DEF PastBy
    <2>2. CASE DelayLoop
      <3>1. delay # None /\ received /\ Decrementer /\ received' = received
        BY <1>5, <2>2 DEF DelayLoop, Promised
      <3>2. Seen <= delay /\ delay + 2 * MaxGap <= timeValue + LongestTurn
        BY <1>5, <3>1 DEF PastBy
      <3>3. CASE DelayOver
        <4>1. delay' = None
          BY <2>2, <3>3 DEF DelayLoop
        <4>2. Seen' + MaxGap <= timeValue + LongestTurn
          BY <1>3, <1>4, <3>1, <3>2
        <4> QED BY <1>1, <1>5, <3>1, <4>1, <4>2 DEF PastBy
      <3>4. CASE ~DelayOver
        <4>1. delay' = delay /\ ~(Now >= delay)
          BY <2>2, <3>1, <3>4 DEF DelayLoop, DelayOver
        <4>2. Seen' <= delay
          BY <1>3, <1>4, <3>1, <4>1
        <4> QED BY <1>1, <1>5, <3>1, <3>2, <4>1, <4>2 DEF PastBy
      <3> QED BY <3>3, <3>4
    <2> QED BY <2>1, <2>2
  <1>7. Seen' \in Nat /\ Seen' + asked'["timeout"] >= timeValue'
    BY <1>1, <1>2, <1>3, <1>4, <1>5
  <1> QED BY <1>1, <1>4, <1>5, <1>6, <1>7 DEF LateOK

(* A time-out that is set and not yet due stays so. *)
LEMMA NextLate ==
    ASSUME TimeInv, LateOK, [Next]_vars
    PROVE  LateOK'
  <1>1. CASE Prompt \/ Expire \/ Answer
    <2>1. timeValue' = None
      BY <1>1 DEF Prompt, Expire, Answer, Idle
    <2> QED BY <2>1 DEF LateOK, Promised
  <1>2. CASE UNCHANGED vars
    BY <1>2 DEF vars, LateOK, Promised, PastBy, After, Seen, Decrementer, LongestTurn
  <1>3. CASE NetSetTimeout \/ FlashWait
    BY <1>3, TimeOutLate
  <1>4. CASE (Udelay \/ Tick \/ DelayLoop \/ Poll) /\ Promised
    BY <1>4, UdelayLate, TickLate, LoopLate
  <1>5. CASE (Udelay \/ Tick \/ DelayLoop \/ Poll) /\ ~Promised
    <2>1. Promised' => Promised
      <3>1. TypeOK /\ UNCHANGED <<board, timeValue>>
        BY <1>5 DEF TimeInv, Udelay, DelayBegin, Tick, DelayLoop, Poll
      <3>2. "timeout" \in wrapped' <=> "timeout" \in wrapped
        BY <1>5, <3>1 DEF Udelay, DelayBegin, Begins, Ends, Tick, DelayLoop, Poll
      <3> QED BY <3>1, <3>2 DEF Promised, Decrementer
    <2> QED BY <1>5, <2>1 DEF LateOK
  <1> QED BY <1>1, <1>2, <1>3, <1>4, <1>5 DEF Next

(* A time-out is late by no more than one turn of NetLoop, with a delay of   *)
(* the Ethernet driver in it, and the ticks get_timer_masked loses in wraps, *)
(* one in each.                                                              *)
THEOREM InTimeHolds == Spec => []InTime
  <1>1. Init => TimeInv /\ LateOK
    <2> SUFFICES ASSUME Init PROVE TimeInv /\ LateOK
      OBVIOUS
    <2>1. delay = None /\ timeValue = None
      BY DEF Init
    <2> QED BY <2>1, InitTypes DEF TimeInv, CounterOK, NotAhead, Idle, LateOK, Promised
  <1>2. TimeInv /\ LateOK /\ [Next]_vars => TimeInv' /\ LateOK'
    BY NextBehind, NextLate
  <1>3. TimeInv /\ LateOK => InTime
    <2> SUFFICES ASSUME TimeInv, LateOK, Promised
                 PROVE  since["timeout"] <= asked["timeout"] + Lost + LongestTurn
      BY DEF InTime, Promised
    <2> DEFINE s == since["timeout"]
               e == Seen + asked["timeout"] - timeValue
               a == asked["timeout"] + LongestTurn
    <2>1. /\ LongestTurn \in Nat /\ timeValue \in Nat /\ Seen \in Nat
          /\ asked["timeout"] \in Nat /\ s \in Nat /\ gap \in Nat
          /\ Seen + gap <= timeValue + LongestTurn
          /\ Seen + asked["timeout"] >= timeValue
          /\ lastdec \in 0..Reload /\ Reload \in Nat \ {0}
      BY Past, TimerAssumption DEF TimeInv, TypeOK, LateOK
    <2>2. PICK wraps \in Nat : (~Decrementer => wraps = 0) /\ After(wraps)
      BY DEF LateOK
    <2>3. e \in Nat /\ a \in Nat /\ e + gap <= a /\ s <= e + wraps + gap
      BY <2>1, <2>2 DEF After
    <2>4. s <= a + s \div (Reload + 1) + 1
      <3>1. CASE Decrementer
        <4>1. PICK first \in 0..Reload :
                Seen + asked["timeout"] + lastdec = timeValue + wraps * Reload + first
          BY <2>2, <3>1 DEF After
        <4>2. wraps * Reload \in Nat
          BY <2>1, Product
        <4>3. e + lastdec = wraps * Reload + first
          <5> HIDE DEF s, a
          <5>1. ASSUME NEW p \in Nat, Seen + asked["timeout"] + lastdec = timeValue + p + first
                PROVE  e + lastdec = p + first
            BY <2>1, <5>1
          <5> QED BY <4>1, <4>2, <5>1
        <4> HIDE DEF s, e, a
        <4> QED BY <2>1, <2>3, <4>3, Numbers
      <3>2. CASE ~Decrementer
        <4>1. s \div (Reload + 1) \in Nat
          <5>1. Reload + 1 \in Nat \ {0}
            BY <2>1
          <5> HIDE DEF s
          <5> QED BY <2>1, <5>1, Quotient
        <4> HIDE DEF s, e, a
        <4> QED BY <2>1, <2>2, <2>3, <3>2, <4>1
      <3> QED BY <3>1, <3>2
    <2>5. s \div (Reload + 1) \in Nat
      <3>1. Reload + 1 \in Nat \ {0}
        BY <2>1
      <3> HIDE DEF s
      <3> QED BY <2>1, <3>1, Quotient
    <2>6. Lost = s \div (Reload + 1) + 1
      BY DEF Lost
    <2> HIDE DEF s
    <2>7. s <= asked["timeout"] + Lost + LongestTurn
      BY <2>1, <2>4, <2>5, <2>6
    <2> QED BY <2>7 DEF s
  <1> QED BY <1>1, <1>2, <1>3, PTL DEF Spec
==============================================================================

----------------------------- MODULE DriverProofs -----------------------------
(***************************************************************************)
(* FlashReadable, DoneMeansDone and ErrorIsOwn of FlashDrivers, for every   *)
(* number and size of the sectors, all contents, sources and calls, any     *)
(* number of calls and faults, on each of the boards.                       *)
(*                                                                         *)
(* The programs of the boards (the lists of commands in BoardDrivers) are   *)
(* used in two places only: ErasePrograms and WritePrograms say which lists *)
(* there are, and Turn which command follows which.  The invariant below    *)
(* speaks of the command that is next, of a chip's mode at that point, and  *)
(* of what the cells of the unit in work have to become.                    *)
(***************************************************************************)
EXTENDS FlashDrivers, TLAPS

(* The command that is next on the bus. *)
NextCmd == IF phase \in {"before", "late", "after"} /\ todo # <<>> THEN Head(todo) ELSE Nothing

(* What is left of a list. *)
E1 == <<"confirm">>
E2 == <<"erase", "confirm">>
E3 == <<"clear", "erase", "confirm">>
E4 == <<"unlock", "clear", "erase", "confirm">>
E5 == <<"config", "unlock", "clear", "erase", "confirm">>
W1 == <<"data">>
W2 == <<"program", "data">>
W3 == <<"clear", "program", "data">>
W4 == <<"off", "clear", "program", "data">>
O3 == <<"off", "program", "data">>
V1 == <<"status">>
V2 == <<"data", "status">>
V3 == <<"program", "data", "status">>
V4 == <<"clear", "program", "data", "status">>
V5 == <<"off", "clear", "program", "data", "status">>
L1 == <<"suspend">>
L2 == <<"suspend", "array">>
C1 == <<"clear">>
C2 == <<"clear", "array">>
A1 == <<"array">>
A2 == <<"unlock", "array">>
A3 == <<"config", "unlock", "array">>
N1 == <<"on">>
N2 == <<"array", "on">>
R1 == <<"resume">>
R2 == <<"array", "resume">>
R3 == <<"status", "array", "resume">>
S3 == <<"on", "array", "resume">>
S4 == <<"read", "on", "array", "resume">>
S5 == <<"status", "read", "on", "array", "resume">>

Erasing == call.op = "erase"
Samsung == board = "samsung"
Amd == D.family = "amd"

TodoOK ==
    /\ phase = "before" =>
          todo \in IF Erasing THEN {E5, E4, E3, E2, E1, <<>>}
                   ELSE IF board = "impa7" THEN {V5, V4, V3, V2, V1, <<>>}
                   ELSE {W4, W3, W2, W1, <<>>} \cup IF Amd \/ Samsung THEN {O3} ELSE {}
    /\ phase = "late" =>
          todo \in IF Samsung THEN {IF Erasing THEN C1 ELSE L1, <<>>}
                   ELSE IF Part.leaves THEN {L2, A1, <<>>} ELSE {L1, A1, <<>>}
    /\ phase = "after" =>
          todo \in IF Erasing
                   THEN IF Samsung THEN {R3, R2, R1, <<>>} ELSE {A3, A2, C2, A1, <<>>}
                   ELSE IF Samsung THEN {S5, S4, S3, R2, R1, <<>>} ELSE {N2, N1, <<>>}

-----------------------------------------------------------------------------
(* What the tables of the boards say. *)

(* Which chips, which words, which boards lock their sectors. *)
LEMMA Families ==
  ASSUME board \in Boards
  PROVE  /\ D.family \in {"intel", "amd"} /\ Width \in {2, 4} /\ D.buff.unlocks \in BOOLEAN
         /\ D.buff.unlocks => Width = 2
         /\ Amd \/ D.buff.unlocks => board \notin {"samsung", "impa7", "lart"}
         /\ Amd => ~D.buff.unlocks
  BY DriversAssumption
  DEF D, DriverOf, Driver, Width, Amd, LartBuff, Dnp1110Buff, SamsungBuff, KipdcsIntBuff,
      KipcharmIntBuff, Epxa1dbIntBuff, Impa7Buff, Ep7312Buff, LubbockBuff, CradleBuff,
      ShannonBuff, Smdk2410Buff, KipdcsAmdBuff, KipcharmAmdBuff, Epxa1dbAmdBuff, Buff

(* The programs of flash_erase. *)
LEMMA ErasePrograms ==
  ASSUME board \in Boards
  PROVE  LET p == D.erase
         IN  /\ p.before \in {E5, E3, E2}
             /\ D.buff.unlocks /\ ~Amd => p.before = E5
             /\ p.judge \in {"status", "none"} /\ p.leaves \in BOOLEAN
             /\ Amd => p.judge = "status"
             /\ ~Amd /\ ~Samsung /\ p.judge = "status" => p.before \in {E5, E3}
             /\ p.late = IF Samsung THEN C1 ELSE IF Amd THEN A1 ELSE IF p.leaves THEN L2 ELSE L1
             /\ p.leaves => ~Samsung /\ ~Amd
             /\ p.after \in IF Samsung THEN {R3} ELSE {A3, C2, A1}
  <1> USE DriversAssumption
  <1> QED
  BY
  DEF D, DriverOf, Driver, Amd, Samsung, E5, E3, E2, C1, A1, L2, L1, R3, A3, C2, Buff,
      LartBuff, Dnp1110Buff, SamsungBuff, KipdcsIntBuff,
      KipcharmIntBuff, Epxa1dbIntBuff, Impa7Buff, Ep7312Buff, LubbockBuff, CradleBuff,
      ShannonBuff, Smdk2410Buff, KipdcsAmdBuff, KipcharmAmdBuff, Epxa1dbAmdBuff,
      LartErase, Dnp1110Erase, SamsungErase, KipdcsIntErase, KipcharmIntErase,
      Epxa1dbIntErase, Impa7Erase, Ep7312Erase, LubbockErase, CradleErase, ShannonErase,
      Smdk2410Erase, KipdcsAmdErase, KipcharmAmdErase, Epxa1dbAmdErase

(* The programs of write_word. *)
LEMMA WritePrograms ==
  ASSUME board \in Boards
  PROVE  LET p == D.write
         IN  /\ p.before \in IF board = "impa7" THEN {V5} ELSE {W4, O3}
             /\ ~Amd /\ ~Samsung => p.before \in {W4, V5}
             /\ p.judge = IF Samsung THEN "again" ELSE IF Amd THEN "data"
                          ELSE IF board = "impa7" THEN "busy" ELSE "status"
             /\ p.late = IF Amd THEN <<>> ELSE L1
             /\ p.leaves = FALSE
             /\ p.after = IF Samsung THEN S5 ELSE N2
  <1> USE DriversAssumption
  <1> QED
  BY
  DEF D, DriverOf, Driver, Amd, Samsung, V5, W4, O3, L1, S5, N2, Buff,
      LartBuff, Dnp1110Buff, SamsungBuff, KipdcsIntBuff,
      KipcharmIntBuff, Epxa1dbIntBuff, Impa7Buff, Ep7312Buff, LubbockBuff, CradleBuff,
      ShannonBuff, Smdk2410Buff, KipdcsAmdBuff, KipcharmAmdBuff, Epxa1dbAmdBuff,
      LartWrite, Dnp1110Write, SamsungWrite, KipdcsIntWrite, KipcharmIntWrite,
      Epxa1dbIntWrite, Impa7Write, Ep7312Write, LubbockWrite, CradleWrite, ShannonWrite,
      Smdk2410Write, KipdcsAmdWrite, KipcharmAmdWrite, Epxa1dbAmdWrite

(* The lists that begin an erase, one by one: the first command and the rest. *)
LEMMA EraseLists ==
  /\ E1 # <<>> /\ Head(E1) = "confirm" /\ Tail(E1) = <<>>
  /\ E2 # <<>> /\ Head(E2) = "erase" /\ Tail(E2) = E1
  /\ E3 # <<>> /\ Head(E3) = "clear" /\ Tail(E3) = E2
  /\ E4 # <<>> /\ Head(E4) = "unlock" /\ Tail(E4) = E3
  /\ E5 # <<>> /\ Head(E5) = "config" /\ Tail(E5) = E4
  BY DEF E1, E2, E3, E4, E5

(* The lists that begin a program. *)
LEMMA WriteLists ==
  /\ W1 # <<>> /\ Head(W1) = "data" /\ Tail(W1) = <<>>
  /\ W2 # <<>> /\ Head(W2) = "program" /\ Tail(W2) = W1
  /\ W3 # <<>> /\ Head(W3) = "clear" /\ Tail(W3) = W2
  /\ W4 # <<>> /\ Head(W4) = "off" /\ Tail(W4) = W3
  /\ O3 # <<>> /\ Head(O3) = "off" /\ Tail(O3) = W2
  BY DEF O3, W1, W2, W3, W4

(* The same on the impa7. *)
LEMMA Impa7Lists ==
  /\ V1 # <<>> /\ Head(V1) = "status" /\ Tail(V1) = <<>>
  /\ V2 # <<>> /\ Head(V2) = "data" /\ Tail(V2) = V1
  /\ V3 # <<>> /\ Head(V3) = "program" /\ Tail(V3) = V2
  /\ V4 # <<>> /\ Head(V4) = "clear" /\ Tail(V4) = V3
  /\ V5 # <<>> /\ Head(V5) = "off" /\ Tail(V5) = V4
  BY DEF V1, V2, V3, V4, V5

(* The lists of a time-out. *)
LEMMA LateLists ==
  /\ L1 # <<>> /\ Head(L1) = "suspend" /\ Tail(L1) = <<>>
  /\ L2 # <<>> /\ Head(L2) = "suspend" /\ Tail(L2) = A1
  /\ C1 # <<>> /\ Head(C1) = "clear" /\ Tail(C1) = <<>>
  /\ A1 # <<>> /\ Head(A1) = "array" /\ Tail(A1) = <<>>
  BY DEF A1, C1, L1, L2

(* The lists that end an erase. *)
LEMMA ReturnLists ==
  /\ A1 # <<>> /\ Head(A1) = "array" /\ Tail(A1) = <<>>
  /\ A2 # <<>> /\ Head(A2) = "unlock" /\ Tail(A2) = A1
  /\ A3 # <<>> /\ Head(A3) = "config" /\ Tail(A3) = A2
  /\ C2 # <<>> /\ Head(C2) = "clear" /\ Tail(C2) = A1
  BY DEF A1, A2, A3, C2

(* The lists that end a program. *)
LEMMA ReadLists ==
  /\ N1 # <<>> /\ Head(N1) = "on" /\ Tail(N1) = <<>>
  /\ N2 # <<>> /\ Head(N2) = "array" /\ Tail(N2) = N1
  BY DEF N1, N2

(* The lists that end an erase on a Samsung board. *)
LEMMA ResumeLists ==
  /\ R1 # <<>> /\ Head(R1) = "resume" /\ Tail(R1) = <<>>
  /\ R2 # <<>> /\ Head(R2) = "array" /\ Tail(R2) = R1
  /\ R3 # <<>> /\ Head(R3) = "status" /\ Tail(R3) = R2
  BY DEF R1, R2, R3

(* The lists that end a program on a Samsung board. *)
LEMMA SamsungLists ==
  /\ R1 # <<>> /\ Head(R1) = "resume" /\ Tail(R1) = <<>>
  /\ R2 # <<>> /\ Head(R2) = "array" /\ Tail(R2) = R1
  /\ S3 # <<>> /\ Head(S3) = "on" /\ Tail(S3) = R2
  /\ S4 # <<>> /\ Head(S4) = "read" /\ Tail(S4) = S3
  /\ S5 # <<>> /\ Head(S5) = "status" /\ Tail(S5) = S4
  BY DEF R1, R2, S3, S4, S5

(* Which command follows which, in the phases and on the boards. *)
Turn(cmd, next) ==
    \/ /\ phase = "before" /\ Erasing
       /\ <<cmd, next>> \in
             {<<"config", "unlock">>, <<"unlock", "clear">>, <<"clear", "erase">>,
              <<"erase", "confirm">>, <<"confirm", Nothing>>}
    \/ /\ phase = "before" /\ ~Erasing
       /\ <<cmd, next>> \in
             {<<"off", "clear">>, <<"clear", "program">>, <<"program", "data">>}
             \cup (IF Amd \/ Samsung THEN {<<"off", "program">>} ELSE {})
             \cup IF board = "impa7" THEN {<<"data", "status">>, <<"status", Nothing>>}
                  ELSE {<<"data", Nothing>>}
    \/ /\ phase = "late" /\ Samsung
       /\ cmd = (IF Erasing THEN "clear" ELSE "suspend") /\ next = Nothing
    \/ /\ phase = "late" /\ ~Samsung
       /\ <<cmd, next>> \in
             {<<"suspend", IF Part.leaves THEN "array" ELSE Nothing>>, <<"array", Nothing>>}
    \/ /\ phase = "after" /\ ~Samsung
       /\ <<cmd, next>> \in
             IF Erasing THEN {<<"config", "unlock">>, <<"unlock", "array">>,
                              <<"clear", "array">>, <<"array", Nothing>>}
             ELSE {<<"array", "on">>, <<"on", Nothing>>}
    \/ /\ phase = "after" /\ Samsung
       /\ <<cmd, next>> \in
             {<<"array", "resume">>, <<"resume", Nothing>>}
             \cup IF Erasing THEN {<<"status", "array">>}
                  ELSE {<<"status", "read">>, <<"read", "on">>, <<"on", "array">>}

(* A command takes the turn to the one behind it, and the list stays one of *)
(* the lists.                                                               *)
LEMMA TurnsAre ==
  ASSUME TodoOK, phase \in {"before", "late", "after"}, todo # <<>>, board' = board,
         phase' = phase, call' = call, todo' = Tail(todo)
  PROVE  Turn(NextCmd, NextCmd') /\ TodoOK' /\ NextCmd = Head(todo)
  <1> DEFINE t == todo
             u == todo'
  <1>0. NextCmd = Head(t) /\ NextCmd' = (IF u # <<>> THEN Head(u) ELSE Nothing)
    BY DEF NextCmd
  <1>1. /\ Erasing' = Erasing /\ Samsung' = Samsung /\ Amd' = Amd
        /\ Part'.leaves = Part.leaves
    BY DEF Erasing, Samsung, Amd, Part, D
  <1>2. CASE phase = "before" /\ Erasing
    <2>0. \/ t = E5 /\ u = E4
          \/ t = E4 /\ u = E3
          \/ t = E3 /\ u = E2
          \/ t = E2 /\ u = E1
          \/ t = E1 /\ u = <<>>
      BY <1>2, EraseLists DEF TodoOK
    <2>1. CASE t = E5 /\ u = E4
      BY <2>1, <1>0, <1>1, <1>2, EraseLists DEF TodoOK, Turn
    <2>2. CASE t = E4 /\ u = E3
      BY <2>2, <1>0, <1>1, <1>2, EraseLists DEF TodoOK, Turn
    <2>3. CASE t = E3 /\ u = E2
      BY <2>3, <1>0, <1>1, <1>2, EraseLists DEF TodoOK, Turn
    <2>4. CASE t = E2 /\ u = E1
      BY <2>4, <1>0, <1>1, <1>2, EraseLists DEF TodoOK, Turn
    <2>5. CASE t = E1 /\ u = <<>>
      BY <2>5, <1>0, <1>1, <1>2, EraseLists DEF TodoOK, Turn
    <2> QED BY <2>0, <2>1, <2>2, <2>3, <2>4, <2>5
  <1>3. CASE phase = "before" /\ ~Erasing /\ board = "impa7"
    <2>0. \/ t = V5 /\ u = V4
          \/ t = V4 /\ u = V3
          \/ t = V3 /\ u = V2
          \/ t = V2 /\ u = V1
          \/ t = V1 /\ u = <<>>
      BY <1>3, Impa7Lists DEF TodoOK
    <2>1. CASE t = V5 /\ u = V4
      BY <2>1, <1>0, <1>1, <1>3, Impa7Lists DEF TodoOK, Turn
    <2>2. CASE t = V4 /\ u = V3
      BY <2>2, <1>0, <1>1, <1>3, Impa7Lists DEF TodoOK, Turn
    <2>3. CASE t = V3 /\ u = V2
      BY <2>3, <1>0, <1>1, <1>3, Impa7Lists DEF TodoOK, Turn
    <2>4. CASE t = V2 /\ u = V1
      BY <2>4, <1>0, <1>1, <1>3, Impa7Lists DEF TodoOK, Turn
    <2>5. CASE t = V1 /\ u = <<>>
      BY <2>5, <1>0, <1>1, <1>3, Impa7Lists DEF TodoOK, Turn
    <2> QED BY <2>0, <2>1, <2>2, <2>3, <2>4, <2>5
  <1>4. CASE phase = "before" /\ ~Erasing /\ board # "impa7"
    <2>0. \/ t = W4 /\ u = W3
          \/ t = O3 /\ u = W2 /\ (Amd \/ Samsung)
          \/ t = W3 /\ u = W2
          \/ t = W2 /\ u = W1
          \/ t = W1 /\ u = <<>>
      BY <1>4, WriteLists DEF TodoOK
    <2>1. CASE t = W4 /\ u = W3
      BY <2>1, <1>0, <1>1, <1>4, WriteLists DEF TodoOK, Turn
    <2>2. CASE t = O3 /\ u = W2 /\ (Amd \/ Samsung)
      BY <2>2, <1>0, <1>1, <1>4, WriteLists DEF TodoOK, Turn
    <2>3. CASE t = W3 /\ u = W2
      BY <2>3, <1>0, <1>1, <1>4, WriteLists DEF TodoOK, Turn
    <2>4. CASE t = W2 /\ u = W1
      BY <2>4, <1>0, <1>1, <1>4, WriteLists DEF TodoOK, Turn
    <2>5. CASE t = W1 /\ u = <<>>
      BY <2>5, <1>0, <1>1, <1>4, WriteLists DEF TodoOK, Turn
    <2> QED BY <2>0, <2>1, <2>2, <2>3, <2>4, <2>5
  <1>5. CASE phase = "late" /\ Samsung
    <2>0. \/ t = C1 /\ u = <<>> /\ Erasing
          \/ t = L1 /\ u = <<>> /\ ~Erasing
      BY <1>5, LateLists DEF TodoOK
    <2>1. CASE t = C1 /\ u = <<>> /\ Erasing
      BY <2>1, <1>0, <1>1, <1>5, LateLists DEF TodoOK, Turn
    <2>2. CASE t = L1 /\ u = <<>> /\ ~Erasing
      BY <2>2, <1>0, <1>1, <1>5, LateLists DEF TodoOK, Turn
    <2> QED BY <2>0, <2>1, <2>2
  <1>6. CASE phase = "late" /\ ~Samsung
    <2>0. \/ t = L2 /\ u = A1 /\ Part.leaves
          \/ t = A1 /\ u = <<>>
          \/ t = L1 /\ u = <<>> /\ ~Part.leaves
      BY <1>6, LateLists DEF TodoOK
    <2>1. CASE t = L2 /\ u = A1 /\ Part.leaves
      BY <2>1, <1>0, <1>1, <1>6, LateLists DEF TodoOK, Turn
    <2>2. CASE t = A1 /\ u = <<>>
      BY <2>2, <1>0, <1>1, <1>6, LateLists DEF TodoOK, Turn
    <2>3. CASE t = L1 /\ u = <<>> /\ ~Part.leaves
      BY <2>3, <1>0, <1>1, <1>6, LateLists DEF TodoOK, Turn
    <2> QED BY <2>0, <2>1, <2>2, <2>3
  <1>7. CASE phase = "after" /\ Erasing /\ Samsung
    <2>0. \/ t = R3 /\ u = R2
          \/ t = R2 /\ u = R1
          \/ t = R1 /\ u = <<>>
      BY <1>7, ResumeLists DEF TodoOK
    <2>1. CASE t = R3 /\ u = R2
      BY <2>1, <1>0, <1>1, <1>7, ResumeLists DEF TodoOK, Turn
    <2>2. CASE t = R2 /\ u = R1
      BY <2>2, <1>0, <1>1, <1>7, ResumeLists DEF TodoOK, Turn
    <2>3. CASE t = R1 /\ u = <<>>
      BY <2>3, <1>0, <1>1, <1>7, ResumeLists DEF TodoOK, Turn
    <2> QED BY <2>0, <2>1, <2>2, <2>3
  <1>8. CASE phase = "after" /\ Erasing /\ ~Samsung
    <2>0. \/ t = A3 /\ u = A2
          \/ t = A2 /\ u = A1
          \/ t = C2 /\ u = A1
          \/ t = A1 /\ u = <<>>
      BY <1>8, ReturnLists DEF TodoOK
    <2>1. CASE t = A3 /\ u = A2
      BY <2>1, <1>0, <1>1, <1>8, ReturnLists DEF TodoOK, Turn
    <2>2. CASE t = A2 /\ u = A1
      BY <2>2, <1>0, <1>1, <1>8, ReturnLists DEF TodoOK, Turn
    <2>3. CASE t = C2 /\ u = A1
      BY <2>3, <1>0, <1>1, <1>8, ReturnLists DEF TodoOK, Turn
    <2>4. CASE t = A1 /\ u = <<>>
      BY <2>4, <1>0, <1>1, <1>8, ReturnLists DEF TodoOK, Turn
    <2> QED BY <2>0, <2>1, <2>2, <2>3, <2>4
  <1>9. CASE phase = "after" /\ ~Erasing /\ Samsung
    <2>0. \/ t = S5 /\ u = S4
          \/ t = S4 /\ u = S3
          \/ t = S3 /\ u = R2
          \/ t = R2 /\ u = R1
          \/ t = R1 /\ u = <<>>
      BY <1>9, SamsungLists DEF TodoOK
    <2>1. CASE t = S5 /\ u = S4
      BY <2>1, <1>0, <1>1, <1>9, SamsungLists DEF TodoOK, Turn
    <2>2. CASE t = S4 /\ u = S3
      BY <2>2, <1>0, <1>1, <1>9, SamsungLists DEF TodoOK, Turn
    <2>3. CASE t = S3 /\ u = R2
      BY <2>3, <1>0, <1>1, <1>9, SamsungLists DEF TodoOK, Turn
    <2>4. CASE t = R2 /\ u = R1
      BY <2>4, <1>0, <1>1, <1>9, SamsungLists DEF TodoOK, Turn
    <2>5. CASE t = R1 /\ u = <<>>
      BY <2>5, <1>0, <1>1, <1>9, SamsungLists DEF TodoOK, Turn
    <2> QED BY <2>0, <2>1, <2>2, <2>3, <2>4, <2>5
  <1>10. CASE phase = "after" /\ ~Erasing /\ ~Samsung
    <2>0. \/ t = N2 /\ u = N1
          \/ t = N1 /\ u = <<>>
      BY <1>10, ReadLists DEF TodoOK
    <2>1. CASE t = N2 /\ u = N1
      BY <2>1, <1>0, <1>1, <1>10, ReadLists DEF TodoOK, Turn
    <2>2. CASE t = N1 /\ u = <<>>
      BY <2>2, <1>0, <1>1, <1>10, ReadLists DEF TodoOK, Turn
    <2> QED BY <2>0, <2>1, <2>2
  <1> QED BY <1>2, <1>3, <1>4, <1>5, <1>6, <1>7, <1>8, <1>9, <1>10 DEF Erasing, Samsung

-----------------------------------------------------------------------------
(* The chips: what a command makes of each of the fields. *)

IntelStep(x, cmd, s, L) == IntelChip(x, cmd, s \in L)

(* An Intel chip that is busy takes only "suspend".  One that shows its      *)
(* contents or its status takes a command of a single cycle or the first of  *)
(* two.  With the second an erase or a program begins, or is refused when    *)
(* the sector is locked or another one is suspended.                         *)
IntelEffect(x, cmd, s, L, z) ==
    /\ x.busy # Nothing /\ cmd # "suspend" =>
          z.mode = x.mode /\ z.busy = x.busy /\ z.halted = x.halted /\ z.error = x.error
    /\ x.busy # Nothing /\ cmd = "suspend" =>
          z.mode = "status" /\ z.busy = Nothing /\ z.halted = x.busy /\ z.error = x.error
    /\ x.busy = Nothing /\ x.mode \in {"array", "status"} =>
          /\ cmd \in {"array", "status", "erase", "program", "config"} =>
                z.mode = cmd /\ z.busy = Nothing /\ z.halted = x.halted /\ z.error = x.error
          /\ cmd = "clear" =>
                z.mode = x.mode /\ z.busy = Nothing /\ z.halted = x.halted /\ z.error = FALSE
          /\ cmd = "resume" /\ x.halted # Nothing =>
                z.mode = "status" /\ z.busy = x.halted /\ z.halted = Nothing /\ z.error = x.error
          /\ (cmd = "resume" /\ x.halted = Nothing)
                \/ cmd \in {"suspend", "unlock", "confirm", "data"} =>
                z.mode = x.mode /\ z.busy = Nothing /\ z.halted = x.halted /\ z.error = x.error
    /\ x.busy = Nothing /\ x.mode = "config" =>
          z.mode = "status" /\ z.busy = Nothing /\ z.halted = x.halted /\ z.error = x.error
    /\ x.busy = Nothing /\ (x.mode = "program" \/ (x.mode = "erase" /\ cmd = "confirm")) =>
          /\ z.mode = "status" /\ z.halted = x.halted
          /\ s \in L \/ x.halted # Nothing => z.busy = Nothing /\ z.error = TRUE
          /\ s \notin L /\ x.halted = Nothing => z.busy = x.mode /\ z.error = x.error

(* A command to an Intel chip has that effect, and keeps the types. *)
LEMMA IntelEffects ==
  ASSUME NEW x, ChipType(x), NEW cmd, NEW s, NEW L
  PROVE  LET y == IntelStep(x, cmd, s, L)
         IN  ChipType(y) /\ IntelEffect(x, cmd, s, L, y) /\ y.job = x.job
  <1> DEFINE y == IntelStep(x, cmd, s, L)
  <1>1. CASE x.busy # Nothing
    <2>1. ChipType(y) /\ y.job = x.job
      BY <1>1 DEF ChipType, IntelStep, IntelChip, Nothing
    <2>2. IntelEffect(x, cmd, s, L, y)
      BY <1>1 DEF ChipType, IntelStep, IntelChip, Nothing, IntelEffect
    <2> QED BY <2>1, <2>2
  <1>2. CASE x.busy = Nothing /\ x.mode \in {"array", "status"}
    <2>1. ChipType(y) /\ y.job = x.job
      BY <1>2 DEF ChipType, IntelStep, IntelChip, Nothing
    <2>2. IntelEffect(x, cmd, s, L, y)
      BY <1>2 DEF ChipType, IntelStep, IntelChip, Nothing, IntelEffect
    <2> QED BY <2>1, <2>2
  <1>3. CASE x.busy = Nothing /\ x.mode = "erase" /\ cmd # "confirm"
    <2>1. ChipType(y) /\ y.job = x.job
      BY <1>3 DEF ChipType, IntelStep, IntelChip, Refused, Nothing
    <2> QED BY <2>1, <1>3 DEF IntelEffect
  <1>4. CASE x.busy = Nothing /\ (x.mode \in {"program", "config"}
                \/ (x.mode = "erase" /\ cmd = "confirm"))
    <2>1. ChipType(y) /\ y.job = x.job
      BY <1>4 DEF ChipType, IntelStep, IntelChip, Refused, Nothing
    <2>2. IntelEffect(x, cmd, s, L, y)
      BY <1>4 DEF ChipType, IntelStep, IntelChip, Refused, Nothing, IntelEffect
    <2> QED BY <2>1, <2>2
  <1>5. x.mode \in {"array", "status", "erase", "program", "config"}
    BY DEF ChipType
  <1> QED BY <1>1, <1>2, <1>3, <1>4, <1>5

(* An AMD chip that is busy takes no command, one that failed only "array". *)
AmdEffect(x, cmd, z) ==
    /\ z.halted = x.halted
    /\ x.busy # Nothing => z.mode = x.mode /\ z.busy = x.busy /\ z.error = x.error
    /\ x.busy = Nothing /\ cmd = "array" =>
          z.mode = "array" /\ z.busy = Nothing /\ z.error = FALSE
    /\ x.busy = Nothing /\ x.error /\ cmd # "array" =>
          z.mode = x.mode /\ z.busy = Nothing /\ z.error = x.error
    /\ x.busy = Nothing /\ ~x.error =>
          /\ cmd \in {"erase", "program"} =>
                z.mode = cmd /\ z.busy = Nothing /\ z.error = x.error
          /\ (x.mode = "erase" /\ cmd = "confirm") \/ (x.mode = "program" /\ cmd = "data") =>
                z.mode = "array" /\ z.busy = x.mode /\ z.error = x.error
          /\ x.mode = "array" /\ cmd \notin {"array", "erase", "program"} =>
                z.mode = x.mode /\ z.busy = Nothing /\ z.error = x.error

(* The same of an AMD chip.  Only the array command takes the job away. *)
LEMMA AmdEffects ==
  ASSUME NEW x, ChipType(x), NEW cmd
  PROVE  LET y == AmdChip(x, cmd)
         IN  /\ ChipType(y) /\ AmdEffect(x, cmd, y)
             /\ cmd # "array" \/ x.busy # Nothing => y.job = x.job
  <1> DEFINE y == AmdChip(x, cmd)
  <1>1. CASE x.busy # Nothing
    <2>1. y = x
      BY <1>1 DEF AmdChip
    <2> QED BY <1>1, <2>1 DEF AmdEffect
  <1>2. CASE x.busy = Nothing /\ cmd = "array"
    <2>1. y = [x EXCEPT !.mode = "array", !.error = FALSE, !.job = <<>>]
      BY <1>2 DEF AmdChip
    <2>2. ChipType(y)
      BY <2>1 DEF ChipType
    <2> QED BY <1>2, <2>1, <2>2 DEF ChipType, AmdEffect
  <1>3. CASE x.busy = Nothing /\ cmd # "array" /\ x.error
    <2>1. y = x
      BY <1>3 DEF AmdChip
    <2> QED BY <2>1, <1>3 DEF AmdEffect
  <1>4. CASE x.busy = Nothing /\ cmd \in {"erase", "program"} /\ ~x.error
    <2>1. y = [x EXCEPT !.mode = cmd]
      BY <1>4 DEF AmdChip
    <2>2. ChipType(y)
      BY <1>4, <2>1 DEF ChipType
    <2> QED BY <1>4, <2>1, <2>2 DEF ChipType, AmdEffect
  <1>5. CASE x.busy = Nothing /\ cmd \notin {"array", "erase", "program"} /\ ~x.error
    <2>1. CASE x.mode = "program" \/ (x.mode = "erase" /\ cmd = "confirm")
      <3>1. y = [x EXCEPT !.busy = x.mode, !.mode = "array"]
        BY <1>5, <2>1 DEF AmdChip
      <3>2. ChipType(y)
        BY <2>1, <3>1 DEF ChipType
      <3> QED BY <1>5, <2>1, <3>1, <3>2 DEF ChipType, AmdEffect
    <2>2. CASE ~(x.mode = "program" \/ (x.mode = "erase" /\ cmd = "confirm"))
      <3>1. y = x
        BY <1>5, <2>2 DEF AmdChip
      <3> QED BY <1>5, <2>2, <3>1 DEF AmdEffect
    <2> QED BY <2>1, <2>2
  <1> QED BY <1>1, <1>2, <1>3, <1>4, <1>5

(* Another chip with the same fields. *)
LEMMA SameFields ==
  ASSUME NEW x, NEW y, NEW z, NEW cmd, z.mode = y.mode, z.busy = y.busy,
         z.halted = y.halted, z.error = y.error
  PROVE  /\ \A s, L : IntelEffect(x, cmd, s, L, y) => IntelEffect(x, cmd, s, L, z)
         /\ AmdEffect(x, cmd, y) => AmdEffect(x, cmd, z)
  BY DEF IntelEffect, AmdEffect

(* A chip that is given its job. *)
LEMMA JobGiven ==
  ASSUME NEW x, ChipType(x), NEW j
  PROVE  LET z == [x EXCEPT !.job = j]
         IN  /\ ChipType(z) /\ z.mode = x.mode /\ z.busy = x.busy /\ z.halted = x.halted
             /\ z.error = x.error /\ z.job = j
  BY DEF ChipType

-----------------------------------------------------------------------------
(* The inductive invariant. *)

InUnit == phase \in {"before", "poll", "late", "after"}

(* The chips were told to begin. *)
Launched ==
    \/ phase \in {"poll", "late", "after"}
    \/ phase = "before" /\ NextCmd \in {Nothing, "status"}

Kind == IF Erasing THEN "erase" ELSE "program"
UnitOf(a) == IF Erasing THEN SectorOf(a) ELSE WordOf(a)
InRange(a) == (IF Erasing THEN SectorOf(a) ELSE a) \in call.from..call.to

(* What a cell is to be in the end. *)
Target(a) == IF ~InRange(a) THEN before.cell[a] ELSE IF Erasing THEN Bits ELSE src[a]

Mine(c) == {a \in Addr : UnitOf(a) = call.at /\ Lane(a) = c}
UnitDone(c) == \A a \in Mine(c) : cell[a] = Target(a)

PhaseOK ==
    /\ phase # "idle" => call.op # Nothing
    /\ phase \in {"unlock", "unlocked", "lock", "locked"} => ~Erasing /\ D.buff.unlocks
    /\ InUnit => call.at <= call.to
    /\ phase \in {"lock", "locked", "idle"} /\ call.op # Nothing /\ rc = "OK" =>
          call.at > call.to
    /\ phase = "late" => seen = "late" /\ before.fault

(* Interrupts come between two units only, once the commands that turn them *)
(* off and on are given, and not in an erase.  There they do come.          *)
IrqOK ==
    /\ \/ phase = "idle"
       \/ ~Erasing /\ ~InUnit
       \/ /\ ~Erasing /\ phase = "after"
          /\ NextCmd \in IF Samsung THEN {"array", "resume", Nothing} ELSE {Nothing}
       => irq
    /\ phase # "idle" /\ irq /\ ~Samsung =>
          /\ ~Erasing
          /\ \/ ~InUnit
             \/ phase = "before" /\ NextCmd = "off"
             \/ phase = "after" /\ NextCmd = Nothing

(* samsung resumes what it suspended before it returns. *)
SamsungOK ==
    Samsung => \A c \in Chips :
        /\ chip[c].busy # Nothing => chip[c].halted = Nothing /\ chip[c].mode = "status"
        /\ chip[c].mode = "erase" => phase = "before" /\ NextCmd = "confirm"
        /\ chip[c].mode = "program" => phase = "before" /\ NextCmd = "data"
        /\ chip[c].mode = "config" => phase = "before" /\ NextCmd = "unlock"
        /\ chip[c].halted # Nothing =>
              /\ phase \in {"late", "after"} /\ seen # "ok" /\ before.fault
              /\ phase = "after" => NextCmd # Nothing

(* The sectors a call works on are unlocked in the chip. *)
LocksOK ==
    /\ ~D.buff.unlocks => locked = {}
    /\ D.buff.unlocks /\ ~Erasing /\ (phase \in {"unlocked", "unit"} \/ InUnit) =>
          locked \cap SectorsUnlocked = {}

(* All that follows is about a call that began with readable flash. *)

(* The mode of a chip at each point of a program. *)
ModeOK == \A c \in Chips :
    /\ phase \in {"unlock", "unit", "lock"} \/ (phase = "before" /\ NextCmd = "off") =>
          Readable(c)
    /\ phase # "idle" =>
          chip[c].mode \in
              IF chip[c].busy # Nothing THEN {IF Amd THEN "array" ELSE "status"}
              ELSE IF NextCmd = "confirm" THEN {"erase"}
              ELSE IF NextCmd = "data" THEN {"program"}
              ELSE IF Amd THEN {"array"}
              ELSE IF NextCmd = "unlock"
                THEN IF phase = "before" THEN {"config"} ELSE {"array", "status", "config"}
              ELSE {"array", "status"}

(* A chip that is busy, that samsung may resume, or that shows the status of *)
(* a failure by DQ7, works on the unit and has to make its target of it.     *)
JobOK == \A c \in Chips :
    /\ \/ chip[c].busy # Nothing
       \/ Samsung /\ chip[c].halted # Nothing
       \/ Amd /\ chip[c].error
    /\ phase # "idle"
    => /\ Launched
       /\ chip[c].busy \in {Nothing, Kind}
       /\ Samsung => chip[c].halted \in {Nothing, Kind}
       /\ Amd /\ chip[c].busy # Nothing => ~chip[c].error
       /\ chip[c].job = [a \in Mine(c) |-> Target(a)]

(* An AMD chip shows an error only when something went wrong, and until it  *)
(* is judged.                                                              *)
AmdOK ==
    Amd /\ (~before.fault \/ (phase = "after" /\ seen = "ok")) =>
        \A c \in Chips : ~chip[c].error

(* Why a driver may go on while a chip is still busy. *)
Escape == (before.fault /\ ~Suspends) \/ (board = "impa7" /\ seen = "error")

(* The array was read again. *)
Shown ==
    phase = "after" /\ NextCmd \in IF Samsung THEN {"resume", Nothing} ELSE {"on", Nothing}

ReadyOK ==
    /\ phase = "late" /\ Suspends =>
          /\ NextCmd # "suspend" => Ready
          /\ Part.leaves /\ NextCmd = Nothing => AllReadable
    /\ phase = "after" /\ (seen = "ok" \/ ~Escape) => Ready /\ (Shown => AllReadable)
    /\ phase = "idle" /\ board # "impa7" => AllReadable \/ (before.fault /\ ~Suspends)

(* The word to write is the target of its unit, and the bits it needs are   *)
(* there (lart looks at other lines).                                      *)
WordOK ==
    ~Erasing /\ InUnit =>
        /\ call.word = [j \in 0..(Width - 1) |-> Target(call.at + j)]
        /\ board # "lart" => \A a \in Addr : UnitOf(a) = call.at => Target(a) \subseteq cell[a]

(* The units before this one are done, the cells beside the range and behind *)
(* the unit are as they were.                                                *)
CellsOK ==
    call.op # Nothing => \A a \in Addr :
        /\ \/ ~InRange(a)
           \/ UnitOf(a) > call.at
           \/ UnitOf(a) = call.at /\ phase \in {"unlock", "unlocked", "unit"}
           => cell[a] = before.cell[a]
        /\ UnitOf(a) < call.at /\ InRange(a) /\ Judges => cell[a] = Target(a)

(* A chip that is ready and shows no error has done its part, and "ok" says *)
(* so of all of them.                                                       *)
DoneOK ==
    /\ \/ phase = "before" /\ Launched
       \/ phase = "poll"
       \/ /\ Samsung /\ ~Erasing
          /\ phase = "late" \/ (phase = "after" /\ NextCmd \in {"status", "read"})
       => \A c \in Chips :
            /\ chip[c].busy = Nothing /\ ~chip[c].error
            /\ Samsung => chip[c].halted = Nothing
            /\ board = "lart" => Erasing
            => UnitDone(c)
    /\ phase = "after" /\ seen = "ok" /\ Judges => \A c \in Chips : UnitDone(c)

(* The status was reset, or nobody looks at it. *)
Reset ==
    /\ ~Amd /\ Part.judge # "none"
    /\ \/ phase \in {"poll", "after"}
       \/ phase = "before" /\ NextCmd \notin {"off", "config", "unlock", "clear"}

(* While nothing goes wrong. *)
CleanOK ==
    ~before.fault /\ ~before.halted /\ ~Samsung =>
        /\ phase # "late" /\ \A c \in Chips : chip[c].halted = Nothing
        /\ phase = "after" => seen = "ok"
        /\ phase \in {"idle", "lock", "locked"} => rc \in {"OK", "NOT_ERASED"}
        /\ call.op # Nothing /\ Reset => \A c \in Chips : ~chip[c].error
        /\ D.buff.unlocks /\ Erasing /\ phase = "before" /\ NextCmd \notin {"config", "unlock"} =>
              call.at \notin locked

Control == TypeOK /\ TodoOK /\ PhaseOK /\ IrqOK /\ SamsungOK /\ LocksOK
Work == ModeOK /\ JobOK /\ AmdOK /\ ReadyOK /\ WordOK /\ CellsOK /\ DoneOK /\ CleanOK
DriverInv == Control /\ (before.readable => Work)

-----------------------------------------------------------------------------
(* What an action that leaves the board, or the call, alone leaves alone. *)
LEMMA SameBoard ==
  ASSUME board' = board
  PROVE  /\ D' = D /\ Width' = Width /\ Chips' = Chips /\ Amd' = Amd /\ Samsung' = Samsung
         /\ Suspends' = Suspends
         /\ \A a : Lane(a)' = Lane(a) /\ WordOf(a)' = WordOf(a)
  BY DEF D, Width, Chips, Amd, Samsung, Suspends, Lane, WordOf

(* What depends on the board and on the call alone. *)
LEMMA SameCall ==
  ASSUME board' = board, call' = call
  PROVE  /\ Part' = Part /\ Erasing' = Erasing /\ Kind' = Kind /\ Judges' = Judges
         /\ SectorsUnlocked' = SectorsUnlocked
         /\ \A a : UnitOf(a)' = UnitOf(a) /\ InRange(a)' = InRange(a)
         /\ \A c \in Chips : Mine(c)' = Mine(c)
  <1>1. Part' = Part /\ Erasing' = Erasing /\ Kind' = Kind /\ Judges' = Judges
    BY SameBoard DEF Part, Erasing, Kind, Judges
  <1>2. \A a : UnitOf(a)' = UnitOf(a)
    BY <1>1, SameBoard DEF UnitOf, SectorOf
  <1>3. \A a : InRange(a)' = InRange(a)
    BY <1>1 DEF InRange, SectorOf
  <1>4. \A c \in Chips : Mine(c)' = Mine(c)
    BY <1>2, SameBoard DEF Mine
  <1>5. SectorsUnlocked' = SectorsUnlocked
    BY DEF SectorsUnlocked
  <1> QED BY <1>1, <1>2, <1>3, <1>4, <1>5

(* What depends on the call, its source and the cells it found. *)
LEMMA SameTargets ==
  ASSUME board' = board, call' = call, src' = src, before'.cell = before.cell
  PROVE  \A a : Target(a)' = Target(a)
  BY SameCall DEF Target

(* What depends on these and on the cells. *)
LEMMA SameUnit ==
  ASSUME board' = board, call' = call, src' = src, before'.cell = before.cell, cell' = cell
  PROVE  \A c \in Chips : UnitDone(c)' = UnitDone(c)
  <1>1. \A a : Target(a)' = Target(a)
    BY SameTargets
  <1>2. \A c \in Chips : Mine(c)' = Mine(c) /\ Mine(c) \subseteq Addr
    BY SameCall DEF Mine
  <1> QED BY <1>1, <1>2 DEF UnitDone

(* The commands of the phases. *)
LEMMA Commands ==
  ASSUME TodoOK
  PROVE  /\ phase \notin {"before", "late", "after"} => NextCmd = Nothing
         /\ phase = "before" =>
               NextCmd \in IF Erasing
                           THEN {"config", "unlock", "clear", "erase", "confirm", Nothing}
                           ELSE {"off", "clear", "program", "data", "status", Nothing}
         /\ phase = "late" => NextCmd \in {"suspend", "array", "clear", Nothing}
         /\ phase = "after" =>
               NextCmd \in {"config", "unlock", "clear", "array", "status", "read", "on",
                           "resume", Nothing}
  <1>0. ASSUME phase \in {"before", "late", "after"}
        PROVE  (todo = <<>> /\ NextCmd = Nothing) \/ (todo # <<>> /\ NextCmd = Head(todo))
    BY <1>0 DEF NextCmd
  <1>1. CASE phase = "before"
    <2>1. CASE Erasing
      <3>1. todo \in {E5, E4, E3, E2, E1, <<>>}
        BY <1>1, <2>1 DEF TodoOK
      <3>2. Head(todo) \in {"config", "unlock", "clear", "erase", "confirm"} \/ todo = <<>>
        BY <3>1, EraseLists
      <3> QED BY <1>0, <1>1, <2>1, <3>2
    <2>2. CASE ~Erasing /\ board = "impa7"
      <3>1. todo \in {V5, V4, V3, V2, V1, <<>>}
        BY <1>1, <2>2 DEF TodoOK
      <3>2. Head(todo) \in {"off", "clear", "program", "data", "status"} \/ todo = <<>>
        BY <3>1, Impa7Lists
      <3> QED BY <1>0, <1>1, <2>2, <3>2
    <2>3. CASE ~Erasing /\ board # "impa7"
      <3>1. todo \in {W4, O3, W3, W2, W1, <<>>}
        BY <1>1, <2>3 DEF TodoOK
      <3>2. Head(todo) \in {"off", "clear", "program", "data"} \/ todo = <<>>
        BY <3>1, WriteLists
      <3> QED BY <1>0, <1>1, <2>3, <3>2
    <2> QED BY <2>1, <2>2, <2>3
  <1>2. CASE phase = "late"
    <2>1. todo \in {C1, L1, L2, A1, <<>>}
      BY <1>2 DEF TodoOK
    <2>2. Head(todo) \in {"suspend", "array", "clear"} \/ todo = <<>>
      BY <2>1, LateLists
    <2> QED BY <1>0, <1>2, <2>2
  <1>3. CASE phase = "after"
    <2>1. CASE Erasing /\ Samsung
      <3>1. todo \in {R3, R2, R1, <<>>}
        BY <1>3, <2>1 DEF TodoOK
      <3>2. Head(todo) \in {"status", "array", "resume"} \/ todo = <<>>
        BY <3>1, ResumeLists
      <3> QED BY <1>0, <1>3, <2>1, <3>2
    <2>2. CASE Erasing /\ ~Samsung
      <3>1. todo \in {A3, A2, C2, A1, <<>>}
        BY <1>3, <2>2 DEF TodoOK
      <3>2. Head(todo) \in {"config", "unlock", "clear", "array"} \/ todo = <<>>
        BY <3>1, ReturnLists
      <3> QED BY <1>0, <1>3, <2>2, <3>2
    <2>3. CASE ~Erasing /\ Samsung
      <3>1. todo \in {S5, S4, S3, R2, R1, <<>>}
        BY <1>3, <2>3 DEF TodoOK
      <3>2. Head(todo) \in {"status", "read", "on", "array", "resume"} \/ todo = <<>>
        BY <3>1, SamsungLists
      <3> QED BY <1>0, <1>3, <2>3, <3>2
    <2>4. CASE ~Erasing /\ ~Samsung
      <3>1. todo \in {N2, N1, <<>>}
        BY <1>3, <2>4 DEF TodoOK
      <3>2. Head(todo) \in {"array", "on"} \/ todo = <<>>
        BY <3>1, ReadLists
      <3> QED BY <1>0, <1>3, <2>4, <3>2
    <2> QED BY <2>1, <2>2, <2>3, <2>4
  <1> QED BY <1>1, <1>2, <1>3 DEF NextCmd

(* The numbers of a call. *)
LEMMA CallNumbers ==
  ASSUME TypeOK, call.op # Nothing
  PROVE  /\ call.at \in Nat /\ call.from \in Nat /\ call.to \in Int
         /\ Erasing => /\ call.from <= call.at /\ call.at <= Sectors
                       /\ call.to <= Sectors - 1
                       /\ call = [op |-> "erase", at |-> call.at, from |-> call.from,
                                  to |-> call.to]
         /\ ~Erasing => /\ call.op = "write" /\ call.from \in Addr /\ call.to \in Addr
                        /\ call.at % Width = 0 /\ call.from < call.at + Width
                        /\ call = [op |-> "write", at |-> call.at, from |-> call.from,
                                   to |-> call.to, word |-> call.word]
  <1>1. call # [op |-> Nothing]
    OBVIOUS
  <1>2. CASE /\ call = [op |-> "erase", at |-> call.at, from |-> call.from, to |-> call.to]
             /\ call.from \in 0..(Sectors - 1) /\ call.to \in -1..(Sectors - 1)
             /\ call.at \in call.from..Sectors
    BY <1>2, DriversAssumption DEF Erasing
  <1>3. CASE /\ call = [op |-> "write", at |-> call.at, from |-> call.from, to |-> call.to,
                        word |-> call.word]
             /\ call.from \in Addr /\ call.to \in Addr
             /\ call.at \in Nat /\ call.at % Width = 0 /\ call.from < call.at + Width
    BY <1>3 DEF Erasing, Addr
  <1> QED BY <1>1, <1>2, <1>3 DEF TypeOK, CallType

-----------------------------------------------------------------------------
(* A chip is done. *)

(* What it does to itself, and that it is the unit's cells it touches. *)
LEMMA FinishChips ==
  ASSUME TypeOK, NEW c, Finish(c)
  PROVE  /\ c \in Chips /\ chip[c].busy # Nothing /\ phase # "idle"
         /\ \A d \in Chips :
               /\ ChipType(chip'[d]) /\ (d # c => chip'[d] = chip[d])
               /\ chip'[d].mode = chip[d].mode /\ chip'[d].halted = chip[d].halted
         /\ chip' = [d \in Chips |-> chip'[d]]
         /\ chip'[c].busy = Nothing
         /\ \/ /\ before' = before /\ chip'[c].error = chip[c].error
               /\ \A a \in Addr :
                     cell'[a] = IF a \notin DOMAIN chip[c].job THEN cell[a]
                                ELSE IF chip[c].busy = "erase" THEN Bits
                                ELSE cell[a] \cap chip[c].job[a]
            \/ /\ before' = [before EXCEPT !.fault = TRUE] /\ cell' = cell
               /\ chip'[c].error = TRUE /\ (Amd => chip'[c].job = chip[c].job)
         /\ cell' \in [Addr -> SUBSET Bits]
  <1>1. c \in Chips /\ chip[c].busy # Nothing /\ phase # "idle"
    BY DEF Finish
  <1> DEFINE x == chip[c]
  <1>2. ChipType(x) /\ chip = [d \in Chips |-> chip[d]] /\ cell \in [Addr -> SUBSET Bits]
    BY <1>1 DEF TypeOK
  <1>3. CASE /\ cell' = [a \in Addr |->
                         IF a \notin DOMAIN chip[c].job THEN cell[a]
                         ELSE IF chip[c].busy = "erase" THEN Bits
                         ELSE cell[a] \cap chip[c].job[a]]
             /\ chip' = [chip EXCEPT ![c].busy = Nothing, ![c].job = <<>>]
             /\ before' = before
    <2>1. chip'[c] = [mode |-> x.mode, busy |-> Nothing, halted |-> x.halted,
                      error |-> x.error, job |-> <<>>]
      BY <1>1, <1>2, <1>3 DEF ChipType
    <2>2. ChipType(chip'[c])
      BY <2>1, <1>2 DEF ChipType
    <2>3. cell' \in [Addr -> SUBSET Bits]
      BY <1>2, <1>3
    <2>4. \A d \in Chips : d # c => chip'[d] = chip[d] /\ ChipType(chip'[d])
      BY <1>2, <1>3 DEF TypeOK
    <2>5. chip' = [d \in Chips |-> chip'[d]]
      BY <1>2, <1>3
    <2>6. \A a \in Addr :
             cell'[a] = IF a \notin DOMAIN chip[c].job THEN cell[a]
                        ELSE IF chip[c].busy = "erase" THEN Bits
                        ELSE cell[a] \cap chip[c].job[a]
      BY <1>3
    <2>7. /\ chip'[c].mode = chip[c].mode /\ chip'[c].halted = chip[c].halted
          /\ chip'[c].error = chip[c].error /\ chip'[c].busy = Nothing
      BY <2>1
    <2> QED BY <1>1, <1>3, <2>2, <2>3, <2>4, <2>5, <2>6, <2>7
  <1>4. CASE /\ chip' = [chip EXCEPT ![c].busy = Nothing, ![c].error = TRUE,
                                     ![c].job = IF D.family = "amd" THEN @ ELSE <<>>]
             /\ before' = [before EXCEPT !.fault = TRUE] /\ cell' = cell
    <2>1. chip'[c] = [mode |-> x.mode, busy |-> Nothing, halted |-> x.halted,
                      error |-> TRUE, job |-> IF Amd THEN x.job ELSE <<>>]
      BY <1>1, <1>2, <1>4 DEF ChipType, Amd
    <2>2. ChipType(chip'[c])
      BY <2>1, <1>2 DEF ChipType
    <2>4. \A d \in Chips : d # c => chip'[d] = chip[d] /\ ChipType(chip'[d])
      BY <1>2, <1>4 DEF TypeOK
    <2>5. chip' = [d \in Chips |-> chip'[d]]
      BY <1>2, <1>4
    <2>7. /\ chip'[c].mode = chip[c].mode /\ chip'[c].halted = chip[c].halted
          /\ chip'[c].error = TRUE /\ chip'[c].busy = Nothing
          /\ Amd => chip'[c].job = chip[c].job
      BY <2>1
    <2> QED BY <1>1, <1>2, <1>4, <2>2, <2>4, <2>5, <2>7
  <1> QED BY <1>3, <1>4 DEF Finish

(* The end of a chip's job is of no account to the others. *)
LEMMA OtherChips ==
  ASSUME TypeOK, NEW c, Finish(c)
  PROVE  \A d \in Chips : d # c => chip'[d] = chip[d]
  <1>1. chip = [d \in Chips |-> chip[d]]
    BY DEF TypeOK
  <1>2. CASE chip' = [chip EXCEPT ![c].busy = Nothing, ![c].job = <<>>]
    BY <1>1, <1>2
  <1>3. CASE chip' = [chip EXCEPT ![c].busy = Nothing, ![c].error = TRUE,
                                  ![c].job = IF D.family = "amd" THEN @ ELSE <<>>]
    BY <1>1, <1>3
  <1> QED BY <1>2, <1>3 DEF Finish

(* The unit's bytes of two chips are different ones; those of all are the unit. *)
LEMMA Lanes ==
  ASSUME board \in Boards, NEW a \in Addr
  PROVE  /\ Lane(a) \in Chips
         /\ \A c, d : a \in Mine(c) /\ a \in Mine(d) => c = d
         /\ UnitOf(a) = call.at => a \in Mine(Lane(a))
  BY Families DEF Lane, Chips, Mine, Addr

(* A chip that ends its job, with success or not, keeps the invariant. *)
LEMMA FinishInv ==
  ASSUME DriverInv, NEW c, Finish(c)
  PROVE  DriverInv'
  <1> USE DEF DriverInv, Control
  <1> DEFINE R == before.readable
  <1>1. /\ board' = board /\ call' = call /\ phase' = phase /\ todo' = todo /\ seen' = seen
        /\ irq' = irq /\ locked' = locked /\ rc' = rc /\ src' = src /\ calls' = calls
    BY DEF Finish
  <1>2. /\ faults' \in Nat /\ before'.cell = before.cell
        /\ before'.readable = before.readable /\ before'.halted = before.halted
        /\ (before.fault => before'.fault) /\ before'.fault \in BOOLEAN
        /\ before' = [cell |-> before'.cell, readable |-> before'.readable,
                      fault |-> before'.fault, halted |-> before'.halted]
    <2>1. before' = before \/ before' = [before EXCEPT !.fault = TRUE]
      BY DEF Finish
    <2>2. faults' \in Nat
      BY DEF Finish, TypeOK
    <2> QED BY <2>1, <2>2 DEF TypeOK
  <1>3. /\ NextCmd' = NextCmd /\ InUnit' = InUnit /\ Launched' = Launched
    BY <1>1 DEF NextCmd, InUnit, Launched
  <1>4. TypeOK'
    <2>1. CallType'
      BY <1>1, SameBoard DEF TypeOK, CallType
    <2>2. \A d \in Chips' : ChipType(chip[d])'
      BY FinishChips, <1>1, SameBoard
    <2> QED BY <1>1, <1>2, <2>1, <2>2, FinishChips, SameBoard DEF TypeOK
  <1>5. TodoOK'
    BY <1>1, SameBoard, SameCall DEF TodoOK
  <1>6. PhaseOK'
    BY <1>1, <1>2, SameBoard, SameCall, <1>3 DEF PhaseOK
  <1>7. IrqOK'
    BY <1>1, <1>3, SameBoard, SameCall DEF IrqOK
  <1>8. SamsungOK'
    <2> SUFFICES ASSUME Samsung, NEW d \in Chips
                 PROVE  (/\ chip[d].busy # Nothing =>
                              chip[d].halted = Nothing /\ chip[d].mode = "status"
                         /\ chip[d].mode = "erase" => phase = "before" /\ NextCmd = "confirm"
                         /\ chip[d].mode = "program" => phase = "before" /\ NextCmd = "data"
                         /\ chip[d].mode = "config" => phase = "before" /\ NextCmd = "unlock"
                         /\ chip[d].halted # Nothing =>
                               /\ phase \in {"late", "after"} /\ seen # "ok" /\ before.fault
                               /\ phase = "after" => NextCmd # Nothing)'
      BY SameBoard, <1>1 DEF SamsungOK
    <2> QED BY <1>1, <1>2, <1>3, FinishChips DEF SamsungOK
  <1>9. LocksOK'
    BY <1>1, <1>3, SameBoard, SameCall DEF LocksOK
  <1>10. ASSUME R  PROVE Work'
    <2>1. Work
      BY <1>10
    <2> USE DEF Work
    <2> DEFINE x == chip[c]
    <2>2. c \in Chips /\ x.busy # Nothing /\ phase # "idle"
      BY FinishChips
    <2>3. /\ Launched /\ x.busy = Kind /\ x.job = [a \in Mine(c) |-> Target(a)]
          /\ (Samsung => x.halted = Nothing) /\ (Amd => ~x.error)
      BY <2>1, <2>2 DEF JobOK, SamsungOK
    <2>4. ~Ready
      BY <2>2 DEF Ready
    <2>5. \A a : Target(a)' = Target(a) /\ UnitOf(a)' = UnitOf(a)
                         /\ InRange(a)' = InRange(a)
      BY <1>1, <1>2, SameTargets, SameCall
    <2>6. \A d \in Chips : Mine(d)' = Mine(d)
      BY <1>1, SameCall
    <2>7. \A a \in Addr \ Mine(c) : cell'[a] = cell[a]
      BY FinishChips, <2>3
    <2>8. \A a \in Mine(c) : a \in Addr /\ UnitOf(a) = call.at
      BY DEF Mine
    <2>9. Erasing => \A a \in Mine(c) : InRange(a) /\ Target(a) = Bits
      <3>1. InUnit
        BY <2>3 DEF Launched, InUnit
      <3>2. Erasing => call.at \in call.from..call.to
        <4>1. Erasing => call.at \in call.from..Sectors /\ call.to \in Int /\ call.from \in Int
          BY DEF TypeOK, CallType, Erasing, Nothing
        <4> QED BY <3>1, <4>1, DriversAssumption DEF PhaseOK
      <3> QED BY <2>8, <3>2 DEF UnitOf, InRange, Target
    <2>10. \/ /\ before' = before /\ chip'[c].error = x.error
              /\ \A a \in Mine(c) : cell'[a] = IF Erasing THEN Target(a)
                                                ELSE cell[a] \cap Target(a)
           \/ /\ before'.fault /\ cell' = cell /\ chip'[c].error = TRUE
              /\ Amd => chip'[c].job = x.job
      <3>1. DOMAIN x.job = Mine(c) /\ \A a \in Mine(c) : x.job[a] = Target(a)
        BY <2>3
      <3>2. x.busy = "erase" <=> Erasing
        BY <2>3 DEF Kind
      <3>3. ASSUME before' = [before EXCEPT !.fault = TRUE]  PROVE before'.fault
        BY <3>3 DEF TypeOK
      <3>4. CASE /\ before' = before /\ chip'[c].error = chip[c].error
                 /\ \A a \in Addr :
                       cell'[a] = IF a \notin DOMAIN chip[c].job THEN cell[a]
                                  ELSE IF chip[c].busy = "erase" THEN Bits
                                  ELSE cell[a] \cap chip[c].job[a]
        <4>1. \A a \in Mine(c) : cell'[a] = IF Erasing THEN Target(a)
                                             ELSE cell[a] \cap Target(a)
          BY <3>1, <3>2, <3>4, <2>8, <2>9
        <4> QED BY <3>4, <4>1
      <3> QED BY <3>3, <3>4, FinishChips
    <2>11. \A a \in Mine(c) : ~InRange(a) => Target(a) = before.cell[a]
                                             /\ cell[a] = before.cell[a]
      <3>1. call.op # Nothing
        BY <2>2 DEF PhaseOK
      <3> QED BY <2>1, <2>8, <3>1 DEF CellsOK, Target
    <2>12. \A a \in Mine(c) : /\ ~InRange(a) => cell'[a] = before.cell[a]
                              /\ Target(a) \subseteq cell[a] => Target(a) \subseteq cell'[a]
      BY <2>8, <2>10, <2>11
    <2>13. chip'[c].error = TRUE \/ (board = "lart" /\ ~Erasing) \/ UnitDone(c)'
      <3> SUFFICES ASSUME ~(board = "lart" /\ ~Erasing), chip'[c].error # TRUE, NEW a \in Mine(c)
                   PROVE  cell'[a] = Target(a)
        BY <2>2, <2>5, <2>6, <2>8 DEF UnitDone
      <3>1. CASE Erasing
        BY <2>10, <3>1
      <3>2. CASE ~Erasing
        <4>1. InUnit
          BY <2>3 DEF Launched, InUnit
        <4>2. Target(a) \subseteq cell[a]
          BY <2>1, <2>8, <3>2, <4>1 DEF WordOK
        <4> QED BY <2>10, <3>2, <4>2
      <3> QED BY <3>1, <3>2
    <2>14. \A d \in Chips : d # c /\ UnitDone(d) => UnitDone(d)'
      <3> SUFFICES ASSUME NEW d \in Chips, d # c, UnitDone(d), NEW a \in Mine(d)
                   PROVE  cell'[a] = Target(a)
        BY <2>5, <2>6 DEF UnitDone, Mine
      <3>1. a \in Addr /\ a \notin Mine(c)
        BY Lanes DEF Mine, TypeOK
      <3> QED BY <3>1, <2>7 DEF UnitDone
    <2>15. \A d \in Chips : d # c => chip'[d] = chip[d]
      <3> HIDE DEF Work, R, x
      <3>1. TypeOK
        OBVIOUS
      <3> HIDE DEF DriverInv, Control
      <3> QED BY <3>1, OtherChips
    <2>16. /\ chip'[c].mode = x.mode /\ chip'[c].halted = x.halted /\ chip'[c].busy = Nothing
      BY FinishChips
    <2>17. \A d \in Chips : Readable(d) => d # c /\ Readable(d)'
      BY <2>2, <2>15, <1>1, SameBoard DEF Readable
    <2>18. ModeOK'
      <3> SUFFICES ASSUME NEW d \in Chips
                   PROVE  /\ \/ phase \in {"unlock", "unit", "lock"}
                             \/ phase = "before" /\ NextCmd = "off"
                             => Readable(d)'
                          /\ chip'[d].mode \in
                               IF chip'[d].busy # Nothing THEN {IF Amd THEN "array" ELSE "status"}
                               ELSE IF NextCmd = "confirm" THEN {"erase"}
                               ELSE IF NextCmd = "data" THEN {"program"}
                               ELSE IF Amd THEN {"array"}
                               ELSE IF NextCmd = "unlock"
                                 THEN IF phase = "before" THEN {"config"}
                                      ELSE {"array", "status", "config"}
                               ELSE {"array", "status"}
        BY <1>1, <1>3, SameBoard DEF ModeOK
      <3>1. CASE d # c
        BY <2>1, <2>2, <2>15, <2>17, <3>1 DEF ModeOK
      <3>2. CASE d = c
        <4>1. ~(phase \in {"unlock", "unit", "lock"} \/ (phase = "before" /\ NextCmd = "off"))
          BY <2>3 DEF Launched, Nothing
        <4>2. NextCmd \notin {"confirm", "data"} /\ (NextCmd = "unlock" => phase # "before")
          BY <2>3, Commands DEF Launched, Nothing
        <4>3. x.mode = IF Amd THEN "array" ELSE "status"
          BY <2>1, <2>2 DEF ModeOK
        <4> QED BY <2>16, <3>2, <4>1, <4>2, <4>3
      <3> QED BY <3>1, <3>2
    <2>19. JobOK'
      <3> SUFFICES ASSUME NEW d \in Chips,
                          \/ chip'[d].busy # Nothing
                          \/ Samsung /\ chip'[d].halted # Nothing
                          \/ Amd /\ chip'[d].error
                   PROVE  /\ Launched
                          /\ chip'[d].busy \in {Nothing, Kind}
                          /\ Samsung => chip'[d].halted \in {Nothing, Kind}
                          /\ Amd /\ chip'[d].busy # Nothing => ~chip'[d].error
                          /\ chip'[d].job = [a \in Mine(d) |-> Target(a)]
        <4>1. \A d \in Chips : [a \in Mine(d) |-> Target(a)]' = [a \in Mine(d) |-> Target(a)]
          BY <2>5, <2>6 DEF Mine
        <4> QED BY <4>1, <1>1, <1>3, SameBoard, SameCall DEF JobOK
      <3>1. CASE d # c
        BY <2>1, <2>2, <2>15, <3>1 DEF JobOK
      <3>2. CASE d = c
        BY <2>3, <2>10, <2>16, <3>2
      <3> QED BY <3>1, <3>2
    <2>20. AmdOK'
      BY <2>1, <2>2, <2>4, <2>10, <2>15, <1>1, <1>2, SameBoard DEF AmdOK, ReadyOK
    <2>21. ReadyOK'
      <3>1. phase = "late" /\ Suspends => NextCmd = "suspend"
        BY <2>1, <2>4 DEF ReadyOK
      <3>2. phase = "after" => seen # "ok" /\ Escape
        BY <2>1, <2>4 DEF ReadyOK
      <3>3. Escape => Escape'
        BY <1>1, <1>2, SameBoard DEF Escape
      <3> QED BY <2>2, <3>1, <3>2, <3>3, <1>1, <1>3, SameBoard, SameCall DEF ReadyOK, Nothing
    <2>22. WordOK'
      <3>1. \A a \in Addr : UnitOf(a) = call.at /\ Target(a) \subseteq cell[a] =>
                              Target(a) \subseteq cell'[a]
        BY <2>7, <2>12
      <3>2. [j \in 0..(Width - 1) |-> Target(call.at + j)]'
              = [j \in 0..(Width - 1) |-> Target(call.at + j)]
        BY <2>5, <1>1, SameBoard
      <3> QED BY <2>1, <2>5, <3>1, <3>2, <1>1, <1>3, SameBoard, SameCall DEF WordOK
    <2>23. CellsOK'
      <3> SUFFICES ASSUME call.op # Nothing, NEW a \in Addr
                   PROVE  /\ \/ ~InRange(a)
                             \/ UnitOf(a) > call.at
                             \/ UnitOf(a) = call.at /\ phase \in {"unlock", "unlocked", "unit"}
                             => cell'[a] = before.cell[a]
                          /\ UnitOf(a) < call.at /\ InRange(a) /\ Judges => cell'[a] = Target(a)
        BY <1>1, <1>2, <2>5, SameCall DEF CellsOK
      <3>1. CASE a \in Mine(c)
        <4>1. phase \notin {"unlock", "unlocked", "unit"}
          BY <2>3 DEF Launched
        <4>2. UnitOf(a) = call.at /\ ~(UnitOf(a) > call.at) /\ ~(UnitOf(a) < call.at)
          BY <2>8, <3>1, CallNumbers
        <4> QED BY <2>12, <3>1, <4>1, <4>2
      <3>2. CASE a \notin Mine(c)
        BY <2>1, <2>7, <3>2 DEF CellsOK
      <3> QED BY <3>1, <3>2
    <2>24. DoneOK'
      <3>1. ~(phase = "after" /\ seen = "ok")
        BY <2>1, <2>4 DEF ReadyOK
      <3> SUFFICES ASSUME \/ phase = "before" /\ Launched
                          \/ phase = "poll"
                          \/ /\ Samsung /\ ~Erasing
                             /\ \/ phase = "late"
                                \/ phase = "after" /\ NextCmd \in {"status", "read"},
                          NEW d \in Chips, chip'[d].busy = Nothing, ~chip'[d].error,
                          Samsung => chip'[d].halted = Nothing, board = "lart" => Erasing
                   PROVE  UnitDone(d)'
        BY <3>1, <1>1, <1>3, SameBoard, SameCall DEF DoneOK
      <3>2. CASE d # c
        BY <2>1, <2>14, <2>15, <3>2 DEF DoneOK
      <3>3. CASE d = c
        BY <2>13, <3>3
      <3> QED BY <3>2, <3>3
    <2>25. CleanOK'
      <3>1. Reset' = Reset
        BY <1>1, <1>3, SameBoard, SameCall DEF Reset
      <3>2. ~before'.fault => /\ ~before.fault
                              /\ \A d \in Chips : /\ chip'[d].error = chip[d].error
                                                   /\ chip'[d].halted = chip[d].halted
        BY <1>2, <2>10, <2>15, <2>16
      <3> QED BY <2>1, <3>1, <3>2, <1>1, <1>2, <1>3, SameBoard, SameCall DEF CleanOK
    <2> QED BY <2>18, <2>19, <2>20, <2>21, <2>22, <2>23, <2>24, <2>25
  <1> QED BY <1>2, <1>4, <1>5, <1>6, <1>7, <1>8, <1>9, <1>10

-----------------------------------------------------------------------------
(* One command. *)

BusSector == IF Erasing THEN call.at ELSE SectorOf(call.at)

(* What a chip makes of a command on the bus. *)
OnBus(c, cmd) ==
    IF Amd THEN AmdChip(chip[c], cmd) ELSE IntelStep(chip[c], cmd, BusSector, locked)

(* A command on the bus reaches all chips, and each has its own effect. *)
LEMMA BusChips ==
  ASSUME TypeOK, NEW cmd, Bus(cmd)
  PROVE  /\ chip' = [c \in Chips |-> chip'[c]]
         /\ \A c \in Chips :
               /\ ChipType(chip'[c])
               /\ IF Amd THEN AmdEffect(chip[c], cmd, chip'[c])
                  ELSE IntelEffect(chip[c], cmd, BusSector, locked, chip'[c])
               /\ IF cmd \in {"confirm", "data"} /\ chip'[c].busy # chip[c].busy
                  THEN chip'[c].job = Job(c)
                  ELSE ~Amd \/ cmd # "array" \/ chip[c].busy # Nothing =>
                         chip'[c].job = chip[c].job
         /\ locked' \subseteq locked
         /\ cmd = "unlock" /\ (\A c \in Chips : chip[c].mode = "config") =>
               BusSector \notin locked'
  <1>1. chip' = [c \in Chips |->
                   IF cmd \in {"confirm", "data"} /\ OnBus(c, cmd).busy # chip[c].busy
                   THEN [OnBus(c, cmd) EXCEPT !.job = Job(c)] ELSE OnBus(c, cmd)]
    BY DEF Bus, OnBus, IntelStep, BusSector, Amd, Erasing
  <1>2. ASSUME NEW c \in Chips
        PROVE  /\ ChipType(chip'[c])
               /\ IF Amd THEN AmdEffect(chip[c], cmd, chip'[c])
                  ELSE IntelEffect(chip[c], cmd, BusSector, locked, chip'[c])
               /\ IF cmd \in {"confirm", "data"} /\ chip'[c].busy # chip[c].busy
                  THEN chip'[c].job = Job(c)
                  ELSE ~Amd \/ cmd # "array" \/ chip[c].busy # Nothing =>
                         chip'[c].job = chip[c].job
    <2> DEFINE x == chip[c]
               y == OnBus(c, cmd)
               w == [y EXCEPT !.job = Job(c)]
               z == chip'[c]
    <2>1. ChipType(x)
      BY DEF TypeOK
    <2>2. /\ ChipType(y)
          /\ IF Amd THEN AmdEffect(x, cmd, y) ELSE IntelEffect(x, cmd, BusSector, locked, y)
          /\ ~Amd \/ cmd # "array" \/ x.busy # Nothing => y.job = x.job
      <3>1. CASE Amd
        <4>1. y = AmdChip(x, cmd)
          BY <3>1 DEF OnBus
        <4> HIDE DEF x, y
        <4> QED BY <2>1, <3>1, <4>1, AmdEffects
      <3>2. CASE ~Amd
        <4>1. y = IntelStep(x, cmd, BusSector, locked)
          BY <3>2 DEF OnBus
        <4> HIDE DEF x, y
        <4> QED BY <2>1, <3>2, <4>1, IntelEffects
      <3> QED BY <3>1, <3>2
    <2>3. z = IF cmd \in {"confirm", "data"} /\ y.busy # x.busy THEN w ELSE y
      BY <1>1
    <2> HIDE DEF x, y, z
    <2>4. /\ ChipType(w) /\ w.mode = y.mode /\ w.busy = y.busy /\ w.halted = y.halted
          /\ w.error = y.error /\ w.job = Job(c)
      BY <2>2, JobGiven
    <2> HIDE DEF w
    <2>5. /\ ChipType(z) /\ z.mode = y.mode /\ z.busy = y.busy /\ z.halted = y.halted
          /\ z.error = y.error
          /\ z.job = IF cmd \in {"confirm", "data"} /\ y.busy # x.busy THEN Job(c) ELSE y.job
      BY <2>2, <2>3, <2>4
    <2>6. IF Amd THEN AmdEffect(x, cmd, z) ELSE IntelEffect(x, cmd, BusSector, locked, z)
      BY <2>2, <2>5, SameFields
    <2> QED BY <2>2, <2>5, <2>6 DEF x, z
  <1>3. locked' = IF cmd = "unlock" /\ \A c \in Chips : chip[c].mode = "config"
                  THEN locked \ {BusSector} ELSE locked
    BY DEF Bus, BusSector, Erasing
  <1> QED BY <1>1, <1>2, <1>3

(* What a chip is told is the target of its cells. *)
LEMMA JobIs ==
  ASSUME TypeOK, PhaseOK, WordOK, InUnit, NEW c \in Chips
  PROVE  Job(c) = [a \in Mine(c) |-> Target(a)]
  <1>1. call.op # Nothing /\ call.at <= call.to
    BY DEF PhaseOK, InUnit
  <1>2. CASE Erasing
    <2>1. \A a \in Mine(c) : Target(a) = Bits
      BY <1>1, <1>2, CallNumbers DEF Mine, Target, InRange, UnitOf
    <2> QED BY <1>2, <2>1 DEF Job, Mine, UnitOf, Erasing
  <1>3. CASE ~Erasing
    <2>1. \A a \in Mine(c) : a - call.at \in 0..(Width - 1) /\ call.at + (a - call.at) = a
      <3> SUFFICES ASSUME NEW a \in Mine(c)
                   PROVE  a - call.at \in 0..(Width - 1) /\ call.at + (a - call.at) = a
        OBVIOUS
      <3>1. a \in Nat /\ a - (a % Width) = call.at /\ call.at \in Nat
        BY <1>1, <1>3, CallNumbers DEF Mine, UnitOf, WordOf, Addr
      <3>2. CASE Width = 2
        BY <3>1, <3>2
      <3>3. CASE Width = 4
        BY <3>1, <3>3
      <3> QED BY <3>2, <3>3, Families DEF TypeOK
    <2>2. \A a \in Mine(c) : call.word[a - call.at] = Target(a)
      BY <1>3, <2>1 DEF WordOK
    <2> QED BY <1>3, <2>2 DEF Job, Mine, UnitOf, Erasing
  <1> QED BY <1>2, <1>3

(* Of what a command consists. *)
LEMMA CommandIs ==
  ASSUME TodoOK, Command
  PROVE  /\ phase \in {"before", "late", "after"} /\ Turn(NextCmd, NextCmd') /\ TodoOK'
         /\ \/ NextCmd \in {"off", "on"} /\ irq' = (NextCmd = "on")
               /\ chip' = chip /\ locked' = locked /\ seen' = seen
            \/ /\ NextCmd = "read" /\ chip' = chip /\ locked' = locked /\ irq' = irq
               /\ seen' = IF \E c \in Chips : chip[c].busy # Nothing \/ chip[c].error
                                                 \/ chip[c].halted # Nothing
                          THEN "error" ELSE "ok"
            \/ NextCmd \notin {"off", "on", "read"} /\ Bus(NextCmd) /\ irq' = irq /\ seen' = seen
  <1>1. Turn(NextCmd, NextCmd') /\ TodoOK' /\ NextCmd = Head(todo)
    BY TurnsAre DEF Command
  <1> QED BY <1>1 DEF Command

(* A command of a program keeps the part of the invariant on the control. *)
LEMMA CommandControl ==
  ASSUME Control, Command
  PROVE  Control'
  <1> USE DEF Control
  <1>1. /\ board' = board /\ call' = call /\ phase' = phase /\ cell' = cell /\ rc' = rc
        /\ src' = src /\ calls' = calls /\ faults' = faults /\ before' = before
    BY DEF Command
  <1>2. /\ phase \in {"before", "late", "after"} /\ Turn(NextCmd, NextCmd') /\ TodoOK'
        /\ \/ NextCmd \in {"off", "on"} /\ irq' = (NextCmd = "on")
              /\ chip' = chip /\ locked' = locked /\ seen' = seen
           \/ /\ NextCmd = "read" /\ chip' = chip /\ locked' = locked /\ irq' = irq
              /\ seen' = IF \E c \in Chips : chip[c].busy # Nothing \/ chip[c].error
                                                \/ chip[c].halted # Nothing
                         THEN "error" ELSE "ok"
           \/ NextCmd \notin {"off", "on", "read"} /\ Bus(NextCmd) /\ irq' = irq /\ seen' = seen
    BY CommandIs
  <1>3. InUnit /\ InUnit' /\ phase # "idle"
    BY <1>1, <1>2 DEF InUnit
  <1>4. TypeOK'
    <2>1. /\ chip' = [c \in Chips |-> chip'[c]] /\ \A c \in Chips : ChipType(chip'[c])
          /\ locked' \subseteq locked
      BY <1>2, BusChips DEF TypeOK
    <2>2. seen' \in {"ok", "error", "late"} /\ irq' \in BOOLEAN
      BY <1>2 DEF TypeOK
    <2>3. CallType'
      BY <1>1, SameBoard DEF TypeOK, CallType
    <2> QED BY <1>1, <2>1, <2>2, <2>3, SameBoard DEF TypeOK
  <1>5. PhaseOK'
    <2>1. phase = "late" => NextCmd # "read"
      BY <1>2 DEF Turn
    <2> QED BY <1>1, <1>2, <1>3, <2>1, SameBoard, SameCall DEF PhaseOK
  <1>6. IrqOK'
    <2>1. ASSUME irq', ~Samsung
          PROVE  ~Erasing /\ phase = "after" /\ NextCmd' = Nothing
      <3>1. NextCmd # Nothing
        BY <1>2 DEF Turn, Nothing
      <3>2. irq' = irq => NextCmd = "off" /\ phase = "before"
        BY <1>3, <2>1, <3>1 DEF IrqOK
      <3>3. NextCmd = "on"
        BY <1>2, <2>1, <3>2
      <3> QED BY <1>2, <2>1, <3>3 DEF Turn
    <2>2. ASSUME ~Erasing, phase = "after",
                 NextCmd' \in IF Samsung THEN {"array", "resume", Nothing} ELSE {Nothing}
          PROVE  irq'
      <3>1. NextCmd \in {"on"} \cup IF Samsung THEN {"array", "resume"} ELSE {}
        BY <1>2, <2>2 DEF Turn, Nothing
      <3>2. CASE NextCmd = "on"
        BY <1>2, <3>2
      <3>3. CASE Samsung /\ NextCmd \in {"array", "resume"}
        <4>1. irq
          BY <2>2, <3>3 DEF IrqOK
        <4> QED BY <1>2, <3>3, <4>1
      <3> QED BY <3>1, <3>2, <3>3
    <2> QED BY <1>1, <1>3, <2>1, <2>2, SameBoard, SameCall DEF IrqOK
  <1>7. SamsungOK'
    <2> SUFFICES ASSUME Samsung, NEW d \in Chips
                 PROVE  (/\ chip[d].busy # Nothing =>
                              chip[d].halted = Nothing /\ chip[d].mode = "status"
                         /\ chip[d].mode = "erase" => phase = "before" /\ NextCmd = "confirm"
                         /\ chip[d].mode = "program" => phase = "before" /\ NextCmd = "data"
                         /\ chip[d].mode = "config" => phase = "before" /\ NextCmd = "unlock"
                         /\ chip[d].halted # Nothing =>
                               /\ phase \in {"late", "after"} /\ seen # "ok" /\ before.fault
                               /\ phase = "after" => NextCmd # Nothing)'
      BY SameBoard, <1>1 DEF SamsungOK
    <2>1. ~Amd /\ board # "impa7"
      BY Families DEF TypeOK, Samsung
    <2>2. CASE chip' = chip /\ NextCmd \in {"off", "on", "read"}
      <3>1. seen' = "ok" => seen = "ok" \/ chip[d].halted = Nothing
        BY <1>2
      <3>2. NextCmd \in {"on", "read"} => NextCmd' # Nothing
        BY <1>2 DEF Turn, Nothing, Samsung
      <3>3. NextCmd = "off" => phase = "before"
        BY <1>2 DEF Turn, Nothing, Samsung
      <3> QED BY <1>1, <2>2, <3>1, <3>2, <3>3 DEF SamsungOK
    <2>3. CASE NextCmd \notin {"off", "on", "read"} /\ Bus(NextCmd) /\ seen' = seen
      <3> DEFINE x == chip[d]
                 z == chip'[d]
                 cmd == NextCmd
                 next == NextCmd'
      <3>1. IntelEffect(x, cmd, BusSector, locked, z)
        BY <2>1, <2>3, BusChips
      <3>2. /\ x.busy # Nothing => x.halted = Nothing /\ x.mode = "status"
            /\ x.mode = "erase" => phase = "before" /\ cmd = "confirm"
            /\ x.mode = "program" => phase = "before" /\ cmd = "data"
            /\ x.mode = "config" => phase = "before" /\ cmd = "unlock"
            /\ x.halted # Nothing =>
                  /\ phase \in {"late", "after"} /\ seen # "ok" /\ before.fault
                  /\ phase = "after" => cmd # Nothing
        BY DEF SamsungOK
      <3>3. ChipType(x)
        BY DEF TypeOK
      <3>4. phase = "late" => seen = "late" /\ before.fault
        BY DEF PhaseOK
      <3>5. Turn(cmd, next)
        BY <1>2
      <3>6. NextCmd' = next /\ chip'[d] = z /\ cmd \notin {"off", "on", "read"}
        BY <2>3
      <3> HIDE DEF x, z, cmd, next
      <3>7. CASE x.busy # Nothing
        BY <3>1, <3>2, <3>3, <3>4, <3>5, <3>6, <3>7, <1>1, <2>3
        DEF IntelEffect, Turn, Samsung, Nothing
      <3>8. CASE x.busy = Nothing /\ phase = "before"
        <4>1. CASE x.mode \in {"array", "status"}
          BY <3>1, <3>2, <3>5, <3>6, <3>8, <4>1, <1>1, <2>3
          DEF IntelEffect, Turn, Samsung, Nothing
        <4>2. CASE x.mode = "config"
          BY <3>1, <3>2, <3>5, <3>6, <3>8, <4>2, <1>1, <2>3
          DEF IntelEffect, Turn, Samsung, Nothing
        <4>3. CASE x.mode \in {"erase", "program"}
          BY <3>1, <3>2, <3>5, <3>6, <3>8, <4>3, <1>1, <2>3
          DEF IntelEffect, Turn, Samsung, Nothing
        <4> QED BY <3>3, <4>1, <4>2, <4>3 DEF ChipType
      <3>9. CASE x.busy = Nothing /\ phase \in {"late", "after"}
        <4>1. x.mode \in {"array", "status"}
          BY <3>2, <3>3, <3>9 DEF ChipType
        <4>2. cmd \in {"clear", "suspend", "array", "resume", "status", "read", "on"}
          BY <3>5, <3>9 DEF Turn
        <4>3. /\ z.busy # Nothing => z.halted = Nothing /\ z.mode = "status"
              /\ z.mode \in {"array", "status"}
              /\ z.halted # Nothing => x.halted = z.halted /\ cmd # "resume"
          <5>1. CASE cmd = "resume"
            BY <3>1, <3>9, <4>1, <5>1 DEF IntelEffect
          <5>2. CASE cmd \in {"clear", "suspend", "array", "status"}
            BY <3>1, <3>9, <4>1, <5>2 DEF IntelEffect
          <5> QED BY <3>6, <4>2, <5>1, <5>2
        <4>4. next = Nothing /\ phase = "after" => cmd = "resume"
          BY <3>5, <3>6 DEF Turn, Samsung, Nothing
        <4> QED BY <3>2, <3>6, <3>9, <4>3, <4>4, <1>1, <2>3
      <3> QED BY <3>7, <3>8, <3>9, <1>2
    <2> QED BY <1>2, <2>2, <2>3
  <1>8. LocksOK'
    <2>1. locked' \subseteq locked
      BY <1>2, BusChips
    <2> QED BY <1>1, <1>3, <2>1, SameBoard, SameCall DEF LocksOK
  <1> QED BY <1>2, <1>4, <1>5, <1>6, <1>7, <1>8

(* What a command of a program comes to for a chip with the fields x, in the *)
(* places where it stands: z are the fields afterwards.                      *)
Kept(x, z, cmd) ==
    /\ x.busy # Nothing /\ (Amd \/ cmd # "suspend")
    /\ z.mode = x.mode /\ z.busy = x.busy /\ z.halted = x.halted /\ z.error = x.error
    /\ z.job = x.job

Halts(x, z, cmd) ==
    /\ ~Amd /\ x.busy # Nothing /\ cmd = "suspend"
    /\ z.mode = "status" /\ z.busy = Nothing /\ z.halted = x.busy /\ z.error = x.error
    /\ z.job = x.job

Begins(c, x, z, cmd) ==
    /\ x.busy = Nothing /\ cmd = (IF Erasing THEN "confirm" ELSE "data")
    /\ z.mode = (IF Amd THEN "array" ELSE "status") /\ z.busy = Kind
    /\ z.halted = x.halted /\ z.error = x.error /\ (Amd => ~x.error)
    /\ z.job = [a \in Mine(c) |-> Target(a)]

Refuses(x, z, cmd) ==
    /\ ~Amd /\ x.busy = Nothing /\ cmd = (IF Erasing THEN "confirm" ELSE "data")
    /\ BusSector \in locked \/ x.halted # Nothing
    /\ z.mode = "status" /\ z.busy = Nothing /\ z.halted = x.halted /\ z.error = TRUE

Resumes(x, z, cmd) ==
    /\ ~Amd /\ x.busy = Nothing /\ cmd = "resume" /\ x.halted # Nothing
    /\ z.mode = "status" /\ z.busy = x.halted /\ z.halted = Nothing /\ z.error = x.error
    /\ z.job = x.job

Stays(x, z, cmd) ==
    /\ x.busy = Nothing /\ cmd \notin {"confirm", "data"} /\ (cmd = "resume" => x.halted = Nothing)
    /\ z.busy = Nothing /\ z.halted = x.halted
    /\ z.mode = IF cmd = "array" \/ (cmd \in {"erase", "program"} /\ ~(Amd /\ x.error))
                THEN cmd
                ELSE IF ~Amd /\ cmd \in {"status", "config"} THEN cmd
                ELSE IF x.mode = "config" THEN "status"
                ELSE x.mode
    /\ z.error = IF cmd = (IF Amd THEN "array" ELSE "clear") THEN FALSE ELSE x.error
    /\ ~(Amd /\ cmd = "array") => z.job = x.job

Outcome(c, x, z, cmd) ==
    \/ Kept(x, z, cmd) \/ Halts(x, z, cmd) \/ Begins(c, x, z, cmd) \/ Refuses(x, z, cmd)
    \/ Resumes(x, z, cmd) \/ Stays(x, z, cmd)

(* Not busy before it was launched. *)
LEMMA NotLaunched ==
  ASSUME JobOK, ~Launched, phase # "idle", NEW c \in Chips
  PROVE  /\ chip[c].busy = Nothing /\ (Samsung => chip[c].halted = Nothing)
         /\ (Amd => ~chip[c].error)
  BY DEF JobOK

(* At every place of a program, a command has one of these outcomes. *)
LEMMA Outcomes ==
  ASSUME Control, ModeOK, JobOK, WordOK, phase \in {"before", "late", "after"},
         Turn(NextCmd, NextCmd'),
         NextCmd \notin {"off", "on", "read"}, Bus(NextCmd), NEW c \in Chips
  PROVE  Outcome(c, chip[c], chip'[c], NextCmd)
  <1> DEFINE x == chip[c]
             z == chip'[c]
             cmd == NextCmd
             next == NextCmd'
             b == BusSector
             j == Job(c)
  <1> SUFFICES Outcome(c, x, z, cmd)
    OBVIOUS
  <1>1. ChipType(x) /\ ChipType(z)
    BY BusChips DEF Control, TypeOK
  <1>2. /\ Amd => AmdEffect(x, cmd, z)
        /\ ~Amd => IntelEffect(x, cmd, b, locked, z)
    BY BusChips DEF Control
  <1>3. IF cmd \in {"confirm", "data"} /\ z.busy # x.busy THEN z.job = j
        ELSE ~Amd \/ cmd # "array" \/ x.busy # Nothing => z.job = x.job
    BY BusChips DEF Control
  <1>4. j = [a \in Mine(c) |-> Target(a)]
    BY JobIs DEF Control, InUnit
  <1>5. x.mode \in
              IF x.busy # Nothing THEN {IF Amd THEN "array" ELSE "status"}
              ELSE IF cmd = "confirm" THEN {"erase"}
              ELSE IF cmd = "data" THEN {"program"}
              ELSE IF Amd THEN {"array"}
              ELSE IF cmd = "unlock"
                THEN IF phase = "before" THEN {"config"} ELSE {"array", "status", "config"}
              ELSE {"array", "status"}
    BY DEF ModeOK
  <1>6. Turn(cmd, next)
    OBVIOUS
  <1>7. /\ cmd \in {"confirm", "data"} => ~Launched /\ cmd = (IF Erasing THEN "confirm" ELSE "data")
        /\ cmd \in {"erase", "program", "confirm", "data"} => phase = "before" /\ ~Launched
    BY <1>6 DEF Turn, Launched, Nothing
  <1>8. ~Launched => x.busy = Nothing /\ (Amd => ~x.error)
    BY NotLaunched
  <1>9. cmd \in {"config", "unlock", "clear", "erase", "confirm", "program", "data", "status",
                 "suspend", "array", "resume"}
    BY <1>6, Commands DEF Control, Turn
  <1>10. Erasing => Kind = "erase"
    BY DEF Kind
  <1>11. ~Erasing => Kind = "program"
    BY DEF Kind
  <1>12. "erase" # Nothing /\ "program" # Nothing
    BY DEF Nothing
  <1>18. cmd = "resume" => ~Amd
    BY <1>6, Families DEF Control, TypeOK, Turn, Samsung
  <1> HIDE DEF x, z, cmd, next, b, j
  <1>13. CASE x.busy # Nothing
    <2>1. CASE Amd
      BY <1>1, <1>2, <1>3, <1>7, <1>8, <1>13, <2>1 DEF AmdEffect, Kept, Outcome
    <2>2. CASE ~Amd /\ cmd = "suspend"
      BY <1>1, <1>2, <1>3, <1>7, <1>8, <1>13, <2>2 DEF IntelEffect, Halts, Outcome
    <2>3. CASE ~Amd /\ cmd # "suspend"
      BY <1>1, <1>2, <1>3, <1>7, <1>8, <1>13, <2>3 DEF IntelEffect, Kept, Outcome
    <2> QED BY <2>1, <2>2, <2>3
  <1>14. CASE x.busy = Nothing /\ cmd \in {"confirm", "data"}
    <2>1. x.mode = Kind /\ x.mode # Nothing
      BY <1>5, <1>7, <1>10, <1>11, <1>12, <1>14
    <2>2. CASE Amd
      <3>1. /\ z.mode = "array" /\ z.busy = Kind /\ z.halted = x.halted
            /\ z.error = x.error /\ ~x.error
        BY <1>2, <1>5, <1>7, <1>8, <1>10, <1>11, <1>14, <2>1, <2>2 DEF AmdEffect
      <3>2. Begins(c, x, z, cmd)
        BY <3>1, <1>3, <1>4, <1>7, <1>14, <2>1, <2>2 DEF Begins
      <3> QED BY <3>2 DEF Outcome
    <2>3. CASE ~Amd /\ (b \in locked \/ x.halted # Nothing)
      <3>1. z.mode = "status" /\ z.busy = Nothing /\ z.halted = x.halted /\ z.error = TRUE
        BY <1>2, <1>5, <1>7, <1>10, <1>11, <1>14, <2>1, <2>3 DEF IntelEffect
      <3>2. Refuses(x, z, cmd)
        BY <3>1, <1>7, <1>14, <2>3 DEF Refuses, b
      <3> QED BY <3>2 DEF Outcome
    <2>4. CASE ~Amd /\ ~(b \in locked \/ x.halted # Nothing)
      <3>1. z.mode = "status" /\ z.busy = Kind /\ z.halted = x.halted /\ z.error = x.error
        BY <1>2, <1>5, <1>7, <1>10, <1>11, <1>14, <2>1, <2>4 DEF IntelEffect
      <3>2. Begins(c, x, z, cmd)
        BY <3>1, <1>3, <1>4, <1>7, <1>14, <2>1, <2>4 DEF Begins
      <3> QED BY <3>2 DEF Outcome
    <2> QED BY <2>2, <2>3, <2>4
  <1>15. CASE x.busy = Nothing /\ cmd \notin {"confirm", "data"} /\ Amd
    <2>1. x.mode = "array"
      BY <1>5, <1>15
    <2>2. Stays(x, z, cmd)
      <3>1. CASE cmd = "array"
        BY <1>2, <1>15, <2>1, <3>1 DEF AmdEffect, Stays
      <3>2. CASE cmd # "array" /\ x.error
        <4>1. cmd \notin {"erase", "program"}
          BY <1>7, <1>8, <1>15, <3>2
        <4>2. z.mode = x.mode /\ z.busy = Nothing /\ z.halted = x.halted /\ z.error = x.error
          BY <1>2, <1>15, <3>2 DEF AmdEffect
        <4>3. z.job = x.job
          BY <1>3, <1>15, <3>2
        <4> QED BY <1>15, <1>18, <2>1, <3>2, <4>1, <4>2, <4>3 DEF Stays
      <3>3. CASE cmd # "array" /\ ~x.error /\ cmd \in {"erase", "program"}
        BY <1>2, <1>3, <1>15, <1>18, <2>1, <3>3 DEF AmdEffect, Stays
      <3>4. CASE cmd # "array" /\ ~x.error /\ cmd \notin {"erase", "program"}
        <4>2. z.mode = x.mode /\ z.busy = Nothing /\ z.halted = x.halted /\ z.error = x.error
          BY <1>2, <1>15, <2>1, <3>4 DEF AmdEffect
        <4>3. z.job = x.job
          BY <1>3, <1>15, <3>4
        <4> QED BY <1>15, <1>18, <2>1, <3>4, <4>2, <4>3 DEF Stays
      <3> QED BY <3>1, <3>2, <3>3, <3>4
    <2> QED BY <2>2 DEF Outcome
  <1>16. CASE x.busy = Nothing /\ cmd = "resume" /\ x.halted # Nothing /\ ~Amd
    <2>1. x.mode \in {"array", "status"}
      BY <1>5, <1>16
    <2>2. Resumes(x, z, cmd)
      BY <1>2, <1>3, <1>16, <2>1 DEF IntelEffect, Resumes
    <2> QED BY <2>2 DEF Outcome
  <1>17. CASE /\ x.busy = Nothing /\ cmd \notin {"confirm", "data"} /\ ~Amd
              /\ cmd = "resume" => x.halted = Nothing
    <2>1. x.mode \in {"array", "status"} \/ (x.mode = "config" /\ cmd = "unlock")
      BY <1>5, <1>17
    <2>2. CASE x.mode = "config" /\ cmd = "unlock"
      BY <1>2, <1>3, <1>17, <2>2 DEF IntelEffect, Stays, Outcome
    <2>3. CASE x.mode \in {"array", "status"}
      <3>1. CASE cmd \in {"array", "status", "erase", "program", "config"}
        BY <1>2, <1>3, <1>17, <2>3, <3>1 DEF IntelEffect, Stays, Outcome
      <3>2. CASE cmd = "clear"
        BY <1>2, <1>3, <1>17, <2>3, <3>2 DEF IntelEffect, Stays, Outcome
      <3>3. CASE cmd \in {"suspend", "unlock", "resume"}
        BY <1>2, <1>3, <1>17, <2>3, <3>3 DEF IntelEffect, Stays, Outcome
      <3> QED BY <1>9, <1>17, <3>1, <3>2, <3>3
    <2> QED BY <2>1, <2>2, <2>3
  <1> QED BY <1>13, <1>14, <1>15, <1>16, <1>17

-----------------------------------------------------------------------------
(* Addresses and sectors. *)

(* Division. *)
LEMMA Quotient ==
  ASSUME NEW a \in Nat, NEW k \in Nat \ {0}
  PROVE  a \div k \in Nat /\ (a \div k) * k <= a /\ a < (a \div k) * k + k
  OBVIOUS

(* Products keep the order. *)
LEMMA Order ==
  ASSUME NEW s \in Int, NEW t \in Int, NEW k \in Nat \ {0}
  PROVE  /\ s < t => s * k + k <= t * k
         /\ s <= t => s * k <= t * k
         /\ s * k \in Int
  <1>1. ASSUME s <= t  PROVE s * k <= t * k
    <2>1. t - s \in Nat /\ t * k = s * k + (t - s) * k
      BY <1>1
    <2>2. (t - s) * k >= 0
      BY <2>1
    <2> QED BY <2>1, <2>2
  <1>2. ASSUME s < t  PROVE s * k + k <= t * k
    <2>1. t - s - 1 \in Nat /\ t * k = s * k + k + (t - s - 1) * k
      BY <1>2
    <2>2. (t - s - 1) * k >= 0
      BY <2>1
    <2> QED BY <2>1, <2>2
  <1> QED BY <1>1, <1>2

(* A sector begins at a multiple of four. *)
LEMMA Fourfold ==
  ASSUME NEW s \in Int
  PROVE  (s * SectorSize) % 4 = 0
  <1>1. SectorSize \in Nat \ {0} /\ SectorSize % 4 = 0
    BY DriversAssumption
  <1>2. PICK q \in Nat : SectorSize = 4 * q
    <2>1. SectorSize = 4 * (SectorSize \div 4) /\ SectorSize \div 4 \in Nat
      BY <1>1
    <2> QED BY <2>1
  <1>3. s * SectorSize = 4 * (s * q) /\ s * q \in Int
    BY <1>2
  <1> HIDE DEF DriversAssumption
  <1> DEFINE p == s * q
  <1> HIDE DEF p
  <1>4. p \in Int => (4 * p) % 4 = 0
    OBVIOUS
  <1> QED BY <1>3, <1>4 DEF p

(* The sector of an address, and the addresses it starts and ends with. *)
LEMMA SectorNumber ==
  ASSUME NEW a \in Addr
  PROVE  /\ a \in Nat /\ SectorOf(a) \in 0..(Sectors - 1)
         /\ SectorOf(a) * SectorSize <= a /\ a < SectorOf(a) * SectorSize + SectorSize
  <1>1. SectorSize \in Nat \ {0} /\ Sectors \in Nat \ {0} /\ Sectors * SectorSize \in Nat
    BY DriversAssumption
  <1>2. a \in Nat /\ a <= Sectors * SectorSize - 1
    BY <1>1 DEF Addr
  <1>3. /\ SectorOf(a) \in Nat /\ SectorOf(a) * SectorSize <= a
        /\ a < SectorOf(a) * SectorSize + SectorSize
    BY <1>1, <1>2, Quotient DEF SectorOf
  <1>4. SectorOf(a) < Sectors
    <2>1. Sectors <= SectorOf(a) => Sectors * SectorSize <= SectorOf(a) * SectorSize
      BY <1>1, <1>3, Order
    <2> QED BY <1>1, <1>2, <1>3, <2>1
  <1> QED BY <1>1, <1>2, <1>3, <1>4

(* A write's word is in one of the sectors that are unlocked for it. *)
LEMMA WordUnlocked ==
  ASSUME TypeOK, call.op # Nothing, ~Erasing, call.at <= call.to, Width = 2
  PROVE  SectorOf(call.at) \in SectorsUnlocked
  <1>1. /\ call.at \in Nat /\ call.from \in Nat /\ call.to \in Addr /\ call.at % 2 = 0
        /\ call.from < call.at + 2
    BY CallNumbers
  <1>2. call.at \in Addr /\ call.to \in Nat
    BY <1>1, DriversAssumption DEF Addr
  <1> DEFINE s == SectorOf(call.at)
  <1>3. /\ s \in 0..(Sectors - 1) /\ s * SectorSize <= call.at
        /\ call.at < s * SectorSize + SectorSize
    BY <1>2, SectorNumber
  <1>4. SectorSize \in Nat \ {0} /\ Sectors \in Nat \ {0}
    BY DriversAssumption
  <1> HIDE DEF s
  <1>5. s * SectorSize <= call.to /\ s \in Int
    <2>1. s \in Int /\ s * SectorSize \in Int
      BY <1>3, <1>4, Order
    <2> QED BY <1>1, <1>2, <1>3, <2>1
  <1>6. ASSUME NEW t \in 0..(Sectors - 1), t * SectorSize < call.from, ~(t <= s)
        PROVE  FALSE
    <2>1. t \in Int /\ s < t
      BY <1>4, <1>5, <1>6
    <2>2. s * SectorSize + SectorSize <= t * SectorSize /\ t * SectorSize \in Int
          /\ s * SectorSize \in Int
      BY <1>4, <1>5, <2>1, Order
    <2>3. call.at < t * SectorSize /\ t * SectorSize < call.at + 2
      BY <1>1, <1>3, <1>4, <1>6, <2>2
    <2>4. t * SectorSize = call.at + 1
      BY <1>1, <2>2, <2>3
    <2>5. (t * SectorSize) % 4 = 0
      BY <2>1, Fourfold
    <2>6. (call.at + 1) % 4 # 0
      BY <1>1
    <2> QED BY <2>4, <2>5, <2>6
  <1>7. s \in -1..(Sectors - 1) /\ s # -1
    BY <1>3, <1>4
  <1> QED BY <1>5, <1>6, <1>7 DEF SectorsUnlocked, s

-----------------------------------------------------------------------------
(* What depends on the flash being readable at first. *)
LEMMA CommandWork ==
  ASSUME Control, Work, Command
  PROVE  Work'
  <1> USE DEF Control, Work
  <1> DEFINE cmd == NextCmd
             next == NextCmd'
  <1>1. /\ board' = board /\ call' = call /\ phase' = phase /\ cell' = cell /\ rc' = rc
        /\ src' = src /\ before' = before
    BY DEF Command
  <1>2. /\ phase \in {"before", "late", "after"} /\ Turn(cmd, next)
        /\ \/ cmd \in {"off", "on"} /\ chip' = chip /\ locked' = locked /\ seen' = seen
           \/ /\ cmd = "read" /\ chip' = chip /\ locked' = locked
              /\ seen' = IF \E c \in Chips : chip[c].busy # Nothing \/ chip[c].error
                                                \/ chip[c].halted # Nothing
                         THEN "error" ELSE "ok"
           \/ cmd \notin {"off", "on", "read"} /\ Bus(cmd) /\ seen' = seen
    BY CommandIs
  <1>3. phase # "idle" /\ InUnit /\ Launched' = (phase # "before" \/ next \in {Nothing, "status"})
    BY <1>1, <1>2 DEF InUnit, Launched
  <1>4. Samsung \/ board = "impa7" => ~Amd
    BY Families DEF TypeOK, Samsung
  <1>5. /\ chip' = [c \in Chips |-> chip'[c]]
        /\ \A c \in Chips : ChipType(chip'[c])
        /\ \A c \in Chips : ChipType(chip[c])
        /\ locked' \subseteq locked
    BY <1>2, BusChips DEF TypeOK
  <1>6. ASSUME cmd \notin {"off", "on", "read"}, NEW c \in Chips
        PROVE  Outcome(c, chip[c], chip'[c], cmd)
    BY <1>2, <1>6, Outcomes
  <1>7. cmd \in {"off", "on", "read"} => chip' = chip
    BY <1>2
  <1>8. /\ cmd \in {"confirm", "data", "off", "config", "erase", "program"}
               /\ ~(phase = "after" /\ cmd = "config") => phase = "before" /\ ~Launched
        /\ cmd = "resume" => Samsung /\ phase = "after"
        /\ cmd = "suspend" => phase = "late"
        /\ cmd = "read" => Samsung /\ phase = "after" /\ ~Erasing
        /\ cmd = "on" => phase = "after"
        /\ next # "off"
        /\ Launched => Launched'
    BY <1>2, <1>3 DEF Turn, Launched, Nothing
  <1>9. Kind # Nothing /\ Kind \in {"erase", "program"}
    BY DEF Kind, Nothing
  <1>10. ASSUME ~Launched, NEW c \in Chips
         PROVE  /\ chip[c].busy = Nothing /\ (Samsung => chip[c].halted = Nothing)
                /\ (Amd => ~chip[c].error)
    BY <1>3, <1>10, NotLaunched
  <1>11. cmd \in {"off", "config", "unlock", "clear", "erase", "confirm", "program", "data",
                  "status", "suspend", "array", "resume", "read", "on"}
    BY <1>2 DEF Turn
  <1>12. ModeOK'
    <2> SUFFICES ASSUME NEW c \in Chips
                 PROVE  chip'[c].mode \in
                          IF chip'[c].busy # Nothing THEN {IF Amd THEN "array" ELSE "status"}
                          ELSE IF next = "confirm" THEN {"erase"}
                          ELSE IF next = "data" THEN {"program"}
                          ELSE IF Amd THEN {"array"}
                          ELSE IF next = "unlock"
                            THEN IF phase = "before" THEN {"config"}
                                 ELSE {"array", "status", "config"}
                          ELSE {"array", "status"}
      BY <1>1, <1>2, <1>3, <1>8, SameBoard DEF ModeOK
    <2> DEFINE x == chip[c]
               z == chip'[c]
    <2>1. x.mode \in
              IF x.busy # Nothing THEN {IF Amd THEN "array" ELSE "status"}
              ELSE IF cmd = "confirm" THEN {"erase"}
              ELSE IF cmd = "data" THEN {"program"}
              ELSE IF Amd THEN {"array"}
              ELSE IF cmd = "unlock"
                THEN IF phase = "before" THEN {"config"} ELSE {"array", "status", "config"}
              ELSE {"array", "status"}
      BY <1>3 DEF ModeOK
    <2>2. cmd \in {"erase", "program"} => x.busy = Nothing /\ ~(Amd /\ x.error)
      BY <1>8, <1>10
    <2>3. Turn(cmd, next)
      BY <1>2
    <2>4. next = "confirm" => cmd = "erase"
      BY <2>3 DEF Turn, Nothing
    <2>5. next = "data" => cmd = "program"
      BY <2>3 DEF Turn, Nothing
    <2>6. next = "unlock" <=> cmd = "config"
      BY <2>3 DEF Turn, Nothing
    <2>7. /\ cmd = "erase" => next = "confirm"
          /\ cmd = "program" => next = "data"
      BY <2>3 DEF Turn, Nothing
    <2>8. cmd \in {"off", "on", "read"} => z = x
      BY <1>7
    <2>9. cmd \notin {"off", "on", "read"} => Outcome(c, x, z, cmd)
      BY <1>6
    <2>10. cmd = "off" => x.busy = Nothing /\ x.mode = "array"
      BY <1>8, <1>10 DEF ModeOK, Readable
    <2> HIDE DEF x, z, cmd, next
    <2>11. CASE cmd \in {"off", "on", "read"}
      BY <2>1, <2>4, <2>5, <2>6, <2>8, <2>11 DEF z
    <2>12. CASE Kept(x, z, cmd) \/ Halts(x, z, cmd)
      BY <2>1, <2>2, <2>4, <2>5, <2>6, <2>12 DEF Kept, Halts, z
    <2>13. CASE Begins(c, x, z, cmd) \/ Resumes(x, z, cmd)
      BY <1>9, <2>13 DEF Begins, Resumes, z
    <2>14. CASE Refuses(x, z, cmd)
      BY <2>4, <2>5, <2>6, <2>14 DEF Refuses, z
    <2>15. CASE Stays(x, z, cmd)
      <3>1. CASE cmd \in {"erase", "program"}
        BY <2>2, <2>4, <2>5, <2>6, <2>7, <2>15, <3>1 DEF Stays, z
      <3>2. CASE cmd \notin {"erase", "program"}
        BY <2>1, <2>4, <2>5, <2>6, <2>15, <3>2 DEF Stays, z
      <3> QED BY <3>1, <3>2
    <2> QED BY <2>9, <2>11, <2>12, <2>13, <2>14, <2>15 DEF Outcome
  <1>13. \A a : Target(a)' = Target(a) /\ UnitOf(a)' = UnitOf(a) /\ InRange(a)' = InRange(a)
    BY <1>1, SameTargets, SameCall
  <1>14. \A c \in Chips : /\ Mine(c)' = Mine(c)
                          /\ [a \in Mine(c) |-> Target(a)]' = [a \in Mine(c) |-> Target(a)]
    <2>1. \A c \in Chips : Mine(c)' = Mine(c)
      BY <1>1, SameCall
    <2> QED BY <1>13, <2>1
  <1>15. JobOK'
    <2> SUFFICES ASSUME NEW c \in Chips,
                        \/ chip'[c].busy # Nothing
                        \/ Samsung /\ chip'[c].halted # Nothing
                        \/ Amd /\ chip'[c].error
                 PROVE  /\ Launched'
                        /\ chip'[c].busy \in {Nothing, Kind}
                        /\ Samsung => chip'[c].halted \in {Nothing, Kind}
                        /\ Amd /\ chip'[c].busy # Nothing => ~chip'[c].error
                        /\ chip'[c].job = [a \in Mine(c) |-> Target(a)]
      BY <1>1, <1>14, SameBoard, SameCall DEF JobOK
    <2> DEFINE x == chip[c]
               z == chip'[c]
               j == [a \in Mine(c) |-> Target(a)]
    <2>1. (x.busy # Nothing \/ (Samsung /\ x.halted # Nothing) \/ (Amd /\ x.error))
          => /\ Launched /\ x.busy \in {Nothing, Kind} /\ (Samsung => x.halted \in {Nothing, Kind})
             /\ (Amd /\ x.busy # Nothing => ~x.error) /\ x.job = j
      BY <1>3 DEF JobOK
    <2>2. z.busy # Nothing \/ (Samsung /\ z.halted # Nothing) \/ (Amd /\ z.error)
      OBVIOUS
    <2>3. cmd \in {"confirm", "data"} => Launched' /\ ~Launched
      <3>1. Turn(cmd, next)
        BY <1>2
      <3>2. cmd \in {"confirm", "data"} => next \in {Nothing, "status"}
        BY <3>1 DEF Turn, Nothing
      <3> QED BY <1>3, <1>8, <3>2
    <2>4. Launched => Launched'
      BY <1>8
    <2>5. /\ cmd \in {"off", "on", "read"} => z = x
          /\ cmd \notin {"off", "on", "read"} => Outcome(c, x, z, cmd)
      BY <1>6, <1>7
    <2>6. cmd = "resume" => Samsung
      BY <1>8
    <2> HIDE DEF x, z, j, cmd, next
    <2> SUFFICES /\ Launched' /\ z.busy \in {Nothing, Kind}
                 /\ (Samsung => z.halted \in {Nothing, Kind})
                 /\ (Amd /\ z.busy # Nothing => ~z.error) /\ z.job = j
      BY DEF z, j
    <2>7. CASE cmd \in {"off", "on", "read"}
      BY <2>1, <2>2, <2>4, <2>5, <2>7
    <2>8. CASE Kept(x, z, cmd) \/ Halts(x, z, cmd)
      BY <1>4, <2>1, <2>2, <2>4, <2>8 DEF Kept, Halts
    <2>9. CASE Begins(c, x, z, cmd)
      BY <1>4, <1>9, <2>1, <2>3, <2>9 DEF Begins, j
    <2>10. CASE Refuses(x, z, cmd)
      BY <2>1, <2>2, <2>3, <2>10 DEF Refuses
    <2>11. CASE Resumes(x, z, cmd)
      BY <1>4, <2>1, <2>4, <2>6, <2>11 DEF Resumes
    <2>12. CASE Stays(x, z, cmd)
      BY <1>4, <2>1, <2>2, <2>4, <2>12 DEF Stays
    <2> QED BY <2>5, <2>7, <2>8, <2>9, <2>10, <2>11, <2>12 DEF Outcome
  <1>16. AmdOK'
    <2> SUFFICES ASSUME Amd, ~before.fault \/ (phase = "after" /\ seen = "ok"), NEW c \in Chips
                 PROVE  ~chip'[c].error
      <3>1. Amd => seen' = seen
        BY <1>2, <1>4, <1>8
      <3> QED BY <1>1, <3>1, SameBoard DEF AmdOK
    <2>1. ~chip[c].error
      BY DEF AmdOK
    <2>2. cmd = "resume" => ~Amd
      BY <1>4, <1>8
    <2> QED BY <1>6, <1>7, <2>1, <2>2
        DEF Outcome, Kept, Halts, Begins, Refuses, Resumes, Stays
  <1>17. ReadyOK'
    <2>1. ASSUME phase = "late", Suspends
          PROVE  /\ next # "suspend" => Ready'
                 /\ Part.leaves /\ next = Nothing => AllReadable'
      <3>1. ~Amd /\ ~Samsung
        BY <2>1 DEF Suspends, Amd, Samsung
      <3>2. /\ cmd \in {"suspend", "array"}
            /\ Part.leaves /\ next = Nothing => cmd = "array"
        BY <1>2, <2>1, <3>1 DEF Turn, Nothing
      <3>3. cmd = "array" => \A c \in Chips : chip[c].busy = Nothing
        BY <2>1 DEF ReadyOK, Ready
      <3>4. ASSUME NEW c \in Chips
            PROVE  chip'[c].busy = Nothing /\ (cmd = "array" => chip'[c].mode = "array")
        <4>1. Outcome(c, chip[c], chip'[c], cmd)
          BY <1>6, <3>2
        <4> QED BY <4>1, <3>1, <3>2, <3>3
            DEF Outcome, Kept, Halts, Begins, Refuses, Resumes, Stays
      <3>5. Ready'
        BY <1>1, <3>4, SameBoard DEF Ready
      <3>6. cmd = "array" => AllReadable'
        BY <1>1, <3>1, <3>4, SameBoard DEF AllReadable, Readable, Amd
      <3> QED BY <3>2, <3>5, <3>6
    <2>2. ASSUME phase = "after", seen' = "ok" \/ ~Escape'
          PROVE  Ready' /\ (Shown' => AllReadable')
      <3>1. Shown' <=> next \in IF Samsung THEN {"resume", Nothing} ELSE {"on", Nothing}
        BY <1>1, <2>2, SameBoard DEF Shown
      <3>2. /\ cmd = "read" => Samsung /\ next = "on"
            /\ cmd = "on" => next = IF Samsung THEN "array" ELSE Nothing
            /\ cmd # "off"
            /\ next = Nothing => cmd \in IF Samsung THEN {"resume"} ELSE {"array", "on"}
            /\ next = "resume" => cmd = "array"
            /\ next = "on" /\ ~Samsung => cmd = "array"
        BY <1>2, <2>2 DEF Turn, Nothing
      <3>3. Escape' => Escape \/ (board = "impa7" /\ seen' = "error")
        BY <1>1, SameBoard DEF Escape
      <3>4. Escape => Escape' \/ cmd = "read"
        BY <1>1, <1>2, SameBoard DEF Escape
      <3>5. CASE cmd = "read"
        <4>1. ASSUME seen' = "ok"  PROVE Ready
          BY <1>2, <3>5, <4>1 DEF Ready
        <4>2. ASSUME ~Escape'  PROVE Ready
          <5>1. Escape => Escape'
            BY <1>1, <3>2, <3>5, SameBoard DEF Escape, Samsung
          <5> QED BY <2>2, <4>2, <5>1 DEF ReadyOK
        <4>3. Ready' <=> Ready
          BY <1>1, <1>7, <3>5, SameBoard DEF Ready
        <4> QED BY <2>2, <3>1, <3>2, <3>5, <4>1, <4>2, <4>3 DEF Nothing
      <3>6. CASE cmd # "read"
        <4>1. seen' = seen
          BY <1>2, <3>6
        <4>2. Ready /\ (Shown => AllReadable) /\ (seen = "ok" \/ ~Escape)
          BY <2>2, <3>4, <3>6, <4>1 DEF ReadyOK
        <4>3. Shown <=> cmd \in IF Samsung THEN {"resume", Nothing} ELSE {"on", Nothing}
          BY <2>2 DEF Shown
        <4>4. CASE cmd = "on"
          <5>1. Ready' /\ (AllReadable => AllReadable')
            BY <1>1, <1>7, <4>2, <4>4, SameBoard DEF Ready, AllReadable, Readable
          <5> QED BY <3>1, <3>2, <4>2, <4>3, <4>4, <5>1 DEF Nothing
        <4>5. CASE cmd # "on"
          <5>1. cmd \in {"config", "unlock", "clear", "array", "status", "resume"}
            BY <1>2, <2>2, <3>6, <4>5 DEF Turn
          <5>2. ASSUME NEW c \in Chips
                PROVE  Stays(chip[c], chip'[c], cmd)
            <6>1. chip[c].busy = Nothing
              BY <4>2 DEF Ready
            <6>2. Outcome(c, chip[c], chip'[c], cmd)
              BY <1>6, <5>1
            <6>3. ~Resumes(chip[c], chip'[c], cmd)
              <7> SUFFICES ASSUME cmd = "resume", chip[c].halted # Nothing
                           PROVE  FALSE
                BY DEF Resumes
              <7>1. Samsung /\ seen # "ok" /\ before.fault
                BY <1>8 DEF SamsungOK
              <7> QED BY <4>2, <7>1 DEF Escape, Suspends, Samsung
            <6> QED BY <5>1, <6>1, <6>2, <6>3 DEF Outcome, Kept, Halts, Begins, Refuses
          <5>3. Ready'
            BY <1>1, <5>2, SameBoard DEF Ready, Stays
          <5>4. cmd = "array" => AllReadable'
            BY <1>1, <5>2, SameBoard DEF AllReadable, Readable, Stays, Amd
          <5>5. cmd = "resume" /\ AllReadable => AllReadable'
            <6> SUFFICES ASSUME cmd = "resume", AllReadable, NEW c \in Chips
                         PROVE  Readable(c)'
              BY <1>1, SameBoard DEF AllReadable
            <6>1. chip[c].mode = "array" /\ (Amd => ~chip[c].error)
              BY DEF AllReadable, Readable, Amd
            <6>2. Stays(chip[c], chip'[c], cmd)
              BY <5>2
            <6> QED BY <1>1, <6>1, <6>2, SameBoard DEF Readable, Stays, Amd
          <5> QED BY <3>1, <3>2, <4>2, <4>3, <4>5, <5>3, <5>4, <5>5
        <4> QED BY <4>4, <4>5
      <3> QED BY <3>5, <3>6
    <2> QED BY <1>1, <1>3, <2>1, <2>2, SameBoard, SameCall DEF ReadyOK
  <1>18. WordOK'
    <2>1. [j \in 0..(Width - 1) |-> Target(call.at + j)]'
            = [j \in 0..(Width - 1) |-> Target(call.at + j)]
      BY <1>1, <1>13, SameBoard
    <2> QED BY <1>1, <1>3, <1>13, <2>1, SameBoard, SameCall DEF WordOK
  <1>19. CellsOK'
    BY <1>1, <1>13, SameCall DEF CellsOK
  <1>20. \A c \in Chips : UnitDone(c)' = UnitDone(c)
    BY <1>1, SameUnit
  <1>21. DoneOK'
    <2>1. ASSUME \/ phase = "before" /\ Launched'
                 \/ /\ Samsung /\ ~Erasing
                    /\ phase = "late" \/ (phase = "after" /\ next \in {"status", "read"}),
                 NEW c \in Chips, chip'[c].busy = Nothing, ~chip'[c].error,
                 Samsung => chip'[c].halted = Nothing, board = "lart" => Erasing
          PROVE  UnitDone(c)
      <3> DEFINE x == chip[c]
                 z == chip'[c]
      <3>1. Turn(cmd, next)
        BY <1>2
      <3>2. CASE phase = "before" /\ ~Launched
        <4>1. cmd \in {"confirm", "data"}
          BY <1>3, <2>1, <3>1, <3>2 DEF Turn, Launched, Nothing
        <4>2. Outcome(c, x, z, cmd)
          BY <1>6, <4>1
        <4>3. x.busy = Nothing
          BY <1>10, <3>2
        <4> QED BY <1>9, <2>1, <4>1, <4>2, <4>3
            DEF Outcome, Kept, Halts, Begins, Refuses, Resumes, Stays
      <3>3. CASE ~(phase = "before" /\ ~Launched)
        <4>1. \/ phase = "before" /\ Launched
              \/ Samsung /\ ~Erasing /\ (phase = "late" \/ (phase = "after" /\ cmd = "status"))
          BY <2>1, <3>1, <3>3 DEF Turn, Nothing
        <4>2. cmd \notin {"off", "on", "read", "confirm", "data", "clear", "resume"}
          BY <3>1, <4>1, <1>8 DEF Turn, Launched, Nothing
        <4>3. Outcome(c, x, z, cmd)
          BY <1>6, <4>2
        <4>4. cmd = "suspend" => Samsung
          BY <1>8, <4>1
        <4>5. cmd = "array" => ~Amd
          BY <3>1, <4>1, <1>4 DEF Turn
        <4>6. x.busy = Nothing /\ ~x.error /\ (Samsung => x.halted = Nothing)
          BY <2>1, <4>2, <4>3, <4>4, <4>5
          DEF Outcome, Kept, Halts, Begins, Refuses, Resumes, Stays
        <4> QED BY <2>1, <4>1, <4>6 DEF DoneOK
      <3> QED BY <3>2, <3>3
    <2>2. ASSUME phase = "after", seen' = "ok", Judges, NEW c \in Chips
          PROVE  UnitDone(c)
      <3>1. CASE cmd = "read"
        <4>1. chip[c].busy = Nothing /\ ~chip[c].error /\ chip[c].halted = Nothing
          BY <1>2, <2>2, <3>1
        <4>2. Samsung /\ ~Erasing /\ board # "lart"
          BY <1>8, <3>1 DEF Samsung
        <4> QED BY <2>2, <3>1, <4>1, <4>2 DEF DoneOK
      <3>2. CASE cmd # "read"
        BY <1>2, <2>2, <3>2 DEF DoneOK
      <3> QED BY <3>1, <3>2
    <2> QED BY <1>1, <1>2, <1>20, <2>1, <2>2, SameBoard, SameCall DEF DoneOK
  <1>22. CleanOK'
    <2> SUFFICES ASSUME ~before.fault, ~before.halted, ~Samsung
                 PROVE  /\ \A c \in Chips : chip'[c].halted = Nothing
                        /\ phase # "late"
                        /\ phase = "after" => seen' = "ok"
                        /\ Reset' => \A c \in Chips : ~chip'[c].error
                        /\ /\ D.buff.unlocks /\ Erasing /\ phase = "before"
                           /\ next \notin {"config", "unlock"}
                           => call.at \notin locked'
      BY <1>1, <1>3, SameBoard, SameCall DEF CleanOK, InUnit
    <2>1. phase # "late" /\ (\A c \in Chips : chip[c].halted = Nothing)
          /\ (phase = "after" => seen = "ok") /\ call.op # Nothing
      BY <1>3 DEF CleanOK, PhaseOK
    <2>2. Reset => \A c \in Chips : ~chip[c].error
      BY <2>1 DEF CleanOK
    <2>3. phase = "after" => seen' = "ok"
      BY <1>2, <1>8, <2>1
    <2>4. Turn(cmd, next)
      BY <1>2
    <2>5. cmd # "suspend" /\ cmd # "resume"
      BY <1>8, <2>1
    <2>6. \A c \in Chips : chip'[c].halted = Nothing
      BY <1>6, <1>7, <2>1, <2>5 DEF Outcome, Kept, Halts, Begins, Refuses, Resumes, Stays
    <2>7. ASSUME D.buff.unlocks, Erasing, phase = "before", next \notin {"config", "unlock"}
          PROVE  call.at \notin locked'
      <3>1. CASE cmd \notin {"config", "unlock"}
        <4>1. call.at \notin locked
          BY <2>7, <3>1 DEF CleanOK
        <4> QED BY <1>5, <4>1
      <3>2. CASE cmd = "unlock"
        <4>1. ~Launched /\ ~Amd
          BY <2>7, <3>2, Families DEF TypeOK, Launched, Nothing
        <4>2. \A c \in Chips : chip[c].mode = "config"
          BY <1>10, <2>7, <3>2, <4>1 DEF ModeOK, Nothing
        <4>3. Bus(cmd)
          BY <1>2, <3>2
        <4> QED BY <2>7, <3>2, <4>2, <4>3, BusChips DEF BusSector
      <3>3. CASE cmd = "config"
        BY <2>4, <2>7, <3>3 DEF Turn, Nothing
      <3> QED BY <3>1, <3>2, <3>3
    <2>8. ASSUME Reset', NEW c \in Chips
          PROVE  ~chip'[c].error
      <3>1. /\ ~Amd /\ Part.judge # "none"
            /\ \/ phase = "after"
               \/ phase = "before" /\ next \notin {"off", "config", "unlock", "clear"}
        BY <1>1, <1>2, <2>8, SameBoard, SameCall DEF Reset
      <3>2. Reset \/ (phase = "before" /\ cmd = "clear")
        <4>1. /\ phase = "before"
              /\ cmd \in {"off", "config", "unlock"}
              => next \in {"clear", "unlock"}
          BY <2>4, <3>1 DEF Turn
        <4> QED BY <1>11, <3>1, <4>1 DEF Reset
      <3>3. CASE phase = "before" /\ cmd = "clear"
        <4>1. ~Launched
          BY <3>3 DEF Launched, Nothing
        <4>2. chip[c].busy = Nothing
          BY <1>10, <4>1
        <4>3. Outcome(c, chip[c], chip'[c], cmd)
          BY <1>6, <3>3
        <4> QED BY <3>1, <3>3, <4>2, <4>3
            DEF Outcome, Kept, Halts, Begins, Refuses, Resumes, Stays
      <3>4. CASE Reset /\ cmd \in {"off", "on", "read"}
        BY <1>7, <2>2, <3>4
      <3>5. CASE Reset /\ cmd \notin {"off", "on", "read"}
        <4>1. Outcome(c, chip[c], chip'[c], cmd) /\ ~chip[c].error
          BY <1>6, <2>2, <3>5
        <4>2. ~Refuses(chip[c], chip'[c], cmd)
          <5> SUFFICES ASSUME cmd = (IF Erasing THEN "confirm" ELSE "data"), BusSector \in locked
                       PROVE  FALSE
            BY <2>1 DEF Refuses
          <5>1. phase = "before" /\ InUnit /\ call.at <= call.to
            BY <1>3, <1>8 DEF PhaseOK
          <5>2. D.buff.unlocks
            BY DEF LocksOK
          <5>3. ~Erasing
            BY <2>1, <5>1, <5>2 DEF CleanOK, BusSector
          <5>4. Width = 2
            BY <5>2, Families DEF TypeOK
          <5>5. SectorOf(call.at) \in SectorsUnlocked
            BY <2>1, <5>1, <5>3, <5>4, WordUnlocked
          <5> QED BY <5>1, <5>2, <5>3, <5>5 DEF LocksOK, BusSector
        <4> QED BY <4>1, <4>2 DEF Outcome, Kept, Halts, Begins, Resumes, Stays
      <3> QED BY <3>2, <3>3, <3>4, <3>5
    <2> QED BY <2>1, <2>3, <2>6, <2>7, <2>8
  <1> QED BY <1>12, <1>15, <1>16, <1>17, <1>18, <1>19, <1>21, <1>22

(* A command keeps all of it. *)
LEMMA CommandInv ==
  ASSUME DriverInv, Command
  PROVE  DriverInv'
  <1>1. before' = before
    BY DEF Command
  <1> QED BY <1>1, CommandControl, CommandWork DEF DriverInv

-----------------------------------------------------------------------------
(* Where the programs begin. *)

(* The part of the board's driver that is running. *)
LEMMA PartIs ==
  Part = IF Erasing THEN D.erase ELSE D.write
  BY DEF Part, Erasing

(* The program before the wait: it begins a unit. *)
LEMMA FirstBefore ==
  ASSUME board \in Boards, board' = board, call'.op = call.op, phase' = "before",
         todo' = Part.before
  PROVE  /\ TodoOK' /\ NextCmd' \in IF Erasing THEN {"config", "clear", "erase"} ELSE {"off"}
         /\ Erasing /\ NextCmd' = "erase" => Amd \/ Samsung \/ Part.judge = "none"
         /\ Erasing /\ D.buff.unlocks => NextCmd' = "config"
  <1>1. Erasing' = Erasing /\ Samsung' = Samsung /\ Amd' = Amd /\ D' = D
    BY DEF Erasing, Samsung, Amd, D
  <1>2. NextCmd' = IF todo' # <<>> THEN Head(todo') ELSE Nothing
    BY DEF NextCmd
  <1>3. CASE Erasing
    <2>1. /\ todo' \in {E5, E3, E2}
          /\ D.buff.unlocks /\ ~Amd => todo' = E5
          /\ Amd => ~D.buff.unlocks
          /\ ~Amd /\ ~Samsung /\ Part.judge # "none" => todo' \in {E5, E3}
      BY <1>3, PartIs, ErasePrograms, Families
    <2>2. TodoOK'
      BY <1>1, <1>3, <2>1 DEF TodoOK
    <2>3. CASE todo' = E5
      BY <1>2, <1>3, <2>1, <2>2, <2>3, EraseLists
    <2>4. CASE todo' = E3
      BY <1>2, <1>3, <2>1, <2>2, <2>4, EraseLists DEF E3, E5
    <2>5. CASE todo' = E2
      BY <1>2, <1>3, <2>1, <2>2, <2>5, EraseLists DEF E2, E3, E5
    <2> QED BY <2>1, <2>3, <2>4, <2>5
  <1>4. CASE ~Erasing
    <2>1. /\ todo' \in IF board = "impa7" THEN {V5} ELSE {W4, O3}
          /\ ~Amd /\ ~Samsung => todo' \in {W4, V5}
      BY <1>4, PartIs, WritePrograms
    <2>2. V5 # O3 /\ W4 # O3
      <3>1. Head(V4) # Head(W2) /\ Head(W3) # Head(W2)
        BY WriteLists, Impa7Lists
      <3> QED BY <3>1, WriteLists, Impa7Lists
    <2>3. board = "impa7" => ~Amd /\ ~Samsung
      BY Families DEF Samsung
    <2>4. TodoOK'
      BY <1>1, <1>4, <2>1, <2>2 DEF TodoOK
    <2>5. todo' \in {V5, W4, O3}
      BY <2>1
    <2>6. NextCmd' = "off"
      BY <1>2, <2>5, WriteLists, Impa7Lists
    <2> QED BY <1>4, <2>4, <2>6
  <1> QED BY <1>3, <1>4

(* The program of a time-out. *)
LEMMA FirstLate ==
  ASSUME board \in Boards, board' = board, call' = call, phase' = "late", todo' = Part.late
  PROVE  /\ TodoOK' /\ NextCmd' \in {"suspend", "array", "clear", Nothing}
         /\ Suspends => NextCmd' = "suspend"
  <1>1. Erasing' = Erasing /\ Samsung' = Samsung /\ Part' = Part
    BY DEF Erasing, Samsung, Part, D
  <1>2. NextCmd' = IF todo' # <<>> THEN Head(todo') ELSE Nothing
    BY DEF NextCmd
  <1>3. Suspends <=> ~Amd /\ ~Samsung
    BY Families DEF Suspends, Amd, Samsung
  <1>4. CASE Erasing
    <2>1. /\ Part.late = IF Samsung THEN C1 ELSE IF Amd THEN A1
                         ELSE IF Part.leaves THEN L2 ELSE L1
          /\ Part.leaves => ~Samsung /\ ~Amd
      BY <1>4, PartIs, ErasePrograms
    <2>2. TodoOK'
      BY <1>1, <1>4, <2>1 DEF TodoOK
    <2>3. todo' \in {C1, A1, L1, L2} /\ (Suspends => todo' \in {L1, L2})
      BY <1>3, <2>1
    <2>4. NextCmd' \in {"suspend", "array", "clear"} /\ (Suspends => NextCmd' = "suspend")
      BY <1>2, <2>3, LateLists
    <2> QED BY <2>2, <2>4
  <1>5. CASE ~Erasing
    <2>1. /\ Part.late = (IF Amd THEN <<>> ELSE L1) /\ ~Part.leaves
          /\ Amd => ~Samsung
      BY <1>5, PartIs, WritePrograms, Families DEF Samsung
    <2>2. TodoOK'
      BY <1>1, <1>5, <2>1 DEF TodoOK
    <2>3. todo' \in {L1, <<>>} /\ (Suspends => todo' = L1)
      BY <1>3, <2>1
    <2>4. NextCmd' \in {"suspend", Nothing} /\ (Suspends => NextCmd' = "suspend")
      BY <1>2, <2>3, LateLists
    <2> QED BY <2>2, <2>4
  <1> QED BY <1>4, <1>5

(* The program after the wait. *)
LEMMA FirstAfter ==
  ASSUME board \in Boards, board' = board, call' = call, phase' = "after", todo' = Part.after
  PROVE  /\ TodoOK' /\ NextCmd' \in IF Samsung THEN {"status"} ELSE {"config", "clear", "array"}
         /\ ~Shown'
  <1>1. Erasing' = Erasing /\ Samsung' = Samsung /\ Part' = Part
    BY DEF Erasing, Samsung, Part, D
  <1>2. NextCmd' = IF todo' # <<>> THEN Head(todo') ELSE Nothing
    BY DEF NextCmd
  <1>3. TodoOK' /\ NextCmd' \in IF Samsung THEN {"status"} ELSE {"config", "clear", "array"}
    <2>1. CASE Erasing
      <3>1. Part.after \in IF Samsung THEN {R3} ELSE {A3, C2, A1}
        BY <2>1, PartIs, ErasePrograms
      <3>2. TodoOK'
        BY <1>1, <2>1, <3>1 DEF TodoOK
      <3>3. CASE Samsung
        BY <1>2, <3>1, <3>2, <3>3, ResumeLists
      <3>4. CASE ~Samsung
        BY <1>2, <3>1, <3>2, <3>4, ReturnLists
      <3> QED BY <3>3, <3>4
    <2>2. CASE ~Erasing
      <3>1. Part.after = IF Samsung THEN S5 ELSE N2
        BY <2>2, PartIs, WritePrograms
      <3>2. TodoOK'
        BY <1>1, <2>2, <3>1 DEF TodoOK
      <3>3. CASE Samsung
        BY <1>2, <3>1, <3>2, <3>3, SamsungLists
      <3>4. CASE ~Samsung
        BY <1>2, <3>1, <3>2, <3>4, ReadLists
      <3> QED BY <3>3, <3>4
    <2> QED BY <2>1, <2>2
  <1> QED BY <1>1, <1>3 DEF Shown, Nothing

-----------------------------------------------------------------------------
(* Between two units, and between two calls. *)

Resting == phase \in {"idle", "unlock", "unlocked", "unit", "lock", "locked"}

(* Between two programs no command is next. *)
LEMMA NoCommand ==
  ASSUME Resting
  PROVE  NextCmd = Nothing /\ ~InUnit /\ ~Launched /\ ~Shown /\ ~Reset
  BY DEF Resting, NextCmd, InUnit, Launched, Shown, Reset

(* The same of the next state. *)
LEMMA NoCommandNext ==
  ASSUME Resting'
  PROVE  NextCmd' = Nothing /\ ~InUnit' /\ ~Launched' /\ ~Shown' /\ ~Reset'
  BY DEF Resting, NextCmd, InUnit, Launched, Shown, Reset

(* When all chips are readable there, six of the conjuncts say no more. *)
LEMMA Rest ==
  ASSUME SamsungOK', AllReadable', Resting'
  PROVE  ModeOK' /\ JobOK' /\ AmdOK' /\ ReadyOK' /\ WordOK' /\ DoneOK'
  <1>1. \A c \in Chips' : /\ chip'[c].mode = "array" /\ chip'[c].busy = Nothing
                          /\ (Amd' => ~chip'[c].error)
    BY DEF AllReadable, Readable, Amd
  <1>2. Samsung' => \A c \in Chips' : chip'[c].halted = Nothing
    BY DEF SamsungOK, Resting
  <1>3. NextCmd' = Nothing /\ ~InUnit' /\ ~Launched'
    BY NoCommandNext
  <1>4. phase' \notin {"before", "poll", "late", "after"}
    BY DEF Resting
  <1>5. ModeOK'
    BY <1>1, <1>3, <1>4 DEF ModeOK, AllReadable, Nothing
  <1>6. JobOK'
    BY <1>1, <1>2 DEF JobOK
  <1>7. AmdOK'
    BY <1>1 DEF AmdOK
  <1>8. ReadyOK'
    BY <1>4 DEF ReadyOK
  <1>9. WordOK'
    BY <1>3 DEF WordOK
  <1>10. DoneOK'
    BY <1>3, <1>4 DEF DoneOK
  <1> QED BY <1>5, <1>6, <1>7, <1>8, <1>9, <1>10

(* A call begins with readable flash, or nothing is said of it. *)
LEMMA StartInv ==
  ASSUME DriverInv, NEW k \in Calls, Start(k)
  PROVE  DriverInv'
  <1> USE DEF DriverInv, Control
  <1>1. /\ board' = board /\ chip' = chip /\ cell' = cell /\ locked' = locked /\ todo' = todo
        /\ seen' = seen /\ src' = src /\ faults' = faults /\ phase = "idle"
        /\ before' = [cell |-> cell, readable |-> AllReadable, fault |-> FALSE,
                      halted |-> \E c \in Chips : chip[c].halted # Nothing]
        /\ rc' = "OK" /\ irq' = (irq /\ k.op = "write") /\ calls' = calls + 1
    BY DEF Start
  <1>2. \/ /\ k.op = "write" /\ k.from \in Addr /\ k.to \in Addr
           /\ call' = [op |-> "write", at |-> WordOf(k.from), from |-> k.from, to |-> k.to,
                       word |-> <<>>]
        \/ /\ k.op = "erase" /\ k.from \in 0..(Sectors - 1) /\ k.to \in 0..(Sectors - 1)
           /\ call' = [op |-> "erase", at |-> k.from, from |-> k.from, to |-> k.to]
    BY DriversAssumption DEF Start
  <1>3. phase' = IF k.op = "write" /\ D.buff.unlocks THEN "unlock" ELSE "unit"
    BY DEF Start
  <1>4. Resting' /\ Erasing' = (k.op = "erase") /\ call'.op = k.op
    BY <1>2, <1>3 DEF Resting, Erasing
  <1>5. Width \in {2, 4}
    BY Families DEF TypeOK
  <1>6. ASSUME k.op = "write"
        PROVE  /\ WordOf(k.from) \in Nat /\ WordOf(k.from) % Width = 0
               /\ k.from < WordOf(k.from) + Width
    <2>1. k.from \in Nat
      BY <1>2, <1>6 DEF Addr
    <2>2. CASE Width = 2
      BY <2>1, <2>2 DEF WordOf
    <2>3. CASE Width = 4
      BY <2>1, <2>3 DEF WordOf
    <2> QED BY <1>5, <2>2, <2>3
  <1>7. TypeOK'
    <2>1. CallType'
      <3>1. CASE k.op = "write"
        BY <1>1, <1>2, <1>6, <3>1, SameBoard DEF CallType
      <3>2. CASE k.op = "erase"
        BY <1>1, <1>2, <3>2, DriversAssumption DEF CallType
      <3> QED BY <1>2, <3>1, <3>2
    <2>2. /\ before' = [cell |-> before'.cell, readable |-> before'.readable,
                        fault |-> before'.fault, halted |-> before'.halted]
          /\ before'.cell \in [Addr -> SUBSET Bits]
          /\ before'.readable \in BOOLEAN /\ before'.fault \in BOOLEAN
          /\ before'.halted \in BOOLEAN
      BY <1>1 DEF TypeOK, AllReadable
    <2>3. phase' \in {"unlock", "unit"} /\ irq' \in BOOLEAN /\ calls' \in Nat
      BY <1>1, <1>3 DEF TypeOK
    <2> QED BY <1>1, <2>1, <2>2, <2>3, SameBoard DEF TypeOK
  <1>8. TodoOK'
    BY <1>3 DEF TodoOK
  <1>9. PhaseOK'
    BY <1>1, <1>2, <1>3, <1>4, NoCommandNext, SameBoard DEF PhaseOK, Nothing
  <1>10. IrqOK'
    BY <1>1, <1>2, <1>3, <1>4, NoCommandNext DEF IrqOK
  <1>11. /\ NextCmd = Nothing /\ NextCmd' = Nothing
    BY <1>1, <1>4, NoCommandNext DEF NextCmd
  <1>12. SamsungOK'
    BY <1>1, <1>3, <1>11, SameBoard DEF SamsungOK, Nothing
  <1>13. LocksOK'
    BY <1>1, <1>2, <1>3, <1>4, NoCommandNext, SameBoard DEF LocksOK
  <1>14. ASSUME before'.readable  PROVE Work'
    <2>1. AllReadable /\ AllReadable'
      BY <1>1, <1>14, SameBoard DEF AllReadable, Readable
    <2>2. CellsOK'
      <3> SUFFICES ASSUME NEW a \in Addr
                   PROVE  ~(UnitOf(a)' < call'.at /\ InRange(a)')
        BY <1>1 DEF CellsOK
      <3>1. a \in Nat
        BY DEF Addr
      <3>2. CASE k.op = "erase"
        <4>1. UnitOf(a)' = SectorOf(a) /\ (InRange(a)' <=> SectorOf(a) \in call'.from..call'.to)
          BY <1>4, <3>2 DEF UnitOf, InRange, SectorOf
        <4>2. SectorOf(a) \in Nat /\ k.from \in Nat /\ k.to \in Nat
          BY <1>2, <3>2, SectorNumber, DriversAssumption
        <4> QED BY <1>2, <3>2, <4>1, <4>2
      <3>3. CASE k.op = "write"
        <4>1. UnitOf(a)' = WordOf(a) /\ (InRange(a)' <=> a \in k.from..k.to)
              /\ call'.at = WordOf(k.from)
          <5>1. WordOf(a)' = WordOf(a) /\ ~Erasing'
            BY <1>1, <1>4, <3>3, SameBoard
          <5> QED BY <1>2, <3>3, <5>1 DEF UnitOf, InRange
        <4>2. k.from \in Nat /\ k.to \in Nat
          BY <1>2, <3>3 DEF Addr
        <4>3. a >= k.from => WordOf(a) >= WordOf(k.from)
          <5>1. CASE Width = 2
            BY <3>1, <4>2, <5>1 DEF WordOf
          <5>2. CASE Width = 4
            BY <3>1, <4>2, <5>2 DEF WordOf
          <5> QED BY <1>5, <5>1, <5>2
        <4>4. WordOf(a) \in Nat /\ WordOf(k.from) \in Nat
          <5>1. CASE Width = 2
            BY <3>1, <4>2, <5>1 DEF WordOf
          <5>2. CASE Width = 4
            BY <3>1, <4>2, <5>2 DEF WordOf
          <5> QED BY <1>5, <5>1, <5>2
        <4> QED BY <3>1, <4>1, <4>2, <4>3, <4>4
      <3> QED BY <1>2, <3>2, <3>3
    <2>3. CleanOK'
      BY <1>1, <1>3, <1>4, NoCommandNext, SameBoard DEF CleanOK
    <2> QED BY <1>4, <1>12, <2>1, <2>2, <2>3, Rest DEF Work
  <1> QED BY <1>7, <1>8, <1>9, <1>10, <1>12, <1>13, <1>14

(* One write cycle to a chip that is not busy, from the driver's two loops    *)
(* over the sectors.                                                         *)
LEMMA Cycles ==
  ASSUME NEW x, ChipType(x)
  PROVE  LET y == IntelChip(IntelChip(x, "config", FALSE), "unlock", FALSE)
             z == IntelChip(x, "array", FALSE)
         IN  /\ ChipType(y) /\ ChipType(z)
             /\ x.mode \in {"array", "status"} /\ x.busy = Nothing =>
                   /\ y.mode = "status" /\ y.busy = Nothing /\ y.halted = x.halted
                   /\ z.mode = "array" /\ z.busy = Nothing /\ z.halted = x.halted
  <1> DEFINE w == IntelStep(x, "config", 0, {})
             y == IntelStep(w, "unlock", 0, {})
             z == IntelStep(x, "array", 0, {})
  <1>1. ChipType(w) /\ IntelEffect(x, "config", 0, {}, w)
    BY IntelEffects
  <1>2. ChipType(z) /\ IntelEffect(x, "array", 0, {}, z)
    BY IntelEffects
  <1>3. \A u, c : IntelStep(u, c, 0, {}) = IntelChip(u, c, FALSE)
    BY DEF IntelStep, IntelChip
  <1>4. y = IntelChip(IntelChip(x, "config", FALSE), "unlock", FALSE)
        /\ z = IntelChip(x, "array", FALSE)
    BY <1>3
  <1> HIDE DEF w, z
  <1>5. ChipType(y) /\ IntelEffect(w, "unlock", 0, {}, y)
    BY <1>1, IntelEffects
  <1> HIDE DEF y
  <1>6. ASSUME x.mode \in {"array", "status"}, x.busy = Nothing
        PROVE  /\ y.mode = "status" /\ y.busy = Nothing /\ y.halted = x.halted
               /\ z.mode = "array" /\ z.busy = Nothing /\ z.halted = x.halted
    <2>1. w.mode = "config" /\ w.busy = Nothing /\ w.halted = x.halted
      BY <1>1, <1>6 DEF IntelEffect
    <2>2. y.mode = "status" /\ y.busy = Nothing /\ y.halted = x.halted
      BY <1>5, <2>1 DEF IntelEffect
    <2>3. z.mode = "array" /\ z.busy = Nothing /\ z.halted = x.halted
      BY <1>2, <1>6 DEF IntelEffect
    <2> QED BY <2>2, <2>3
  <1> QED BY <1>2, <1>4, <1>5, <1>6

(* The sectors are unlocked, before and after a write. *)
LEMMA UnlockInv ==
  ASSUME DriverInv, Unlock
  PROVE  DriverInv'
  <1> USE DEF DriverInv, Control
  <1>1. /\ board' = board /\ cell' = cell /\ irq' = irq /\ call' = call /\ todo' = todo
        /\ seen' = seen /\ rc' = rc /\ src' = src /\ calls' = calls /\ faults' = faults
        /\ before' = before /\ locked' = locked \ SectorsUnlocked
        /\ phase \in {"unlock", "lock"}
        /\ phase' = IF phase = "unlock" THEN "unlocked" ELSE "locked"
        /\ chip' = [c \in Chips |-> IntelChip(IntelChip(chip[c], "config", FALSE), "unlock", FALSE)]
    BY DEF Unlock
  <1>2. Resting /\ Resting' /\ ~Erasing /\ D.buff.unlocks
    BY <1>1 DEF Resting, PhaseOK
  <1>3. ~Amd /\ ~Samsung
    BY <1>2, Families DEF TypeOK, Samsung
  <1>4. \A c \in Chips :
            /\ chip'[c] = IntelChip(IntelChip(chip[c], "config", FALSE), "unlock", FALSE)
            /\ ChipType(chip'[c])
    <2>1. ASSUME NEW c \in Chips  PROVE ChipType(chip[c])
      BY DEF TypeOK
    <2>2. ASSUME NEW c \in Chips
          PROVE  ChipType(IntelChip(IntelChip(chip[c], "config", FALSE), "unlock", FALSE))
      BY <2>1, Cycles
    <2> QED BY <1>1, <2>2
  <1>5. /\ NextCmd = Nothing /\ NextCmd' = Nothing
    BY <1>2, NoCommand, NoCommandNext
  <1>6. TypeOK'
    <2>1. CallType'
      BY <1>1, SameBoard DEF TypeOK, CallType
    <2>2. chip' = [c \in Chips |-> chip'[c]]
      BY <1>1
    <2> QED BY <1>1, <1>4, <2>1, <2>2, SameBoard DEF TypeOK
  <1>7. TodoOK' /\ PhaseOK' /\ IrqOK'
    <2>1. TodoOK'
      BY <1>1 DEF TodoOK
    <2>2. PhaseOK'
      BY <1>1, <1>2, SameBoard, SameCall, NoCommandNext DEF PhaseOK
    <2>3. IrqOK'
      BY <1>1, <1>2, SameBoard, SameCall, NoCommand, NoCommandNext DEF IrqOK
    <2> QED BY <2>1, <2>2, <2>3
  <1>8. SamsungOK' /\ LocksOK'
    <2>1. SamsungOK'
      BY <1>1, <1>3, SameBoard DEF SamsungOK
    <2>2. LocksOK'
      BY <1>1, <1>2, SameBoard, SameCall, NoCommandNext DEF LocksOK
    <2> QED BY <2>1, <2>2
  <1>9. ASSUME before.readable  PROVE Work'
    <2>1. \A c \in Chips : chip'[c].mode = "status" /\ chip'[c].busy = Nothing
                           /\ chip'[c].halted = chip[c].halted
      <3> SUFFICES ASSUME NEW c \in Chips
                   PROVE  chip'[c].mode = "status" /\ chip'[c].busy = Nothing
                          /\ chip'[c].halted = chip[c].halted
        OBVIOUS
      <3>1. chip[c].mode = "array" /\ chip[c].busy = Nothing
        BY <1>1, <1>9 DEF Work, ModeOK, Readable
      <3>2. ChipType(chip[c])
        BY DEF TypeOK
      <3> QED BY <1>4, <3>1, <3>2, Cycles
    <2>2. ModeOK'
      <3>1. phase' \in {"unlocked", "locked"} /\ ~Amd' /\ Chips' = Chips
        BY <1>1, <1>3, SameBoard
      <3> QED BY <1>5, <2>1, <3>1 DEF ModeOK, Nothing
    <2>3. JobOK' /\ AmdOK'
      <3>1. ~Amd' /\ ~Samsung' /\ Chips' = Chips
        BY <1>1, <1>3, SameBoard
      <3>2. JobOK'
        BY <2>1, <3>1 DEF JobOK
      <3> QED BY <3>1, <3>2 DEF AmdOK
    <2>4. ReadyOK' /\ WordOK' /\ DoneOK'
      BY <1>1, <1>2, SameBoard, NoCommandNext DEF ReadyOK, WordOK, DoneOK
    <2>5. CellsOK'
      <3>1. \A a : Target(a)' = Target(a) /\ UnitOf(a)' = UnitOf(a) /\ InRange(a)' = InRange(a)
        BY <1>1, SameTargets, SameCall
      <3> QED BY <1>1, <1>9, <3>1, SameCall DEF CellsOK, Work
    <2>6. CleanOK'
      BY <1>1, <1>2, <1>9, <2>1, SameBoard, SameCall, NoCommandNext DEF CleanOK, Work
    <2> QED BY <2>2, <2>3, <2>4, <2>5, <2>6 DEF Work
  <1> QED BY <1>1, <1>6, <1>7, <1>8, <1>9

(* The array is read again: the write begins, or the call is over. *)
LEMMA UnlockEndsInv ==
  ASSUME DriverInv, UnlockEnds
  PROVE  DriverInv'
  <1> USE DEF DriverInv, Control
  <1>1. /\ board' = board /\ cell' = cell /\ irq' = irq /\ call' = call /\ todo' = todo
        /\ seen' = seen /\ rc' = rc /\ src' = src /\ calls' = calls /\ faults' = faults
        /\ before' = before /\ locked' = locked
        /\ phase \in {"unlocked", "locked"}
        /\ phase' = IF phase = "unlocked" THEN "unit" ELSE "idle"
        /\ chip' = [c \in Chips |-> IntelChip(chip[c], "array", FALSE)]
    BY DEF UnlockEnds
  <1>2. Resting /\ Resting' /\ ~Erasing /\ D.buff.unlocks
    BY <1>1 DEF Resting, PhaseOK
  <1>3. ~Amd /\ ~Samsung
    BY <1>2, Families DEF TypeOK, Samsung
  <1>4. \A c \in Chips : chip'[c] = IntelChip(chip[c], "array", FALSE) /\ ChipType(chip'[c])
    <2>1. ASSUME NEW c \in Chips  PROVE ChipType(chip[c])
      BY DEF TypeOK
    <2>2. ASSUME NEW c \in Chips
          PROVE  ChipType(IntelChip(chip[c], "array", FALSE))
      BY <2>1, Cycles
    <2> QED BY <1>1, <2>2
  <1>5. /\ NextCmd = Nothing /\ NextCmd' = Nothing
    BY <1>2, NoCommand, NoCommandNext
  <1>6. TypeOK'
    <2>1. CallType'
      BY <1>1, <1>2, SameBoard DEF TypeOK, CallType, PhaseOK
    <2>2. chip' = [c \in Chips |-> chip'[c]]
      BY <1>1
    <2> QED BY <1>1, <1>4, <2>1, <2>2, SameBoard DEF TypeOK
  <1>7. TodoOK' /\ PhaseOK' /\ IrqOK'
    <2>1. TodoOK'
      BY <1>1 DEF TodoOK
    <2>2. PhaseOK'
      BY <1>1, <1>2, SameBoard, SameCall, NoCommandNext DEF PhaseOK
    <2>3. IrqOK'
      BY <1>1, <1>2, SameBoard, SameCall, NoCommand, NoCommandNext DEF IrqOK
    <2> QED BY <2>1, <2>2, <2>3
  <1>8. SamsungOK' /\ LocksOK'
    <2>1. SamsungOK'
      BY <1>1, <1>3, SameBoard DEF SamsungOK
    <2>2. LocksOK'
      BY <1>1, <1>2, SameBoard, SameCall, NoCommandNext DEF LocksOK
    <2> QED BY <2>1, <2>2
  <1>9. ASSUME before.readable  PROVE Work'
    <2>1. \A c \in Chips : chip'[c].mode = "array" /\ chip'[c].busy = Nothing
                           /\ chip'[c].halted = chip[c].halted
      <3> SUFFICES ASSUME NEW c \in Chips
                   PROVE  chip'[c].mode = "array" /\ chip'[c].busy = Nothing
                          /\ chip'[c].halted = chip[c].halted
        OBVIOUS
      <3>1. chip[c].busy = Nothing
        BY <1>1, <1>2, <1>9, NoCommand, NotLaunched DEF Work
      <3>2. chip[c].mode \in {"array", "status"}
        BY <1>1, <1>3, <1>5, <1>9, <3>1 DEF Work, ModeOK, Nothing
      <3>3. ChipType(chip[c])
        BY DEF TypeOK
      <3> QED BY <1>4, <3>1, <3>2, <3>3, Cycles
    <2>2. AllReadable'
      BY <1>1, <1>3, <2>1, SameBoard DEF AllReadable, Readable, Amd
    <2>5. CellsOK'
      <3>1. \A a : Target(a)' = Target(a) /\ UnitOf(a)' = UnitOf(a) /\ InRange(a)' = InRange(a)
        BY <1>1, SameTargets, SameCall
      <3> QED BY <1>1, <1>9, <3>1, SameCall DEF CellsOK, Work
    <2>6. CleanOK'
      BY <1>1, <1>2, <1>9, <2>1, SameBoard, SameCall, NoCommandNext DEF CleanOK, Work
    <2> QED BY <1>2, <1>8, <2>2, <2>5, <2>6, Rest DEF Work
  <1> QED BY <1>1, <1>6, <1>7, <1>8, <1>9

-----------------------------------------------------------------------------
(* The next unit. *)

(* The bytes of a word are in the flash. *)
LEMMA WordBytes ==
  ASSUME TypeOK, call.op # Nothing, ~Erasing, call.at <= call.to
  PROVE  /\ \A j \in 0..(Width - 1) : call.at + j \in Addr /\ UnitOf(call.at + j) = call.at
         /\ \A a \in Addr : UnitOf(a) = call.at =>
               a - call.at \in 0..(Width - 1) /\ call.at + (a - call.at) = a
  <1> DEFINE n == Sectors * SectorSize
  <1>1. n \in Nat /\ n % 4 = 0 /\ Addr = 0..(n - 1)
    BY Fourfold, DriversAssumption DEF Addr
  <1>2. call.at \in Nat /\ call.at % Width = 0 /\ call.to \in Addr
    BY CallNumbers
  <1> HIDE DEF n
  <1>3. call.at <= n - 1
    BY <1>1, <1>2
  <1>4. \A a : UnitOf(a) = a - (a % Width)
    BY DEF UnitOf, WordOf
  <1>5. CASE Width = 2
    <2> DEFINE b == call.at
    <2>1. b \in Nat /\ b % 2 = 0 /\ b + 2 <= n
      BY <1>1, <1>2, <1>3, <1>5
    <2> HIDE DEF b
    <2>2. ASSUME NEW j \in 0..1
          PROVE  b + j \in 0..(n - 1) /\ (b + j) - ((b + j) % 2) = b
      BY <1>1, <2>1
    <2>3. ASSUME NEW a \in 0..(n - 1), a - (a % 2) = b
          PROVE  a - b \in 0..1 /\ b + (a - b) = a
      BY <1>1, <2>1, <2>3
    <2>4. 0..(Width - 1) = 0..1 /\ \A a : UnitOf(a) = a - (a % 2)
      BY <1>4, <1>5
    <2>5. \A j \in 0..(Width - 1) : b + j \in Addr /\ UnitOf(b + j) = b
      BY <1>1, <2>2, <2>4
    <2>6. \A a \in Addr : UnitOf(a) = b => a - b \in 0..(Width - 1) /\ b + (a - b) = a
      BY <1>1, <2>3, <2>4
    <2> QED BY <2>5, <2>6 DEF b
  <1>6. CASE Width = 4
    <2> DEFINE b == call.at
    <2>1. b \in Nat /\ b % 4 = 0 /\ b + 4 <= n
      BY <1>1, <1>2, <1>3, <1>6
    <2> HIDE DEF b
    <2>2. ASSUME NEW j \in 0..3
          PROVE  b + j \in 0..(n - 1) /\ (b + j) - ((b + j) % 4) = b
      BY <1>1, <2>1
    <2>3. ASSUME NEW a \in 0..(n - 1), a - (a % 4) = b
          PROVE  a - b \in 0..3 /\ b + (a - b) = a
      BY <1>1, <2>1, <2>3
    <2>4. 0..(Width - 1) = 0..3 /\ \A a : UnitOf(a) = a - (a % 4)
      BY <1>4, <1>6
    <2>5. \A j \in 0..(Width - 1) : b + j \in Addr /\ UnitOf(b + j) = b
      BY <1>1, <2>2, <2>4
    <2>6. \A a \in Addr : UnitOf(a) = b => a - b \in 0..(Width - 1) /\ b + (a - b) = a
      BY <1>1, <2>3, <2>4
    <2> QED BY <2>5, <2>6 DEF b
  <1> QED BY <1>5, <1>6, Families DEF TypeOK

(* Where a unit begins the chips can be read, if they could at first. *)
LEMMA UnitReadable ==
  ASSUME Work, phase = "unit"
  PROVE  AllReadable
  BY DEF Work, ModeOK, AllReadable

(* All units are done, ^C, or flash that is not erased: the driver returns. *)
LEMMA UnitReturns ==
  ASSUME DriverInv, Unit, phase' # "before"
  PROVE  DriverInv'
  <1> USE DEF DriverInv, Control
  <1>1. /\ board' = board /\ chip' = chip /\ cell' = cell /\ locked' = locked /\ seen' = seen
        /\ src' = src /\ calls' = calls /\ faults' = faults /\ before' = before
        /\ phase = "unit"
    BY DEF Unit
  <1>2. /\ phase' = IF call.op = "write" /\ D.buff.unlocks THEN "lock" ELSE "idle"
        /\ \/ rc' = "OK" /\ irq' = TRUE /\ call' = call /\ call.at > call.to
           \/ /\ rc' = "OK" /\ irq' = TRUE /\ call.op = "erase" /\ call.at <= call.to
              /\ call' = [call EXCEPT !.to = call.at - 1]
           \/ /\ rc' = "NOT_ERASED" /\ irq' = irq /\ call.op = "write"
              /\ \E w : call' = [call EXCEPT !.word = w]
    BY DEF Unit, ReturnFrom
  <1>3. call.op # Nothing /\ Resting /\ Resting'
    BY <1>1, <1>2 DEF PhaseOK, Resting
  <1>4. call.op \in {"write", "erase"} /\ (Erasing <=> call.op = "erase")
    BY <1>3, CallNumbers DEF Erasing
  <1>5. /\ call'.op = call.op /\ call'.at = call.at /\ call'.from = call.from
        /\ \/ call'.to = call.to
           \/ call.op = "erase" /\ call'.to = call.at - 1 /\ call.at <= call.to
    BY <1>2, <1>3, <1>4, CallNumbers
  <1>6. /\ NextCmd = Nothing /\ NextCmd' = Nothing
    BY <1>3, NoCommand, NoCommandNext
  <1>7. Erasing' = Erasing /\ Judges' = Judges /\ \A a : UnitOf(a)' = UnitOf(a)
    <2>1. Erasing' = Erasing /\ Judges' = Judges
      BY <1>1, <1>5 DEF Erasing, Judges, Part, D
    <2>2. \A a : UnitOf(a)' = UnitOf(a)
      BY <1>1, <2>1, SameBoard DEF UnitOf, SectorOf
    <2> QED BY <2>1, <2>2
  <1>8. TypeOK'
    <2>1. CallType'
      <3>1. CASE Erasing
        BY <1>1, <1>2, <1>3, <1>4, <3>1, CallNumbers, DriversAssumption, SameBoard
        DEF TypeOK, CallType
      <3>2. CASE ~Erasing
        <4>1. call' = call \/ \E w : call' = [call EXCEPT !.word = w]
          BY <1>2, <1>4, <3>2
        <4> QED BY <1>1, <1>3, <1>4, <3>2, <4>1, CallNumbers, SameBoard DEF CallType
      <3> QED BY <3>1, <3>2
    <2>2. irq' \in BOOLEAN /\ rc' \in {"OK", "NOT_ERASED"}
      BY <1>2 DEF TypeOK
    <2> QED BY <1>1, <1>2, <2>1, <2>2, SameBoard DEF TypeOK
  <1>9. TodoOK'
    BY <1>2 DEF TodoOK
  <1>10. PhaseOK'
    <2>1. rc' = "OK" => call'.at > call'.to
      BY <1>2, <1>3, <1>4, CallNumbers
    <2> QED BY <1>1, <1>2, <1>3, <1>4, <1>5, <1>7, <2>1, NoCommandNext, SameBoard
        DEF PhaseOK, Nothing
  <1>11. IrqOK'
    <2>1. irq'
      BY <1>1, <1>2, <1>3, <1>4, NoCommand DEF IrqOK
    <2>2. phase' # "idle" => ~Erasing'
      BY <1>2, <1>4, <1>7
    <2> QED BY <1>3, <1>6, <2>1, <2>2, NoCommandNext DEF IrqOK
  <1>12. SamsungOK'
    <2>1. Samsung' = Samsung /\ Chips' = Chips /\ phase' \notin {"before", "late", "after"}
      BY <1>1, <1>2, SameBoard
    <2> QED BY <1>1, <1>6, <2>1 DEF SamsungOK, Nothing
  <1>13. LocksOK'
    BY <1>1, <1>2, <1>3, <1>7, NoCommandNext, SameBoard DEF LocksOK
  <1>14. ASSUME before.readable  PROVE Work'
    <2>1. Work /\ AllReadable /\ AllReadable'
      BY <1>1, <1>14, UnitReadable, SameBoard DEF AllReadable, Readable
    <2>2. CellsOK'
      <3> SUFFICES ASSUME NEW a \in Addr
                   PROVE  /\ ~InRange(a)' \/ UnitOf(a) > call.at => cell[a] = before.cell[a]
                          /\ UnitOf(a) < call.at /\ InRange(a)' /\ Judges => cell[a] = Target(a)'
        BY <1>1, <1>2, <1>5, <1>7 DEF CellsOK
      <3>1. /\ ~InRange(a) \/ UnitOf(a) >= call.at => cell[a] = before.cell[a]
            /\ UnitOf(a) < call.at /\ InRange(a) /\ Judges => cell[a] = Target(a)
        <4>1. UnitOf(a) \in Int /\ call.at \in Int
          <5>1. Width \in {2, 4} /\ a \in Nat
            BY Families DEF TypeOK, Addr
          <5>2. WordOf(a) \in Int
            <6>1. CASE Width = 2
              BY <5>1, <6>1 DEF WordOf
            <6>2. CASE Width = 4
              BY <5>1, <6>2 DEF WordOf
            <6> QED BY <5>1, <6>1, <6>2
          <5> QED BY <1>3, <5>2, CallNumbers, SectorNumber DEF UnitOf
        <4>2. UnitOf(a) >= call.at => UnitOf(a) = call.at \/ UnitOf(a) > call.at
          BY <4>1
        <4> QED BY <1>1, <1>3, <2>1, <4>2 DEF Work, CellsOK
      <3>2. CASE call'.to = call.to
        <4>1. (InRange(a)' <=> InRange(a)) /\ Target(a)' = Target(a)
          BY <1>1, <1>5, <1>7, <3>2 DEF InRange, Target, SectorOf
        <4> QED BY <1>3, <3>1, <4>1, <2>1 DEF Work, CellsOK
      <3>3. CASE call.op = "erase" /\ call'.to = call.at - 1 /\ call.at <= call.to
        <4>1. /\ InRange(a)' <=> SectorOf(a) \in call.from..(call.at - 1)
              /\ InRange(a) <=> SectorOf(a) \in call.from..call.to
              /\ UnitOf(a) = SectorOf(a)
          BY <1>4, <1>5, <1>7, <3>3 DEF InRange, UnitOf, SectorOf
        <4>2. SectorOf(a) \in Nat /\ call.at \in Nat /\ call.from \in Nat /\ call.to \in Int
          BY <1>3, SectorNumber, CallNumbers
        <4>3. /\ InRange(a)' <=> InRange(a) /\ UnitOf(a) < call.at
              /\ ~InRange(a)' => ~InRange(a) \/ UnitOf(a) >= call.at
          BY <3>3, <4>1, <4>2
        <4>4. InRange(a)' => Target(a)' = Target(a)
          BY <1>4, <1>7, <3>3, <4>3 DEF Target
        <4>5. UnitOf(a) > call.at => UnitOf(a) >= call.at
          BY <4>1, <4>2
        <4> QED BY <3>1, <4>3, <4>4, <4>5
      <3> QED BY <1>5, <3>2, <3>3
    <2>3. CleanOK'
      <3>1. Reset' = FALSE /\ ~InUnit'
        BY <1>3, NoCommandNext
      <3> QED BY <1>1, <1>2, <2>1, <3>1, SameBoard DEF CleanOK, Work
    <2> QED BY <1>3, <1>12, <2>1, <2>2, <2>3, Rest DEF Work
  <1> QED BY <1>1, <1>8, <1>9, <1>10, <1>11, <1>12, <1>13, <1>14

(* The program of the unit begins: what erasing and writing have in common. *)
LEMMA UnitBegins ==
  ASSUME Control, Unit, phase' = "before"
  PROVE  /\ board' = board /\ chip' = chip /\ cell' = cell /\ locked' = locked /\ seen' = seen
         /\ src' = src /\ calls' = calls /\ faults' = faults /\ before' = before
         /\ irq' = irq /\ rc' = rc /\ todo' = Part.before
         /\ phase = "unit" /\ call.at <= call.to
         /\ \/ Erasing /\ call' = call
            \/ LET word == [j \in 0..(Width - 1) |-> Merged(call.at + j)]
               IN  ~Erasing /\ call' = [call EXCEPT !.word = word] /\ Erasable(word)
  <1>1. phase = "unit" /\ call.op # Nothing
    BY DEF Unit, Control, PhaseOK
  <1>2. call.op \in {"write", "erase"} /\ (Erasing <=> call.op = "erase")
    BY <1>1, CallNumbers DEF Control, Erasing
  <1> QED BY <1>1, <1>2 DEF Unit, ReturnFrom

(* The step that begins a unit's program keeps the invariant. *)
LEMMA UnitProgram ==
  ASSUME DriverInv, Unit, phase' = "before"
  PROVE  DriverInv'
  <1> USE DEF DriverInv, Control
  <1>1. /\ board' = board /\ chip' = chip /\ cell' = cell /\ locked' = locked /\ seen' = seen
        /\ src' = src /\ calls' = calls /\ faults' = faults /\ before' = before
        /\ irq' = irq /\ rc' = rc /\ todo' = Part.before
        /\ phase = "unit" /\ call.at <= call.to
        /\ \/ Erasing /\ call' = call
           \/ LET word == [j \in 0..(Width - 1) |-> Merged(call.at + j)]
              IN  ~Erasing /\ call' = [call EXCEPT !.word = word] /\ Erasable(word)
    BY UnitBegins
  <1>2. call.op # Nothing /\ Resting
    BY <1>1 DEF PhaseOK, Resting
  <1>3. call.op \in {"write", "erase"} /\ (Erasing <=> call.op = "erase")
    BY <1>2, CallNumbers DEF Erasing
  <1>4. /\ call'.op = call.op /\ call'.at = call.at /\ call'.from = call.from
        /\ call'.to = call.to
    BY <1>1, <1>2, CallNumbers
  <1>5. /\ Erasing' = Erasing /\ Judges' = Judges /\ Part' = Part
        /\ SectorsUnlocked' = SectorsUnlocked
        /\ \A a : UnitOf(a)' = UnitOf(a) /\ InRange(a)' = InRange(a) /\ Target(a)' = Target(a)
    <2>1. Erasing' = Erasing /\ Judges' = Judges /\ Part' = Part
      BY <1>1, <1>4 DEF Erasing, Judges, Part, D
    <2>2. \A a : UnitOf(a)' = UnitOf(a)
      BY <1>1, <2>1, SameBoard DEF UnitOf, SectorOf
    <2>3. \A a : InRange(a)' = InRange(a)
      BY <1>4, <2>1 DEF InRange, SectorOf
    <2>4. \A a : Target(a)' = Target(a)
      BY <1>1, <2>1, <2>3 DEF Target
    <2>5. SectorsUnlocked' = SectorsUnlocked
      BY <1>4 DEF SectorsUnlocked
    <2> QED BY <2>1, <2>2, <2>3, <2>4, <2>5
  <1>6. /\ TodoOK' /\ NextCmd' \in IF Erasing THEN {"config", "clear", "erase"} ELSE {"off"}
        /\ Erasing /\ NextCmd' = "erase" => Amd \/ Samsung \/ Part.judge = "none"
        /\ Erasing /\ D.buff.unlocks => NextCmd' = "config"
    BY <1>1, <1>4, FirstBefore DEF TypeOK
  <1>7. InUnit' /\ ~Launched' /\ NextCmd' \notin {"confirm", "data", "unlock", Nothing, "status"}
    BY <1>6 DEF InUnit, Launched, Nothing
  <1>8. TypeOK'
    <2>1. CallType'
      <3>1. CASE Erasing
        BY <1>1, <1>2, <3>1, SameBoard DEF TypeOK, CallType
      <3>2. CASE ~Erasing
        <4>1. call' = [op |-> "write", at |-> call.at, from |-> call.from, to |-> call.to,
                       word |-> call'.word]
          BY <1>1, <1>2, <3>2, CallNumbers
        <4> QED BY <1>1, <1>2, <3>2, <4>1, CallNumbers, SameBoard DEF CallType
      <3> QED BY <3>1, <3>2
    <2> QED BY <1>1, <2>1, SameBoard DEF TypeOK
  <1>9. PhaseOK'
    BY <1>1, <1>2, <1>4, <1>5, SameBoard DEF PhaseOK
  <1>10. IrqOK'
    <2>1. irq /\ ~Samsung => ~Erasing
      BY <1>1 DEF IrqOK
    <2> QED BY <1>1, <1>5, <1>6, <1>7, <2>1, SameBoard DEF IrqOK
  <1>11. SamsungOK'
    <2>1. Samsung' = Samsung /\ Chips' = Chips
      BY <1>1, SameBoard
    <2>2. NextCmd = Nothing
      BY <1>2, NoCommand
    <2> QED BY <1>1, <2>1, <2>2 DEF SamsungOK, Nothing
  <1>12. LocksOK'
    BY <1>1, <1>5, SameBoard DEF LocksOK
  <1>13. ASSUME before.readable  PROVE Work'
    <2>1. Work /\ AllReadable
      BY <1>1, <1>13, UnitReadable
    <2>2. \A c \in Chips : /\ chip[c].mode = "array" /\ chip[c].busy = Nothing
                           /\ (Amd => ~chip[c].error) /\ Readable(c) /\ Readable(c)'
      BY <1>1, <2>1, SameBoard DEF AllReadable, Readable, Amd
    <2>3. Samsung => \A c \in Chips : chip[c].halted = Nothing
      BY <1>1 DEF SamsungOK
    <2>4. ModeOK'
      <3>1. Chips' = Chips /\ Amd' = Amd
        BY <1>1, SameBoard
      <3> QED BY <1>1, <1>7, <2>2, <3>1 DEF ModeOK
    <2>5. JobOK' /\ AmdOK'
      <3>1. Chips' = Chips /\ Amd' = Amd /\ Samsung' = Samsung
        BY <1>1, SameBoard
      <3>2. JobOK'
        BY <1>1, <2>2, <2>3, <3>1 DEF JobOK
      <3> QED BY <1>1, <2>2, <3>1, <3>2 DEF AmdOK
    <2>6. ReadyOK' /\ DoneOK'
      BY <1>7 DEF ReadyOK, DoneOK
    <2>7. \A a \in Addr : UnitOf(a) = call.at => cell[a] = before.cell[a]
      BY <1>1, <1>2, <2>1 DEF Work, CellsOK
    <2>8. WordOK'
      <3> SUFFICES ASSUME ~Erasing
                   PROVE  /\ call'.word = [j \in 0..(Width - 1) |-> Target(call.at + j)]
                          /\ board # "lart" =>
                                \A a \in Addr : UnitOf(a) = call.at => Target(a) \subseteq cell[a]
        <4>1. [j \in 0..(Width - 1) |-> Target(call.at + j)]'
                = [j \in 0..(Width - 1) |-> Target(call.at + j)]
          BY <1>1, <1>4, <1>5, SameBoard
        <4> QED BY <1>1, <1>4, <1>5, <4>1 DEF WordOK
      <3> DEFINE word == [j \in 0..(Width - 1) |-> Merged(call.at + j)]
      <3>1. call'.word = word /\ Erasable(word)
        BY <1>1, <1>2, CallNumbers
      <3>2. \A a \in Addr : Read(a) = cell[a]
        BY <2>2, Lanes DEF Read, TypeOK
      <3>3. \A j \in 0..(Width - 1) : call.at + j \in Addr /\ UnitOf(call.at + j) = call.at
        BY <1>1, <1>2, WordBytes
      <3>4. \A j \in 0..(Width - 1) : Merged(call.at + j) = Target(call.at + j)
        BY <2>7, <3>2, <3>3 DEF Merged, Target, InRange
      <3>5. word = [j \in 0..(Width - 1) |-> Target(call.at + j)]
        BY <3>4
      <3>6. ASSUME board # "lart", NEW a \in Addr, UnitOf(a) = call.at
            PROVE  Target(a) \subseteq cell[a]
        <4> DEFINE i == a - call.at
        <4>1. i \in 0..(Width - 1) /\ call.at + i = a
          BY <1>1, <1>2, <3>6, WordBytes
        <4> HIDE DEF i
        <4>2. word[i] \subseteq Shuffled(Read(call.at + i))
          BY <3>1, <4>1 DEF Erasable
        <4>3. Shuffled(Read(a)) = cell[a]
          BY <3>2, <3>6 DEF Shuffled
        <4>4. word[i] = Target(a)
          BY <3>5, <4>1
        <4> QED BY <4>1, <4>2, <4>3, <4>4
      <3> QED BY <3>1, <3>5, <3>6
    <2>9. CellsOK'
      BY <1>1, <1>4, <1>5, <2>1 DEF CellsOK, Work
    <2>10. CleanOK'
      <3>1. Reset' => NextCmd' = "erase" /\ ~Amd /\ Part.judge # "none"
        BY <1>1, <1>5, <1>6, SameBoard DEF Reset
      <3>2. Reset' => Samsung
        BY <1>6, <3>1
      <3> QED BY <1>1, <1>5, <1>6, <2>1, <3>2, SameBoard DEF CleanOK, Work
    <2> QED BY <2>4, <2>5, <2>6, <2>8, <2>9, <2>10 DEF Work
  <1> QED BY <1>1, <1>6, <1>8, <1>9, <1>10, <1>11, <1>12, <1>13

-----------------------------------------------------------------------------
(* From one phase of a unit to the next. *)

(* What is common to the actions that do that.                              *)
LEMMA Passing ==
  ASSUME DriverInv, board' = board, chip' = chip, cell' = cell, locked' = locked, irq' = irq,
         call' = call, rc' = rc, src' = src, calls' = calls,
         phase \in {"before", "poll", "late"}, phase' \in {"poll", "late", "after"},
         phase = "late" => phase' = "after",
         seen' \in {"ok", "error", "late"}, faults' \in Nat, NextCmd = Nothing, TodoOK',
         NextCmd' \in {"suspend", "array", "clear", "config", "status", Nothing},
         phase' = "after" =>
            NextCmd' \in IF Samsung THEN {"status"} ELSE {"config", "clear", "array"},
         before' = before \/ before' = [before EXCEPT !.fault = TRUE],
         phase' = "late" \/ phase = "late" => seen' = "late" /\ before'.fault
  PROVE  /\ Control'
         /\ before.readable => ModeOK' /\ JobOK' /\ WordOK' /\ CellsOK'
         /\ \A c \in Chips : UnitDone(c)' = UnitDone(c)
         /\ before'.readable = before.readable /\ before'.halted = before.halted
  <1> USE DEF DriverInv, Control
  <1>1. /\ before'.cell = before.cell /\ before'.readable = before.readable
        /\ before'.fault \in BOOLEAN /\ (before.fault => before'.fault)
        /\ before'.halted = before.halted
        /\ before' = [cell |-> before'.cell, readable |-> before'.readable,
                      fault |-> before'.fault, halted |-> before'.halted]
    BY DEF TypeOK
  <1>2. InUnit /\ InUnit' /\ Launched /\ Launched' /\ phase # "idle" /\ phase' # "idle"
    BY DEF InUnit, Launched, Nothing
  <1>3. NextCmd' \notin {"confirm", "data", "unlock", "off"}
    BY DEF Nothing
  <1>4. NextCmd \notin {"confirm", "data", "unlock", "off"}
    BY DEF Nothing
  <1>5. TypeOK'
    <2>1. CallType'
      BY <1>2, SameBoard DEF TypeOK, CallType
    <2> QED BY <1>1, <2>1, SameBoard DEF TypeOK
  <1>6. PhaseOK'
    BY <1>1, <1>2, SameBoard, SameCall DEF PhaseOK
  <1>7. IrqOK'
    <2>1. irq => Samsung
      BY <1>2, <1>4 DEF IrqOK
    <2>2. phase' = "after" =>
             NextCmd' \notin IF Samsung THEN {"array", "resume", Nothing} ELSE {Nothing}
      BY DEF Nothing
    <2> QED BY <1>2, <2>1, <2>2, SameBoard, SameCall DEF IrqOK
  <1>8. SamsungOK'
    <2> SUFFICES ASSUME Samsung, NEW c \in Chips
                 PROVE  (/\ chip[c].busy # Nothing =>
                              chip[c].halted = Nothing /\ chip[c].mode = "status"
                         /\ chip[c].mode = "erase" => phase = "before" /\ NextCmd = "confirm"
                         /\ chip[c].mode = "program" => phase = "before" /\ NextCmd = "data"
                         /\ chip[c].mode = "config" => phase = "before" /\ NextCmd = "unlock"
                         /\ chip[c].halted # Nothing =>
                               /\ phase \in {"late", "after"} /\ seen # "ok" /\ before.fault
                               /\ phase = "after" => NextCmd # Nothing)'
      BY SameBoard DEF SamsungOK
    <2>1. chip[c].halted # Nothing => phase = "late"
      BY DEF SamsungOK
    <2>2. chip[c].mode \notin {"erase", "program", "config"}
      BY <1>4 DEF SamsungOK
    <2>3. phase' = "after" => NextCmd' # Nothing
      BY DEF Nothing
    <2>4. chip[c].busy # Nothing => chip[c].halted = Nothing /\ chip[c].mode = "status"
      BY DEF SamsungOK
    <2> QED BY <2>1, <2>2, <2>3, <2>4
  <1>9. LocksOK'
    BY <1>2, SameBoard, SameCall DEF LocksOK
  <1>10. \A a : Target(a)' = Target(a) /\ UnitOf(a)' = UnitOf(a) /\ InRange(a)' = InRange(a)
    BY <1>1, SameTargets, SameCall
  <1>11. ASSUME before.readable
         PROVE  ModeOK' /\ JobOK' /\ WordOK' /\ CellsOK'
    <2>1. ModeOK /\ JobOK /\ WordOK /\ CellsOK
      BY <1>11 DEF Work
    <2>2. ModeOK'
      <3>1. Chips' = Chips /\ Amd' = Amd /\ phase' \notin {"unlock", "unit", "lock"}
        BY SameBoard
      <3> QED BY <1>2, <1>3, <1>4, <2>1, <3>1 DEF ModeOK
    <2>3. JobOK'
      <3>1. \A c \in Chips : [a \in Mine(c) |-> Target(a)]' = [a \in Mine(c) |-> Target(a)]
        <4>1. \A c \in Chips : Mine(c)' = Mine(c)
          BY SameCall
        <4> QED BY <1>10, <4>1
      <3> QED BY <1>2, <2>1, <3>1, SameBoard, SameCall DEF JobOK
    <2>4. WordOK'
      <3>1. [j \in 0..(Width - 1) |-> Target(call.at + j)]'
              = [j \in 0..(Width - 1) |-> Target(call.at + j)]
        BY <1>10, SameBoard
      <3> QED BY <1>2, <1>10, <2>1, <3>1, SameBoard, SameCall DEF WordOK
    <2>5. CellsOK'
      BY <1>1, <1>10, <2>1, SameCall DEF CellsOK
    <2> QED BY <2>2, <2>3, <2>4, <2>5
  <1>12. \A c \in Chips : UnitDone(c)' = UnitDone(c)
    BY <1>1, SameUnit
  <1> QED BY <1>1, <1>5, <1>6, <1>7, <1>8, <1>9, <1>11, <1>12

(* The loop over the status ends. *)
LEMMA PollInv ==
  ASSUME DriverInv, Poll
  PROVE  DriverInv'
  <1> USE DEF DriverInv
  <1>1. /\ board' = board /\ chip' = chip /\ cell' = cell /\ locked' = locked /\ irq' = irq
        /\ call' = call /\ rc' = rc /\ src' = src /\ calls' = calls /\ faults' = faults
        /\ before' = before /\ phase = "poll" /\ phase' = "after" /\ todo' = Part.after
        /\ \/ /\ Ready
              /\ seen' = IF Part.judge \in {"status", "again", "data"} /\ Failed THEN "error"
                         ELSE "ok"
           \/ ~Ready /\ Part.judge = "busy" /\ Failed /\ seen' = "error"
    BY DEF Poll
  <1>2. /\ TodoOK' /\ ~Shown'
        /\ NextCmd' \in IF Samsung THEN {"status"} ELSE {"config", "clear", "array"}
    BY <1>1, FirstAfter DEF Control, TypeOK
  <1>3. NextCmd = Nothing /\ faults' \in Nat /\ seen' \in {"ok", "error", "late"}
    BY <1>1 DEF NextCmd, Control, TypeOK
  <1>4. /\ Control'
        /\ before.readable => ModeOK' /\ JobOK' /\ WordOK' /\ CellsOK'
        /\ \A c \in Chips : UnitDone(c)' = UnitDone(c)
    BY <1>1, <1>2, <1>3, Passing
  <1>5. /\ Part.judge = "busy" => board = "impa7" /\ ~Erasing /\ ~Amd
        /\ Amd => Part.judge \in {"status", "data"}
        /\ Judges => Part.judge \in {"status", "again", "data"}
        /\ Part.judge # "none" => Part.judge \in {"status", "again", "data", "busy"}
    <2>1. CASE Erasing
      BY <2>1, PartIs, ErasePrograms DEF Control, TypeOK, Judges, Erasing
    <2>2. CASE ~Erasing
      <3>1. Part.judge = IF Samsung THEN "again" ELSE IF Amd THEN "data"
                         ELSE IF board = "impa7" THEN "busy" ELSE "status"
        BY <2>2, PartIs, WritePrograms DEF Control, TypeOK
      <3>2. Amd => ~Samsung
        BY Families DEF Control, TypeOK, Samsung
      <3> QED BY <2>2, <3>1, <3>2 DEF Judges, Erasing
    <2> QED BY <2>1, <2>2
  <1>6. ASSUME before.readable  PROVE Work'
    <2>1. AmdOK /\ DoneOK /\ CleanOK
      BY <1>6 DEF Work
    <2>2. /\ seen' = "ok" /\ Part.judge \in {"status", "again", "data"}
             => \A c \in Chips : chip[c].busy = Nothing /\ ~chip[c].error
          /\ seen' = "ok" => Ready
      BY <1>1 DEF Ready, Failed
    <2>3. AmdOK'
      BY <1>1, <1>5, <2>1, <2>2, SameBoard DEF AmdOK
    <2>4. ReadyOK'
      <3>1. seen' = "ok" \/ ~Escape' => Ready'
        <4>1. Ready' <=> Ready
          BY <1>1, SameBoard DEF Ready
        <4>2. ~Ready => seen' = "error" /\ board = "impa7"
          BY <1>1, <1>5
        <4> QED BY <1>1, <4>1, <4>2 DEF Escape
      <3> QED BY <1>1, <1>2, <3>1 DEF ReadyOK
    <2>5. DoneOK'
      <3>1. ASSUME NEW c \in Chips, chip[c].busy = Nothing, ~chip[c].error,
                   board = "lart" => Erasing
            PROVE  UnitDone(c)
        <4>1. Samsung => chip[c].halted = Nothing
          BY <1>1 DEF Control, SamsungOK
        <4> QED BY <1>1, <2>1, <3>1, <4>1 DEF DoneOK
      <3>2. ASSUME seen' = "ok", Judges, NEW c \in Chips
            PROVE  UnitDone(c)
        <4>1. chip[c].busy = Nothing /\ ~chip[c].error
          BY <1>5, <2>2, <3>2
        <4>2. board = "lart" => Erasing
          BY <3>2 DEF Judges, Erasing
        <4> QED BY <3>1, <4>1, <4>2
      <3> QED BY <1>1, <1>4, <3>1, <3>2, SameBoard, SameCall DEF DoneOK
    <2>6. CleanOK'
      <3> SUFFICES ASSUME ~before.fault, ~before.halted, ~Samsung
                   PROVE  /\ \A c \in Chips : chip[c].halted = Nothing
                          /\ seen' = "ok"
                          /\ Reset' => \A c \in Chips : ~chip[c].error
        BY <1>1, SameBoard, SameCall DEF CleanOK
      <3>1. call.op # Nothing
        BY <1>1 DEF Control, PhaseOK
      <3>2. /\ \A c \in Chips : chip[c].halted = Nothing
            /\ Reset => \A c \in Chips : ~chip[c].error
        BY <2>1, <3>1 DEF CleanOK
      <3>3. Reset' => Reset
        BY <1>1, SameBoard, SameCall DEF Reset
      <3>4. Part.judge # "none" => \A c \in Chips : ~chip[c].error
        <4>1. CASE Amd
          BY <2>1, <4>1 DEF AmdOK
        <4>2. CASE ~Amd
          BY <1>1, <3>2, <4>2 DEF Reset
        <4> QED BY <4>1, <4>2
      <3>5. seen' = "ok"
        <4>1. Part.judge # "none" => ~Failed
          BY <3>4 DEF Failed
        <4> QED BY <1>1, <4>1
      <3> QED BY <3>2, <3>3, <3>5
    <2> QED BY <1>4, <1>6, <2>3, <2>4, <2>5, <2>6 DEF Work
  <1> QED BY <1>1, <1>4, <1>6

(* The timer says it is too late. *)
LEMMA TooLateInv ==
  ASSUME DriverInv, TooLate
  PROVE  DriverInv'
  <1> USE DEF DriverInv
  <1>1. /\ board' = board /\ chip' = chip /\ cell' = cell /\ locked' = locked /\ irq' = irq
        /\ call' = call /\ rc' = rc /\ src' = src /\ calls' = calls
        /\ before' = [before EXCEPT !.fault = TRUE] /\ seen' = "late"
        /\ phase = "poll" /\ phase' = "late" /\ todo' = Part.late
    BY DEF TooLate
  <1>2. /\ TodoOK' /\ NextCmd' \in {"suspend", "array", "clear", Nothing}
        /\ Suspends => NextCmd' = "suspend"
    BY <1>1, FirstLate DEF Control, TypeOK
  <1>3. NextCmd = Nothing /\ faults' \in Nat /\ before'.fault
    BY <1>1 DEF NextCmd, Control, TypeOK, TooLate
  <1>4. /\ Control'
        /\ before.readable => ModeOK' /\ JobOK' /\ WordOK' /\ CellsOK'
        /\ \A c \in Chips : UnitDone(c)' = UnitDone(c)
        /\ before'.readable = before.readable /\ before'.halted = before.halted
    BY <1>1, <1>2, <1>3, Passing
  <1>5. ASSUME before.readable  PROVE Work'
    <2>1. AmdOK'
      BY <1>1, <1>3 DEF AmdOK
    <2>2. ReadyOK'
      BY <1>1, <1>2, SameBoard DEF ReadyOK, Nothing
    <2>3. DoneOK'
      BY <1>1, <1>4, <1>5, SameBoard, SameCall DEF DoneOK, Work
    <2>4. CleanOK'
      BY <1>3 DEF CleanOK
    <2> QED BY <1>4, <1>5, <2>1, <2>2, <2>3, <2>4 DEF Work
  <1> QED BY <1>4, <1>5

(* The commands of a phase are done, and the driver stays with the unit. *)
LEMMA PhaseEndsInv ==
  ASSUME DriverInv, PhaseEnds, phase' \in {"poll", "after"}
  PROVE  DriverInv'
  <1> USE DEF DriverInv
  <1>1. /\ board' = board /\ chip' = chip /\ cell' = cell /\ locked' = locked /\ irq' = irq
        /\ call' = call /\ rc' = rc /\ src' = src /\ calls' = calls /\ faults' = faults
        /\ before' = before /\ seen' = seen /\ phase \in {"before", "late"} /\ todo = <<>>
        /\ \/ phase = "before" /\ phase' = "poll" /\ todo' = todo
           \/ phase = "late" /\ phase' = "after" /\ ~Part.leaves /\ todo' = Part.after
    BY DEF PhaseEnds, ReturnFrom
  <1>2. /\ TodoOK'
        /\ phase' = "after" =>
              NextCmd' \in (IF Samsung THEN {"status"} ELSE {"config", "clear", "array"})
              /\ ~Shown'
        /\ phase' = "poll" => NextCmd' = Nothing
    <2>1. CASE phase' = "poll"
      BY <2>1 DEF TodoOK, NextCmd
    <2>2. CASE phase' = "after"
      BY <1>1, <2>2, FirstAfter DEF Control, TypeOK
    <2> QED BY <1>1, <2>1, <2>2
  <1>3. /\ NextCmd = Nothing /\ faults' \in Nat /\ seen' \in {"ok", "error", "late"}
        /\ phase = "late" => seen' = "late" /\ before'.fault
    BY <1>1 DEF NextCmd, Control, TypeOK, PhaseOK
  <1>4. /\ Control'
        /\ before.readable => ModeOK' /\ JobOK' /\ WordOK' /\ CellsOK'
        /\ \A c \in Chips : UnitDone(c)' = UnitDone(c)
    BY <1>1, <1>2, <1>3, Passing
  <1>5. ASSUME before.readable  PROVE Work'
    <2>1. AmdOK /\ ReadyOK /\ DoneOK /\ CleanOK
      BY <1>5 DEF Work
    <2>2. AmdOK'
      BY <1>1, <1>3, <2>1, SameBoard DEF AmdOK
    <2>3. ReadyOK'
      <3>1. CASE phase' = "poll"
        BY <3>1 DEF ReadyOK
      <3>2. CASE phase' = "after"
        <4>1. phase = "late" /\ seen' = "late" /\ before.fault
          BY <1>1, <1>3, <3>2
        <4>2. ~Escape' => Suspends
          BY <1>1, <4>1, SameBoard DEF Escape
        <4>3. Suspends => Ready'
          BY <1>1, <1>3, <2>1, <4>1, SameBoard DEF ReadyOK, Ready, Nothing
        <4> QED BY <1>2, <3>2, <4>1, <4>2, <4>3 DEF ReadyOK
      <3> QED BY <3>1, <3>2
    <2>4. DoneOK'
      <3>1. phase = "before" => Launched
        BY <1>3 DEF Launched
      <3> QED BY <1>1, <1>3, <1>4, <2>1, <3>1, SameBoard, SameCall DEF DoneOK
    <2>5. CleanOK'
      <3>1. CASE phase = "before"
        <4>1. Reset' => Reset
          BY <1>1, <1>3, <3>1, SameBoard, SameCall DEF Reset, Nothing
        <4> QED BY <1>1, <2>1, <3>1, <4>1, SameBoard, SameCall DEF CleanOK
      <3>2. CASE phase = "late"
        BY <1>3, <3>2 DEF CleanOK
      <3> QED BY <1>1, <3>1, <3>2
    <2> QED BY <1>4, <1>5, <2>2, <2>3, <2>4, <2>5 DEF Work
  <1> QED BY <1>1, <1>4, <1>5

-----------------------------------------------------------------------------
(* The end of a unit. *)

(* The driver returns an error from it. *)
LEMMA Leaving ==
  ASSUME DriverInv, board' = board, chip' = chip, cell' = cell, locked' = locked,
         call' = call, seen' = seen, src' = src, calls' = calls, faults' = faults,
         before' = before, phase \in {"late", "after"}, NextCmd = Nothing,
         phase' = (IF call.op = "write" /\ D.buff.unlocks THEN "lock" ELSE "idle"),
         irq' = TRUE, rc' \in {"PROG_ERROR", "TIMOUT"},
         Samsung => phase = "after",
         before.readable /\ phase' = "lock" => AllReadable,
         before.readable /\ board # "impa7" => AllReadable \/ (before.fault /\ ~Suspends),
         before.readable => before.fault \/ before.halted \/ Samsung
  PROVE  DriverInv'
  <1> USE DEF DriverInv, Control
  <1>1. call.op # Nothing /\ Resting'
    BY DEF PhaseOK, Resting
  <1>2. call.op \in {"write", "erase"} /\ (Erasing <=> call.op = "erase")
    BY <1>1, CallNumbers DEF Erasing
  <1>3. NextCmd' = Nothing /\ ~InUnit' /\ ~Launched' /\ ~Reset'
    BY <1>1, NoCommandNext
  <1>4. TypeOK'
    <2>1. CallType'
      BY <1>1, SameBoard DEF TypeOK, CallType
    <2> QED BY <2>1, SameBoard DEF TypeOK
  <1>5. TodoOK'
    BY DEF TodoOK
  <1>6. PhaseOK'
    BY <1>1, <1>2, <1>3, SameBoard, SameCall DEF PhaseOK
  <1>7. IrqOK'
    BY <1>2, <1>3, SameBoard, SameCall DEF IrqOK
  <1>8. SamsungOK'
    BY SameBoard DEF SamsungOK, Nothing
  <1>9. LocksOK'
    BY <1>3, SameBoard, SameCall DEF LocksOK
  <1>10. ASSUME before.readable  PROVE Work'
    <2>1. Work /\ (AllReadable => AllReadable')
      BY <1>10, SameBoard DEF AllReadable, Readable
    <2>2. CellsOK'
      <3>1. \A a : Target(a)' = Target(a) /\ UnitOf(a)' = UnitOf(a) /\ InRange(a)' = InRange(a)
        BY SameTargets, SameCall
      <3> QED BY <2>1, <3>1, SameCall DEF CellsOK, Work
    <2>3. CleanOK'
      BY <1>10, SameBoard DEF CleanOK
    <2>4. CASE AllReadable
      BY <1>1, <1>8, <2>1, <2>2, <2>3, <2>4, Rest DEF Work
    <2>5. CASE ~AllReadable
      <3>1. phase' = "idle"
        BY <1>10, <2>5
      <3>2. ModeOK' /\ JobOK' /\ WordOK' /\ DoneOK'
        BY <1>3, <3>1 DEF ModeOK, JobOK, WordOK, DoneOK
      <3>3. AmdOK'
        BY <2>1, <3>1, SameBoard DEF AmdOK, Work
      <3>4. ReadyOK'
        BY <1>10, <2>1, <3>1, SameBoard DEF ReadyOK
      <3> QED BY <2>2, <2>3, <3>2, <3>3, <3>4 DEF Work
    <2> QED BY <2>4, <2>5
  <1> QED BY <1>4, <1>5, <1>6, <1>7, <1>8, <1>9, <1>10

(* A driver that gives up at once, with a part of an erase that leaves. *)
LEMMA PhaseLeavesInv ==
  ASSUME DriverInv, PhaseEnds, phase' \notin {"poll", "after"}
  PROVE  DriverInv'
  <1> USE DEF DriverInv
  <1>1. /\ board' = board /\ chip' = chip /\ cell' = cell /\ locked' = locked /\ irq' = TRUE
        /\ call' = call /\ rc' = "TIMOUT" /\ src' = src /\ calls' = calls /\ faults' = faults
        /\ before' = before /\ seen' = seen /\ phase = "late" /\ Part.leaves /\ todo = <<>>
        /\ phase' = IF call.op = "write" /\ D.buff.unlocks THEN "lock" ELSE "idle"
    BY DEF PhaseEnds, ReturnFrom
  <1>2. Erasing /\ ~Samsung /\ ~Amd
    BY <1>1, PartIs, ErasePrograms, WritePrograms DEF Control, TypeOK
  <1>3. Suspends
    BY <1>2, Families DEF Suspends, Control, TypeOK, Amd, Samsung
  <1>4. NextCmd = Nothing /\ before.fault
    BY <1>1 DEF NextCmd, Control, PhaseOK
  <1>5. before.readable => AllReadable
    BY <1>1, <1>3, <1>4 DEF Work, ReadyOK
  <1>6. phase' # "lock"
    BY <1>1, <1>2 DEF Erasing
  <1> QED BY <1>1, <1>2, <1>4, <1>5, <1>6, Leaving

(* When the verdict is OK the chips can be read and the unit's cells are      *)
(* their targets.  An AMD chip that is still busy, or that failed, shows by   *)
(* DQ7 another byte than the one that was written there.                      *)
LEMMA VerdictOK ==
  ASSUME Control, Work, phase = "after", NextCmd = Nothing, Verdict = "OK"
  PROVE  /\ AllReadable
         /\ Judges => \A a \in Addr : UnitOf(a) = call.at => cell[a] = Target(a)
  <1> USE DEF Control, Work
  <1>1. /\ call.op # Nothing /\ call.at <= call.to /\ InUnit /\ board \in Boards
        /\ Width \in {2, 4}
    BY Families DEF PhaseOK, InUnit, TypeOK
  <1>2. Shown
    BY DEF Shown
  <1>3. CASE Part.judge # "data"
    <2>1. seen = "ok"
      BY <1>3 DEF Verdict
    <2>2. AllReadable
      BY <1>2, <2>1 DEF ReadyOK
    <2>3. ASSUME Judges, NEW a \in Addr, UnitOf(a) = call.at
          PROVE  cell[a] = Target(a)
      <3>1. Lane(a) \in Chips /\ a \in Mine(Lane(a))
        BY <1>1, <2>3, Lanes
      <3> QED BY <2>1, <2>3, <3>1 DEF DoneOK, UnitDone
    <2> QED BY <2>2, <2>3
  <1>4. CASE Part.judge = "data"
    <2>1. ~Erasing /\ Amd
      BY <1>1, <1>4, PartIs, ErasePrograms, WritePrograms
    <2>2. call.word = [j \in 0..(Width - 1) |-> Target(call.at + j)]
      BY <1>1, <2>1 DEF WordOK
    <2>3. \A j \in 0..(Width - 1) : Read(call.at + j) = Target(call.at + j)
      BY <1>4, <2>2 DEF Verdict
    <2>4. \A a \in Addr : UnitOf(a) = call.at => Read(a) = Target(a)
      <3> SUFFICES ASSUME NEW a \in Addr, UnitOf(a) = call.at
                   PROVE  Read(a) = Target(a)
        OBVIOUS
      <3>1. a - call.at \in 0..(Width - 1) /\ call.at + (a - call.at) = a
        BY <1>1, <2>1, WordBytes
      <3> QED BY <2>3, <3>1
    <2>5. ASSUME NEW c \in Chips  PROVE Readable(c)
      <3> DEFINE a == call.at + 2 * (c - 1)
      <3>1. c \in Nat /\ 2 * (c - 1) \in 0..(Width - 1) /\ c <= Width \div 2
        <4>1. CASE Width = 2
          BY <4>1 DEF Chips
        <4>2. CASE Width = 4
          BY <4>2 DEF Chips
        <4> QED BY <1>1, <4>1, <4>2
      <3>2. a \in Addr /\ UnitOf(a) = call.at
        BY <1>1, <2>1, <3>1, WordBytes
      <3>3. a % 2 = 0 /\ Lane(a) = c
        <4>1. call.at \in Nat /\ call.at % Width = 0
          BY <1>1, <2>1, CallNumbers
        <4>2. CASE Width = 2
          BY <3>1, <4>1, <4>2 DEF Lane
        <4>3. CASE Width = 4
          BY <3>1, <4>1, <4>3 DEF Lane
        <4> QED BY <1>1, <4>2, <4>3
      <3> HIDE DEF a
      <3>4. Read(a) = Target(a)
        BY <2>4, <3>2
      <3>5. SUFFICES ASSUME ~Readable(c)  PROVE FALSE
        OBVIOUS
      <3>6. chip[c].mode = "array" /\ (chip[c].busy # Nothing \/ chip[c].error)
        <4>1. chip[c].mode = "array"
          BY <2>1 DEF ModeOK, Nothing
        <4> QED BY <2>1, <3>5, <4>1 DEF Readable, Amd
      <3>7. chip[c].job = [b \in Mine(c) |-> Target(b)]
        BY <2>1, <3>6 DEF JobOK
      <3>8. a \in Mine(c)
        BY <3>2, <3>3 DEF Mine
      <3>9. Read(a) = {ReadyBit} \ Target(a)
        <4>1. a \in DOMAIN chip[c].job /\ chip[c].job[a] = Target(a)
          BY <3>7, <3>8
        <4> QED BY <2>1, <3>3, <3>5, <4>1 DEF Read, Status, Amd
      <3> QED BY <3>4, <3>9
    <2>6. AllReadable
      BY <2>5 DEF AllReadable
    <2>7. \A a \in Addr : Read(a) = cell[a]
      BY <1>1, <2>5, Lanes DEF Read
    <2> QED BY <2>4, <2>6, <2>7
  <1> QED BY <1>3, <1>4

(* To the next unit. *)
LEMMA NextUnitInv ==
  ASSUME DriverInv, UnitEnds, Verdict = "OK"
  PROVE  DriverInv'
  <1> USE DEF DriverInv, Control
  <1>1. /\ board' = board /\ chip' = chip /\ cell' = cell /\ locked' = locked /\ irq' = irq
        /\ seen' = seen /\ src' = src /\ calls' = calls /\ faults' = faults /\ rc' = rc
        /\ before' = before /\ todo' = todo /\ phase = "after" /\ todo = <<>>
        /\ phase' = "unit"
        /\ call' = [call EXCEPT !.at = @ + (IF call.op = "erase" THEN 1 ELSE Width)]
    BY DEF UnitEnds
  <1>2. /\ call.op # Nothing /\ Resting' /\ NextCmd = Nothing /\ InUnit /\ call.at <= call.to
    BY <1>1 DEF PhaseOK, Resting, NextCmd, InUnit
  <1>3. NextCmd' = Nothing /\ ~InUnit' /\ ~Reset'
    BY <1>2, NoCommandNext
  <1>4. call.op \in {"write", "erase"} /\ (Erasing <=> call.op = "erase") /\ Width \in {2, 4}
    BY <1>2, CallNumbers, Families DEF Erasing, TypeOK
  <1>5. /\ call'.op = call.op /\ call'.from = call.from /\ call'.to = call.to
        /\ call'.at = call.at + (IF Erasing THEN 1 ELSE Width)
    BY <1>1, <1>2, <1>4, CallNumbers
  <1>6. /\ Erasing' = Erasing /\ Judges' = Judges /\ SectorsUnlocked' = SectorsUnlocked
        /\ \A a : UnitOf(a)' = UnitOf(a) /\ InRange(a)' = InRange(a) /\ Target(a)' = Target(a)
    <2>1. Erasing' = Erasing /\ Judges' = Judges
      BY <1>1, <1>5 DEF Erasing, Judges, Part, D
    <2>2. \A a : UnitOf(a)' = UnitOf(a)
      BY <1>1, <2>1, SameBoard DEF UnitOf, SectorOf
    <2>3. \A a : InRange(a)' = InRange(a)
      BY <1>5, <2>1 DEF InRange, SectorOf
    <2>4. \A a : Target(a)' = Target(a)
      BY <1>1, <2>1, <2>3 DEF Target
    <2>5. SectorsUnlocked' = SectorsUnlocked
      BY <1>5 DEF SectorsUnlocked
    <2> QED BY <2>1, <2>2, <2>3, <2>4, <2>5
  <1>7. TypeOK'
    <2>1. CallType'
      <3>1. CASE Erasing
        <4>1. /\ call.at \in Nat /\ call.from \in Nat /\ call.to \in Int /\ call.from <= call.at
              /\ call.to <= Sectors - 1 /\ Sectors \in Nat
              /\ call = [op |-> "erase", at |-> call.at, from |-> call.from, to |-> call.to]
          BY <1>2, <3>1, CallNumbers, DriversAssumption
        <4>2. call' = [op |-> "erase", at |-> call'.at, from |-> call'.from, to |-> call'.to]
              /\ call'.at \in call'.from..Sectors
          BY <1>1, <1>2, <1>4, <1>5, <3>1, <4>1
        <4>3. call'.from \in 0..(Sectors - 1) /\ call'.to \in -1..(Sectors - 1)
          BY <1>2, <1>4, <1>5, <3>1, <4>1 DEF TypeOK, CallType
        <4> QED BY <4>2, <4>3 DEF CallType
      <3>2. CASE ~Erasing
        <4>1. call' = [op |-> "write", at |-> call'.at, from |-> call'.from, to |-> call'.to,
                       word |-> call'.word]
          BY <1>1, <1>2, <1>4, <3>2, CallNumbers
        <4>2. /\ call'.at \in Nat /\ call'.at % Width = 0 /\ call'.from < call'.at + Width
              /\ call'.from \in Addr /\ call'.to \in Addr
          <5>1. /\ call.at \in Nat /\ call.at % Width = 0 /\ call.from < call.at + Width
                /\ call.from \in Addr /\ call.to \in Addr /\ call.from \in Nat
            BY <1>2, <3>2, CallNumbers
          <5>2. CASE Width = 2
            BY <1>5, <3>2, <5>1, <5>2
          <5>3. CASE Width = 4
            BY <1>5, <3>2, <5>1, <5>3
          <5> QED BY <1>4, <5>2, <5>3
        <4> QED BY <1>1, <4>1, <4>2, SameBoard DEF CallType
      <3> QED BY <3>1, <3>2
    <2> QED BY <1>1, <2>1, SameBoard DEF TypeOK
  <1>8. TodoOK'
    BY <1>1 DEF TodoOK
  <1>9. PhaseOK'
    BY <1>1, <1>2, <1>3, <1>5, SameBoard DEF PhaseOK
  <1>10. IrqOK'
    <2>1. ~Erasing => irq
      BY <1>1, <1>2 DEF IrqOK
    <2>2. irq /\ ~Samsung => ~Erasing
      BY <1>1 DEF IrqOK
    <2> QED BY <1>1, <1>3, <1>6, <2>1, <2>2, SameBoard DEF IrqOK
  <1>11. SamsungOK'
    BY <1>1, <1>2, SameBoard DEF SamsungOK, Nothing
  <1>12. LocksOK'
    BY <1>1, <1>2, <1>6, SameBoard DEF LocksOK
  <1>13. ASSUME before.readable  PROVE Work'
    <2>1. Work
      BY <1>13
    <2>2. /\ AllReadable
          /\ Judges => \A a \in Addr : UnitOf(a) = call.at => cell[a] = Target(a)
      BY <1>1, <1>2, <2>1, VerdictOK
    <2>3. AllReadable'
      BY <1>1, <2>2, SameBoard DEF AllReadable, Readable
    <2>4. CellsOK'
      <3> SUFFICES ASSUME NEW a \in Addr
                   PROVE  /\ ~InRange(a) \/ UnitOf(a) >= call'.at => cell[a] = before.cell[a]
                          /\ UnitOf(a) < call'.at /\ InRange(a) /\ Judges => cell[a] = Target(a)
        <4>1. \A a \in Addr : UnitOf(a) \in Int
          <5>1. \A a \in Addr : a \in Nat /\ SectorOf(a) \in Int
            BY SectorNumber
          <5>2. \A a \in Addr : WordOf(a) \in Int
            <6>1. CASE Width = 2
              BY <5>1, <6>1 DEF WordOf
            <6>2. CASE Width = 4
              BY <5>1, <6>2 DEF WordOf
            <6> QED BY <1>4, <6>1, <6>2
          <5> QED BY <5>1, <5>2 DEF UnitOf
        <4>2. call'.at \in Int
          BY <1>2, <1>4, <1>5, CallNumbers
        <4>3. \A a \in Addr : /\ UnitOf(a) > call'.at => UnitOf(a) >= call'.at
                              /\ UnitOf(a) = call'.at => UnitOf(a) >= call'.at
          BY <4>1, <4>2
        <4> QED BY <1>1, <1>5, <1>6, <4>3 DEF CellsOK
      <3>1. /\ ~InRange(a) \/ UnitOf(a) > call.at => cell[a] = before.cell[a]
            /\ UnitOf(a) < call.at /\ InRange(a) /\ Judges => cell[a] = Target(a)
        BY <1>2, <2>1 DEF Work, CellsOK
      <3>2. /\ UnitOf(a) >= call'.at => UnitOf(a) > call.at
            /\ UnitOf(a) < call'.at => UnitOf(a) < call.at \/ UnitOf(a) = call.at
        <4>1. a \in Nat /\ SectorOf(a) \in Nat /\ call.at \in Nat
          BY <1>2, SectorNumber, CallNumbers
        <4>2. CASE Erasing
          BY <1>5, <4>1, <4>2 DEF UnitOf
        <4>3. CASE ~Erasing /\ Width = 2
          <5>1. call.at % 2 = 0
            BY <1>2, <4>3, CallNumbers
          <5> QED BY <1>5, <4>1, <4>3, <5>1 DEF UnitOf, WordOf
        <4>4. CASE ~Erasing /\ Width = 4
          <5>1. call.at % 4 = 0
            BY <1>2, <4>4, CallNumbers
          <5> QED BY <1>5, <4>1, <4>4, <5>1 DEF UnitOf, WordOf
        <4> QED BY <1>4, <4>2, <4>3, <4>4
      <3> QED BY <2>2, <3>1, <3>2
    <2>5. CleanOK'
      <3>1. call'.op # Nothing
        BY <1>2, <1>5
      <3> QED BY <1>1, <1>3, <2>1, <3>1, SameBoard DEF CleanOK, Work
    <2> QED BY <1>2, <1>11, <2>3, <2>4, <2>5, Rest DEF Work
  <1> QED BY <1>1, <1>7, <1>8, <1>9, <1>10, <1>11, <1>12, <1>13

(* To a return with an error. *)
LEMMA UnitFailsInv ==
  ASSUME DriverInv, UnitEnds, Verdict # "OK"
  PROVE  DriverInv'
  <1> USE DEF DriverInv, Control
  <1>1. /\ board' = board /\ chip' = chip /\ cell' = cell /\ locked' = locked /\ irq' = TRUE
        /\ seen' = seen /\ src' = src /\ calls' = calls /\ faults' = faults
        /\ rc' = Verdict /\ call' = call
        /\ before' = before /\ phase = "after" /\ todo = <<>>
        /\ phase' = IF call.op = "write" /\ D.buff.unlocks THEN "lock" ELSE "idle"
    BY DEF UnitEnds, ReturnFrom
  <1>2. /\ call.op # Nothing /\ call.at <= call.to /\ NextCmd = Nothing /\ Shown /\ InUnit
        /\ board \in Boards
    BY <1>1 DEF PhaseOK, NextCmd, Shown, InUnit, TypeOK
  <1>3. rc' \in {"PROG_ERROR", "TIMOUT"}
    BY <1>1 DEF Verdict
  <1>4. ASSUME before.readable
        PROVE  /\ AllReadable \/ Escape
               /\ before.fault \/ before.halted \/ Samsung
    <2>1. Work
      BY <1>4
    <2>2. seen = "ok" \/ ~Escape => AllReadable
      BY <1>1, <1>2, <2>1 DEF Work, ReadyOK
    <2>3. ASSUME ~before.fault, ~before.halted, ~Samsung
          PROVE  FALSE
      <3>1. seen = "ok" /\ AllReadable
        BY <1>1, <2>1, <2>2, <2>3 DEF Work, CleanOK
      <3>2. Part.judge = "data"
        BY <1>1, <1>3, <3>1 DEF Verdict
      <3>3. ~Erasing /\ Amd
        BY <1>2, <3>2, PartIs, ErasePrograms, WritePrograms
      <3>4. Judges
        BY <1>2, <3>3, Families DEF Judges, Erasing
      <3>5. call.word = [j \in 0..(Width - 1) |-> Target(call.at + j)]
        BY <1>2, <2>1, <3>3 DEF Work, WordOK
      <3>6. ASSUME NEW j \in 0..(Width - 1)
            PROVE  Read(call.at + j) = Target(call.at + j)
        <4> DEFINE a == call.at + j
        <4>1. a \in Addr /\ UnitOf(a) = call.at
          BY <1>2, <3>3, WordBytes
        <4> HIDE DEF a
        <4>2. Lane(a) \in Chips /\ a \in Mine(Lane(a))
          BY <1>2, <4>1, Lanes
        <4>3. Read(a) = cell[a]
          BY <3>1, <4>2 DEF Read, AllReadable
        <4>4. cell[a] = Target(a)
          BY <1>1, <2>1, <3>1, <3>4, <4>2 DEF Work, DoneOK, UnitDone
        <4> QED BY <4>3, <4>4 DEF a
      <3>7. Verdict = "OK"
        BY <3>1, <3>2, <3>5, <3>6 DEF Verdict
      <3> QED BY <1>1, <1>3, <3>7
    <2> QED BY <2>2, <2>3
  <1>5. ASSUME before.readable, phase' = "lock"
        PROVE  AllReadable
    <2>1. ~Erasing /\ D.buff.unlocks
      BY <1>1, <1>5 DEF Erasing
    <2>2. ~Amd /\ board \notin {"samsung", "impa7"}
      BY <1>2, <2>1, Families
    <2>3. Suspends
      BY <1>2, <2>2, Families DEF Suspends, Amd
    <2>4. ~Escape
      BY <2>2, <2>3 DEF Escape
    <2> QED BY <1>4, <1>5, <2>4
  <1>6. before.readable /\ board # "impa7" => AllReadable \/ (before.fault /\ ~Suspends)
    BY <1>4 DEF Escape
  <1>7. before.readable => before.fault \/ before.halted \/ Samsung
    BY <1>4
  <1> QED BY <1>1, <1>2, <1>3, <1>5, <1>6, <1>7, Leaving

-----------------------------------------------------------------------------
(* All together. *)

(* The invariant holds at the start. *)
LEMMA InitInv == Init => DriverInv
  <1> SUFFICES ASSUME Init  PROVE DriverInv
    OBVIOUS
  <1>1. /\ board \in Boards /\ chip = [c \in Chips |-> Idle] /\ cell \in [Addr -> SUBSET Bits]
        /\ locked = (IF D.buff.unlocks THEN 0..(Sectors - 1) ELSE {})
        /\ irq = TRUE /\ phase = "idle" /\ todo = <<>> /\ seen = "ok" /\ rc = "OK"
        /\ call = [op |-> Nothing] /\ src \in [Addr -> SUBSET Bits]
        /\ calls = 0 /\ faults = 0
        /\ before = [cell |-> cell, readable |-> TRUE, fault |-> FALSE, halted |-> FALSE]
    BY DriversAssumption DEF Init
  <1>2. Resting /\ NextCmd = Nothing /\ ~InUnit /\ ~Launched /\ ~Reset
    BY <1>1, NoCommand DEF Resting
  <1>3. \A c \in Chips : /\ ChipType(chip[c]) /\ chip[c].mode = "array"
                         /\ chip[c].busy = Nothing /\ chip[c].halted = Nothing
                         /\ ~chip[c].error
    BY <1>1 DEF Idle, ChipType
  <1>4. TypeOK
    <2>1. CallType
      BY <1>1 DEF CallType
    <2>2. chip = [c \in Chips |-> chip[c]]
      BY <1>1
    <2> QED BY <1>1, <1>3, <2>1, <2>2 DEF TypeOK
  <1>5. TodoOK /\ PhaseOK /\ IrqOK
    <2>1. TodoOK
      BY <1>1 DEF TodoOK
    <2>2. PhaseOK
      BY <1>1, <1>2 DEF PhaseOK
    <2>3. IrqOK
      BY <1>1 DEF IrqOK
    <2> QED BY <2>1, <2>2, <2>3
  <1>6. SamsungOK /\ LocksOK
    BY <1>1, <1>2, <1>3 DEF SamsungOK, LocksOK, Nothing
  <1>7. AllReadable
    BY <1>3 DEF AllReadable, Readable
  <1>8. ModeOK /\ JobOK /\ AmdOK
    BY <1>1, <1>3 DEF ModeOK, JobOK, AmdOK
  <1>9. ReadyOK /\ WordOK /\ CellsOK /\ DoneOK
    BY <1>1, <1>2, <1>7 DEF ReadyOK, WordOK, CellsOK, DoneOK
  <1>10. CleanOK
    BY <1>1, <1>2, <1>3 DEF CleanOK
  <1> QED BY <1>4, <1>5, <1>6, <1>8, <1>9, <1>10 DEF DriverInv, Control, Work

(* Each action keeps it. *)
LEMMA NextInv ==
  ASSUME DriverInv, Next
  PROVE  DriverInv'
  <1>1. CASE \E k \in Calls : Start(k)
    BY <1>1, StartInv
  <1>2. CASE Unlock
    BY <1>2, UnlockInv
  <1>3. CASE UnlockEnds
    BY <1>3, UnlockEndsInv
  <1>4. CASE Unit
    BY <1>4, UnitReturns, UnitProgram
  <1>5. CASE Command
    BY <1>5, CommandInv
  <1>6. CASE Poll
    BY <1>6, PollInv
  <1>7. CASE TooLate
    BY <1>7, TooLateInv
  <1>8. CASE PhaseEnds
    BY <1>8, PhaseEndsInv, PhaseLeavesInv
  <1>9. CASE UnitEnds
    BY <1>9, NextUnitInv, UnitFailsInv
  <1>10. CASE \E c \in Chips : Finish(c)
    BY <1>10, FinishInv
  <1> QED BY <1>1, <1>2, <1>3, <1>4, <1>5, <1>6, <1>7, <1>8, <1>9, <1>10 DEF Next, DriverStep

(* So does a step that changes nothing. *)
LEMMA StutterInv ==
  ASSUME DriverInv, UNCHANGED vars
  PROVE  DriverInv'
  <1> USE DEF DriverInv, Control, Work
  <1>1. /\ board' = board /\ chip' = chip /\ cell' = cell /\ locked' = locked /\ irq' = irq
        /\ seen' = seen /\ src' = src /\ calls' = calls /\ faults' = faults /\ rc' = rc
        /\ before' = before /\ todo' = todo /\ phase' = phase /\ call' = call
    BY DEF vars
  <1>2. /\ NextCmd' = NextCmd /\ InUnit' = InUnit /\ Launched' = Launched /\ Shown' = Shown
        /\ Ready' = Ready /\ AllReadable' = AllReadable /\ Escape' = Escape /\ Reset' = Reset
    BY <1>1, SameBoard, SameCall
    DEF NextCmd, InUnit, Launched, Shown, Ready, AllReadable, Readable, Escape, Reset
  <1>3. /\ \A a : Target(a)' = Target(a) /\ UnitOf(a)' = UnitOf(a) /\ InRange(a)' = InRange(a)
        /\ \A c \in Chips : UnitDone(c)' = UnitDone(c)
    BY <1>1, SameTargets, SameCall, SameUnit
  <1>4. Control'
    <2>1. TypeOK'
      BY <1>1, SameBoard DEF TypeOK, CallType
    <2>2. TodoOK'
      BY <1>1, SameBoard, SameCall DEF TodoOK
    <2>3. PhaseOK'
      BY <1>1, <1>2, SameBoard, SameCall DEF PhaseOK
    <2>4. IrqOK'
      BY <1>1, <1>2, SameBoard, SameCall DEF IrqOK
    <2>5. SamsungOK'
      BY <1>1, <1>2, SameBoard, SameCall DEF SamsungOK
    <2>6. LocksOK'
      BY <1>1, <1>2, SameBoard, SameCall DEF LocksOK
    <2> QED BY <2>1, <2>2, <2>3, <2>4, <2>5, <2>6
  <1>5. ASSUME before.readable  PROVE Work'
    <2>1. ModeOK'
      BY <1>1, <1>2, <1>5, SameBoard DEF ModeOK, Readable
    <2>2. JobOK'
      <3>1. \A c \in Chips : [a \in Mine(c) |-> Target(a)]' = [a \in Mine(c) |-> Target(a)]
        <4>1. \A c \in Chips : Mine(c)' = Mine(c)
          BY <1>1, SameCall
        <4> QED BY <1>3, <4>1
      <3> QED BY <1>1, <1>2, <1>5, <3>1, SameBoard, SameCall DEF JobOK
    <2>3. AmdOK' /\ ReadyOK'
      BY <1>1, <1>2, <1>5, SameBoard, SameCall DEF AmdOK, ReadyOK
    <2>4. WordOK'
      <3>1. [j \in 0..(Width - 1) |-> Target(call.at + j)]'
              = [j \in 0..(Width - 1) |-> Target(call.at + j)]
        BY <1>1, <1>3, SameBoard
      <3> QED BY <1>1, <1>2, <1>3, <1>5, <3>1, SameBoard, SameCall DEF WordOK
    <2>5. CellsOK'
      BY <1>1, <1>3, <1>5, SameCall DEF CellsOK
    <2>6. DoneOK'
      BY <1>1, <1>2, <1>3, <1>5, SameBoard, SameCall DEF DoneOK
    <2>7. CleanOK'
      BY <1>1, <1>2, <1>5, SameBoard, SameCall DEF CleanOK
    <2> QED BY <2>1, <2>2, <2>3, <2>4, <2>5, <2>6, <2>7
  <1> QED BY <1>1, <1>4, <1>5

(* The invariant, on every board, with any number of calls and faults.       *)
THEOREM InvHolds == Spec => []DriverInv
  <1>1. DriverInv /\ [Next]_vars => DriverInv'
    BY NextInv, StutterInv
  <1> QED BY <1>1, InitInv, PTL DEF Spec

(* When a driver returns, or lets interrupts come, the flash with the vectors *)
(* and the environment in it shows its contents (the comments above           *)
(* disable_interrupts() in the boards' flash.c).                             *)
THEOREM ReadableHolds == Spec => []FlashReadable
  <1>1. DriverInv => FlashReadable
    <2> SUFFICES ASSUME DriverInv  PROVE FlashReadable
      OBVIOUS
    <2> USE DEF DriverInv, Control
    <2>1. ArrayAfterCall
      BY DEF ArrayAfterCall, Work, ReadyOK
    <2>2. ASSUME board \notin {"samsung", "impa7"}, ~D.buff.unlocks,
                 irq, before.readable, phase # "idle"
          PROVE  AllReadable \/ (before.fault /\ ~Suspends)
      <3>1. ~Samsung /\ Work
        BY <2>2 DEF Samsung
      <3>2. \/ ~InUnit
            \/ phase = "before" /\ NextCmd = "off"
            \/ phase = "after" /\ NextCmd = Nothing
        BY <2>2, <3>1 DEF IrqOK
      <3>3. CASE ~InUnit
        <4>1. phase = "unit"
          BY <2>2, <3>3 DEF InUnit, PhaseOK, TypeOK
        <4> QED BY <3>1, <4>1, UnitReadable
      <3>4. CASE phase = "before" /\ NextCmd = "off"
        BY <3>1, <3>4 DEF Work, ModeOK, AllReadable
      <3>5. CASE phase = "after" /\ NextCmd = Nothing
        <4>1. Shown
          BY <3>5 DEF Shown
        <4>2. AllReadable \/ Escape
          BY <3>1, <3>5, <4>1 DEF Work, ReadyOK
        <4> QED BY <2>2, <4>2 DEF Escape
      <3> QED BY <3>2, <3>3, <3>4, <3>5
    <2> QED BY <2>1, <2>2 DEF FlashReadable, VectorsReadable
  <1> QED BY <1>1, InvHolds, PTL

(* ERR_OK of flash_erase and write_buff: the bytes are written, the sectors   *)
(* erased, and no other byte has changed, with an error neither.             *)
THEOREM DoneHolds == Spec => []DoneMeansDone
  <1>1. DriverInv => DoneMeansDone
    <2> SUFFICES ASSUME DriverInv, phase = "idle", call.op # Nothing, before.readable,
                        NEW a \in Addr
                 PROVE  IF (IF call.op = "write" THEN a ELSE SectorOf(a)) \in call.from..call.to
                        THEN rc = "OK" /\ Judges
                               => cell[a] = (IF call.op = "write" THEN src[a] ELSE Bits)
                        ELSE cell[a] = before.cell[a]
      BY DEF DoneMeansDone
    <2> USE DEF DriverInv, Control
    <2>1. (Erasing <=> call.op = "erase") /\ (~Erasing <=> call.op = "write")
      BY CallNumbers DEF Erasing
    <2>2. InRange(a) <=> (IF call.op = "write" THEN a ELSE SectorOf(a)) \in call.from..call.to
      BY <2>1 DEF InRange
    <2>3. ~InRange(a) => cell[a] = before.cell[a]
      BY DEF Work, CellsOK
    <2>4. ASSUME InRange(a), rc = "OK", Judges
          PROVE  cell[a] = Target(a)
      <3>1. call.at > call.to
        BY <2>4 DEF PhaseOK
      <3>2. UnitOf(a) < call.at
        <4>1. a \in Nat /\ SectorOf(a) \in Nat /\ call.at \in Nat /\ call.from \in Nat
              /\ call.to \in Int
          BY SectorNumber, CallNumbers
        <4>2. CASE Erasing
          BY <2>4, <3>1, <4>1, <4>2 DEF UnitOf, InRange
        <4>3. CASE ~Erasing
          <5>1. a <= call.to
            BY <2>4, <4>1, <4>3 DEF InRange
          <5>2. CASE Width = 2
            BY <3>1, <4>1, <4>3, <5>1, <5>2 DEF UnitOf, WordOf
          <5>3. CASE Width = 4
            BY <3>1, <4>1, <4>3, <5>1, <5>3 DEF UnitOf, WordOf
          <5> QED BY <5>2, <5>3, Families DEF TypeOK
        <4> QED BY <4>2, <4>3
      <3> QED BY <2>4, <3>2 DEF Work, CellsOK
    <2>5. InRange(a) => Target(a) = IF call.op = "write" THEN src[a] ELSE Bits
      BY <2>1 DEF Target
    <2> QED BY <2>2, <2>3, <2>4, <2>5
  <1> QED BY <1>1, InvHolds, PTL

(* A driver reports no error of an earlier call: the status is reset before   *)
(* an erase and before each word, and AMD chips with the array command.      *)
THEOREM OwnHolds == Spec => []ErrorIsOwn
  <1>1. DriverInv => ErrorIsOwn
    BY DEF DriverInv, Work, CleanOK, ErrorIsOwn, Samsung
  <1> QED BY <1>1, InvHolds, PTL

(* The types, and with them the bounds of the call in progress.              *)
THEOREM DriverTypes == Spec => []TypeOK
  <1>1. DriverInv => TypeOK
    BY DEF DriverInv, Control
  <1> QED BY <1>1, InvHolds, PTL
===============================================================================

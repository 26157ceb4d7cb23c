----------------------------- MODULE FlashProofs -----------------------------
(***************************************************************************)
(* Proofs about FlashCmd, for every flash geometry, every bound on what    *)
(* the user types and every behaviour of the chip.                         *)
(*                                                                         *)
(* Type correctness is not inductive alone, nor is the safety of           *)
(* protected sectors: the first needs that an erase stays inside its bank, *)
(* the second that the sectors ahead of a running driver call were found   *)
(* unprotected and that no command changes the protection meanwhile.       *)
(* That a command stays in its range, that cp copies everything and that   *)
(* erase erases everything need invariants of their own, on the driver     *)
(* call in progress: CallInTarget, CopySoFar and EraseSoFar.               *)
(***************************************************************************)
EXTENDS FlashCmd, TLAPS

(* Between two commands the driver is idle. *)
DriverBusyOnlyInCommand == drv # Idle => status = "running"

IInv == TypeOK /\ DriverSafe /\ DriverBusyOnlyInCommand

USE DEF ERR_OK, ERR_TIMOUT, ERR_NOT_ERASED, ERR_PROTECTED, ERR_INVAL, ERR_ALIGN,
        ERR_PROG_ERROR, DriverErrors

-----------------------------------------------------------------------------
(* The geometry of sectors and banks. *)

(* A pair is a sector when its bank has that many sectors. *)
LEMMA SectorMember ==
    /\ \A b \in Bank, i \in Nat : i < NSect[b] => <<b, i>> \in Sector
    /\ \A x \in Sector : /\ x[1] \in Bank /\ x[2] \in Nat /\ x[2] < NSect[x[1]]
                         /\ x = <<x[1], x[2]>>
  BY GeometryAssumption, SMT DEF Sector, Bank

(* The first and the last sector of a bank. *)
LEMMA EndSectors ==
    ASSUME NEW b \in Bank
    PROVE  <<b, 0>> \in Sector /\ <<b, NSect[b] - 1>> \in Sector
  <1>1. NSect[b] \in Nat \ {0}
    BY GeometryAssumption
  <1>2. NSect[b] - 1 \in Nat /\ 0 < NSect[b] /\ NSect[b] - 1 < NSect[b]
    BY <1>1
  <1> QED BY <1>2, SectorMember

(* Distinct sectors have no cell in common. *)
LEMMA SectorsDisjoint ==
    ASSUME NEW x \in Sector, NEW y \in Sector, NEW a \in CellsOf(x), a \in CellsOf(y)
    PROVE  x = y
  <1>1. x[1] \in Nat /\ y[1] \in Nat /\ x[2] \in Nat /\ y[2] \in Nat
    BY SectorMember, GeometryAssumption DEF Bank
  <1>2. /\ Start[x] \in Nat /\ End[x] \in Nat /\ Start[y] \in Nat /\ End[y] \in Nat
        /\ a \in Int /\ Start[x] <= a /\ a <= End[x] /\ Start[y] <= a /\ a <= End[y]
    BY GeometryAssumption DEF CellsOf
  <1>3. ~(x[1] < y[1] \/ (x[1] = y[1] /\ x[2] < y[2]))
    BY <1>1, <1>2, OrderAssumption, SMT
  <1>4. ~(y[1] < x[1] \/ (y[1] = x[1] /\ y[2] < x[2]))
    BY <1>1, <1>2, OrderAssumption, SMT
  <1>5. x[1] = y[1] /\ x[2] = y[2]
    BY <1>1, <1>3, <1>4, SMT
  <1> QED BY <1>5, SectorMember

(* The cells of a sector are addresses of the flash. *)
LEMMA CellsAreAddresses ==
    ASSUME NEW x \in Sector PROVE CellsOf(x) \subseteq Addr
  BY DEF Addr

(* Banks do not overlap, so an address is in one bank at most.              *)
LEMMA BankUnique ==
    ASSUME NEW a \in Nat, NEW b \in BanksAt(a)
    PROVE  b \in Bank /\ InBank(b, a) /\ Addr2Info(a) = b
  <1>1. b \in Bank /\ InBank(b, a)
    BY DEF BanksAt
  <1>2. ASSUME NEW c \in BanksAt(a), NEW d \in BanksAt(a) PROVE ~(c < d)
    <2>1. c \in Bank /\ d \in Bank /\ InBank(c, a) /\ InBank(d, a)
      BY DEF BanksAt
    <2>2. <<c, NSect[c] - 1>> \in Sector /\ <<d, 0>> \in Sector
      BY <2>1, EndSectors
    <2>3. c < d => End[<<c, NSect[c] - 1>>] < Start[<<d, 0>>]
      BY <2>2, OrderAssumption
    <2>4. End[<<c, NSect[c] - 1>>] \in Nat /\ Start[<<d, 0>>] \in Nat
      BY <2>2, GeometryAssumption
    <2> QED BY <2>1, <2>3, <2>4 DEF InBank
  <1>3. \A c \in BanksAt(a) : c = b
    BY <1>1, <1>2 DEF BanksAt, Bank
  <1>4. \E c \in BanksAt(a) : \A d \in BanksAt(a) : c <= d
    BY <1>1, <1>3 DEF Bank
  <1>5. Addr2Info(a) \in BanksAt(a)
    BY <1>4 DEF Addr2Info
  <1> QED BY <1>1, <1>3, <1>5

(* The loop of flash_write over the banks meets every sector of the range.  *)
LEMMA BanksBetween ==
    ASSUME NEW from \in Nat, NEW to \in Nat,
           BanksAt(from) # {}, BanksAt(to) # {},
           NEW x \in Sector, Overlaps(x, from, to)
    PROVE  x[1] \in Addr2Info(from)..Addr2Info(to)
  <1>1. PICK bf \in BanksAt(from) : TRUE
    OBVIOUS
  <1>2. PICK bt \in BanksAt(to) : TRUE
    OBVIOUS
  <1>3. /\ bf \in Bank /\ InBank(bf, from) /\ Addr2Info(from) = bf
        /\ bt \in Bank /\ InBank(bt, to) /\ Addr2Info(to) = bt
    <2>1. bf \in Bank /\ InBank(bf, from) /\ Addr2Info(from) = bf
      BY <1>1, BankUnique
    <2>2. bt \in Bank /\ InBank(bt, to) /\ Addr2Info(to) = bt
      BY <1>2, BankUnique
    <2> QED BY <2>1, <2>2
  <1>4. <<bf, 0>> \in Sector /\ <<bt, NSect[bt] - 1>> \in Sector
    <2>1. NSect[bf] \in Nat \ {0} /\ NSect[bt] \in Nat \ {0}
      BY <1>3, GeometryAssumption
    <2>2. NSect[bt] - 1 \in Nat /\ NSect[bt] - 1 < NSect[bt] /\ 0 < NSect[bf]
      BY <2>1
    <2> QED BY <1>3, <2>2, SectorMember
  <1>5. /\ Start[<<bf, 0>>] \in Nat /\ End[<<bt, NSect[bt] - 1>>] \in Nat
        /\ Start[x] \in Nat /\ End[x] \in Nat
    BY <1>4, GeometryAssumption
  <1>6. x[1] \in Bank
    BY SectorMember
  <1>7. ~(x[1] < bf)
    <2>1. x[1] < bf => End[x] < Start[<<bf, 0>>]
      BY <1>4, OrderAssumption
    <2> QED BY <2>1, <1>3, <1>5 DEF InBank, Overlaps
  <1>8. ~(bt < x[1])
    <2>1. bt < x[1] => End[<<bt, NSect[bt] - 1>>] < Start[x]
      BY <1>4, OrderAssumption
    <2> QED BY <2>1, <1>3, <1>5 DEF InBank, Overlaps
  <1> QED BY <1>3, <1>6, <1>7, <1>8 DEF Bank

(* The sectors from the one that starts at from to the one that ends at to  *)
(* have no cell outside from..to.                                           *)
LEMMA CellsInRange ==
    ASSUME NEW b \in Bank, NEW f \in 0..NSect[b] - 1, NEW l \in 0..NSect[b] - 1,
           NEW x \in SectorsOf(b), x[2] \in f..l
    PROVE  CellsOf(x) \subseteq Start[<<b, f>>]..End[<<b, l>>]
  <1>0. b \in Nat /\ NSect[b] \in Nat \ {0}
    BY GeometryAssumption DEF Bank
  <1>1. <<b, f>> \in Sector /\ <<b, l>> \in Sector
    BY <1>0, SectorMember
  <1>2. x \in Sector /\ x[1] = b /\ x[2] \in Nat /\ x = <<b, x[2]>>
    BY SectorMember DEF SectorsOf
  <1>3. /\ Start[<<b, f>>] \in Nat /\ End[<<b, f>>] \in Nat /\ Start[<<b, f>>] <= End[<<b, f>>]
        /\ Start[<<b, l>>] \in Nat /\ End[<<b, l>>] \in Nat /\ Start[<<b, l>>] <= End[<<b, l>>]
        /\ Start[x] \in Nat /\ End[x] \in Nat
    BY <1>1, <1>2, GeometryAssumption
  <1>4. Start[<<b, f>>] <= Start[x]
    <2>1. CASE x[2] = f
      BY <2>1, <1>2, <1>3
    <2>2. CASE f < x[2]
      <3>1. End[<<b, f>>] < Start[x]
        BY <2>2, <1>1, <1>2, OrderAssumption
      <3> QED BY <3>1, <1>3
    <2> QED BY <2>1, <2>2, <1>0, <1>2
  <1>5. End[x] <= End[<<b, l>>]
    <2>1. CASE x[2] = l
      BY <2>1, <1>2, <1>3
    <2>2. CASE x[2] < l
      <3>1. End[x] < Start[<<b, l>>]
        BY <2>2, <1>1, <1>2, OrderAssumption
      <3> QED BY <3>1, <1>3
    <2> QED BY <2>1, <2>2, <1>0, <1>2
  <1> QED BY <1>3, <1>4, <1>5 DEF CellsOf

-----------------------------------------------------------------------------
(* Steps of the driver. *)

(* An operation cut short leaves noise, and touches exposed cells only. *)
LEMMA DisturbEffect ==
    ASSUME cell \in [Addr -> Value], Disturb
    PROVE  /\ cell' \in [Addr -> Value]
           /\ \A a \in Addr : cell'[a] # cell[a] => a \in Exposed /\ cell'[a] \in Noise
  <1>1. PICK hit \in SUBSET Exposed : \E left \in [hit -> Noise] :
            cell' = [a \in Addr |-> IF a \in hit THEN left[a] ELSE cell[a]]
    BY DEF Disturb
  <1>2. PICK left \in [hit -> Noise] :
            cell' = [a \in Addr |-> IF a \in hit THEN left[a] ELSE cell[a]]
    BY <1>1
  <1>3. \A a \in hit : left[a] \in Value
    BY <1>2, ValueAssumption
  <1>4. cell' \in [Addr -> Value]
    BY <1>2, <1>3
  <1>5. \A a \in Addr : cell'[a] # cell[a] => a \in hit /\ cell'[a] \in Noise
    BY <1>2
  <1> QED BY <1>4, <1>5

(* The type of drv, case by case. *)
LEMMA EraseCallType ==
    ASSUME FlashTypeOK, drv.op = "erase"
    PROVE  /\ drv \in EraseCall
           /\ drv.bank \in Bank /\ drv.at \in Nat /\ drv.last \in Nat /\ drv.reported \in Nat
  BY DEF FlashTypeOK, Idle, EraseCall, WriteCall

(* The driver call in progress has the type of its operation. *)
LEMMA WriteCallType ==
    ASSUME FlashTypeOK, drv.op = "write"
    PROVE  /\ drv \in WriteCall
           /\ drv.at \in Nat /\ drv.last \in Nat /\ drv.data \in [Addr -> Value]
  BY DEF FlashTypeOK, Idle, EraseCall, WriteCall

-----------------------------------------------------------------------------
(* The return of a driver call keeps the driver's part of the invariant.    *)
LEMMA ReturnSafe ==
    ASSUME NEW code \in Int, NEW reported \in Int, Return(code, reported)
    PROVE  /\ drv' = Idle /\ rc' \in Int
           /\ DriverSafe' /\ DriverBusyOnlyInCommand'
  BY DEF Return, DriverSafe, DriverBusyOnlyInCommand, Idle

(* The power-on state: the driver idle, the boot sectors protected. *)
LEMMA InitInv == Init => IInv
  <1> SUFFICES ASSUME Init PROVE IInv
    OBVIOUS
  <1>1. protect \in [Sector -> BOOLEAN]
    BY DEF Init, FlashInit
  <1>2. TypeOK
    <2>1. FlashTypeOK
      <3>1. cell \in [Addr -> Value] /\ drv = Idle /\ rc \in Int
        BY DEF Init, FlashInit
      <3>2. ctrlc_was_pressed \in BOOLEAN
        BY DEF Init, FlashInit
      <3> QED BY <1>1, <3>1, <3>2 DEF FlashTypeOK
    <2>2. cmd = NoCommand /\ status = "ready"
      BY DEF Init
    <2> QED BY <2>1, <2>2 DEF TypeOK
  <1> QED
    BY <1>2 DEF Init, FlashInit, IInv, DriverSafe, DriverBusyOnlyInCommand, Idle

-----------------------------------------------------------------------------
(* Steps of the driver. *)
LEMMA DriverInv ==
    ASSUME IInv, Driver
    PROVE  IInv'
  <1> USE DEF IInv, Driver, cmdVars
  <1>a. FlashTypeOK /\ protect' \in [Sector -> BOOLEAN] /\ cell \in [Addr -> Value] /\ rc \in Int
        /\ ctrlc_was_pressed \in BOOLEAN
    BY DEF TypeOK, FlashTypeOK, DriverStep, EraseSector, EraseError, EraseCtrlC, EraseReturn,
           WriteCell, WriteNotErased, WriteError, WriteReturn
  <1>b. ASSUME cell' \in [Addr -> Value], drv' \in {Idle} \cup EraseCall \cup WriteCall,
               rc' \in Int, ctrlc_was_pressed' \in BOOLEAN
        PROVE  TypeOK'
    BY <1>a, <1>b DEF TypeOK, FlashTypeOK
  <1>c. ASSUME NEW code \in Int, NEW reported \in Int, Return(code, reported),
               cell' \in [Addr -> Value], ctrlc_was_pressed' \in BOOLEAN
        PROVE  IInv'
    BY <1>b, <1>c, ReturnSafe
  <1>1. CASE EraseSector
    <2>1. drv.bank \in Bank /\ drv.at \in Nat /\ drv.last \in Nat /\ drv \in EraseCall
      BY <1>1, <1>a, EraseCallType DEF EraseSector
    <2>2. cell' \in [Addr -> Value]
      BY <1>1, <1>a, ValueAssumption DEF EraseSector
    <2>3. drv' \in EraseCall /\ drv'.at = drv.at + 1 /\ drv'.bank = drv.bank
          /\ drv'.last = drv.last /\ drv'.op = "erase"
      BY <1>1, <2>1 DEF EraseSector, EraseCall
    <2>4. TypeOK'
      BY <1>1, <1>a, <1>b, <2>2, <2>3 DEF EraseSector
    <2>5. \A x \in SectorsOf(drv'.bank) : x[2] \in drv'.at..drv'.last => ~protect'[x]
      <3> SUFFICES ASSUME NEW x \in SectorsOf(drv.bank), x[2] \in (drv.at + 1)..drv.last
                   PROVE  ~protect[x]
        BY <1>1, <2>3 DEF EraseSector
      <3>1. x[2] \in drv.at..drv.last
        BY <2>1
      <3> QED BY <1>1, <3>1 DEF DriverSafe, EraseSector
    <2>6. DriverSafe'
      BY <1>1, <2>3, <2>5 DEF DriverSafe, EraseSector
    <2> QED
      BY <1>1, <2>1, <2>4, <2>6 DEF DriverBusyOnlyInCommand, EraseSector, Idle, EraseCall
  <1>2. CASE EraseError
    <2>1. cell' \in [Addr -> Value]
      BY <1>2, <1>a, DisturbEffect DEF EraseError
    <2>2. drv.reported \in Int
      BY <1>2, <1>a, EraseCallType DEF EraseError
    <2>3. PICK e \in DriverErrors : Return(e, drv.reported)
      BY <1>2 DEF EraseError
    <2> QED BY <1>2, <1>a, <1>c, <2>1, <2>2, <2>3 DEF EraseError
  <1>3. CASE EraseCtrlC
    <2>1. drv.reported \in Int
      BY <1>3, <1>a, EraseCallType DEF EraseCtrlC
    <2> QED BY <1>3, <1>a, <1>c, <2>1 DEF EraseCtrlC
  <1>4. CASE EraseReturn
    <2>1. drv.reported \in Int
      BY <1>4, <1>a, EraseCallType DEF EraseReturn
    <2>2. ctrlc_was_pressed' \in BOOLEAN
      <3>1. CASE ctrlc_was_pressed' = ctrlc_was_pressed
        BY <3>1, <1>a
      <3>2. CASE ctrlc_was_pressed' = TRUE
        BY <3>2
      <3> QED BY <1>4, <3>1, <3>2 DEF EraseReturn
    <2>3. cell' \in [Addr -> Value]
      BY <1>4, <1>a DEF EraseReturn
    <2>4. Return(ERR_OK, drv.reported)
      BY <1>4 DEF EraseReturn
    <2> QED BY <1>c, <2>1, <2>2, <2>3, <2>4
  <1>5. CASE WriteCell
    <2>1. drv \in WriteCall /\ drv.at \in Nat /\ drv.last \in Nat /\ drv.data \in [Addr -> Value]
      BY <1>5, <1>a, WriteCallType DEF WriteCell
    <2>2. cell' \in [Addr -> Value]
      BY <1>5, <1>a, <2>1 DEF WriteCell
    <2>3. drv' \in WriteCall /\ drv'.at = drv.at + 1 /\ drv'.last = drv.last /\ drv'.op = "write"
      BY <1>5, <2>1 DEF WriteCell, WriteCall
    <2>4. TypeOK'
      BY <1>5, <1>a, <1>b, <2>2, <2>3 DEF WriteCell
    <2>5. \A x \in Sector : Overlaps(x, drv'.at, drv'.last) => ~protect'[x]
      <3> SUFFICES ASSUME NEW x \in Sector, Overlaps(x, drv.at + 1, drv.last)
                   PROVE  ~protect[x]
        BY <1>5, <2>3 DEF WriteCell
      <3>1. Overlaps(x, drv.at, drv.last)
        BY <2>1, GeometryAssumption DEF Overlaps
      <3> QED BY <1>5, <3>1 DEF DriverSafe, WriteCell
    <2>6. DriverSafe'
      BY <1>5, <2>3, <2>5 DEF DriverSafe, WriteCell
    <2> QED
      BY <1>5, <2>1, <2>4, <2>6 DEF DriverBusyOnlyInCommand, WriteCell, Idle, WriteCall
  <1>6. CASE WriteNotErased
    BY <1>6, <1>a, <1>c DEF WriteNotErased
  <1>7. CASE WriteError
    <2>1. cell' \in [Addr -> Value]
      BY <1>7, <1>a, DisturbEffect DEF WriteError
    <2>2. PICK e \in DriverErrors : Return(e, 0)
      BY <1>7 DEF WriteError
    <2> QED BY <1>7, <1>a, <1>c, <2>1, <2>2 DEF WriteError
  <1>8. CASE WriteReturn
    BY <1>8, <1>a, <1>c DEF WriteReturn
  <1> QED
    BY <1>1, <1>2, <1>3, <1>4, <1>5, <1>6, <1>7, <1>8 DEF DriverStep

-----------------------------------------------------------------------------
(* Steps that start, end or interrupt a command. *)

(* Calls into the driver leave the array alone and check before they start. *)
LEMMA FlashEraseInv ==
    ASSUME IInv, NEW b \in Bank, NEW f \in Nat, NEW l \in Nat, l < NSect[b],
           NEW reported \in Nat, FlashErase(b, f, l, reported)
    PROVE  FlashTypeOK' /\ DriverSafe'
  <1> USE DEF IInv
  <1>a. FlashTypeOK /\ protect' = protect /\ cell' = cell
        /\ ctrlc_was_pressed' = ctrlc_was_pressed
    BY DEF TypeOK, FlashErase
  <1>1. CASE \E x \in {x \in SectorsOf(b) : x[2] \in f..l} :
               protect[x] /\ Return(ERR_PROTECTED, reported)
    <2>1. drv' = Idle /\ rc' \in Int /\ DriverSafe'
      BY <1>1, ReturnSafe
    <2> QED BY <1>a, <2>1 DEF FlashTypeOK
  <1>2. CASE /\ \A x \in {x \in SectorsOf(b) : x[2] \in f..l} : ~protect[x]
             /\ drv' = [op |-> "erase", bank |-> b, at |-> f, last |-> l,
                        reported |-> reported]
             /\ UNCHANGED rc
    <2>1. drv' \in EraseCall
      BY <1>2 DEF EraseCall
    <2>2. FlashTypeOK'
      BY <1>2, <1>a, <2>1 DEF FlashTypeOK
    <2>3. DriverSafe'
      BY <1>2, <1>a DEF DriverSafe, SectorsOf
    <2> QED BY <2>2, <2>3
  <1> QED BY <1>1, <1>2 DEF FlashErase

(* flash_write looks at every protected sector its copy meets. *)
LEMMA FlashWriteInv ==
    ASSUME IInv, NEW data \in [Addr -> Value], NEW from \in Nat, NEW to \in Nat,
           FlashWrite(data, from, to)
    PROVE  FlashTypeOK' /\ DriverSafe'
  <1> USE DEF IInv
  <1>a. FlashTypeOK /\ protect' = protect /\ cell' = cell
        /\ ctrlc_was_pressed' = ctrlc_was_pressed
    BY DEF TypeOK, FlashWrite
  <1>1. CASE \E code \in Int : Return(code, 0)
    <2>1. drv' = Idle /\ rc' \in Int /\ DriverSafe'
      BY <1>1, ReturnSafe
    <2> QED BY <1>a, <2>1 DEF FlashTypeOK
  <1>2. CASE /\ BanksAt(from) # {} /\ BanksAt(to) # {}
             /\ {x \in Sector : /\ x[1] \in Addr2Info(from)..Addr2Info(to)
                                /\ Overlaps(x, from, to)
                                /\ protect[x]} = {}
             /\ drv' = [op |-> "write", at |-> from, last |-> to, data |-> data]
             /\ UNCHANGED rc
    <2>1. drv' \in WriteCall
      BY <1>2 DEF WriteCall
    <2>2. FlashTypeOK'
      BY <1>2, <1>a, <2>1 DEF FlashTypeOK
    <2>3. \A x \in Sector : Overlaps(x, from, to) => ~protect[x]
      BY <1>2, BanksBetween
    <2>4. DriverSafe'
      BY <1>2, <1>a, <2>3 DEF DriverSafe, Overlaps
    <2> QED BY <2>2, <2>4
  <1>3. ERR_OK \in Int /\ ERR_INVAL \in Int /\ ERR_PROTECTED \in Int
    OBVIOUS
  <1> QED BY <1>1, <1>2, <1>3 DEF FlashWrite

-----------------------------------------------------------------------------
(* The whole program. *)

(* flash_erase leaves an error code or a call inside the bank. *)
LEMMA EraseInv ==
    ASSUME IInv,
           NEW b \in Bank, NEW f \in Nat, NEW l \in Nat, l < NSect[b],
           NEW reported \in Nat, FlashErase(b, f, l, reported),
           status' = "running",
           cmd' \in [name : {"erase", "protect"}, from : Nat, to : Nat]
               \cup [name : {"erase_sectors"}, bank : Bank, f : Nat, l : Nat]
               \cup [name : {"erase_all"}, bank : Bank]
    PROVE  IInv'
  <1>1. FlashTypeOK' /\ DriverSafe'
    BY FlashEraseInv
  <1> QED BY <1>1 DEF IInv, TypeOK, DriverBusyOnlyInCommand

(* Every step keeps the invariant. *)
LEMMA NextInv == IInv /\ [Next]_vars => IInv'
  <1> SUFFICES ASSUME IInv, [Next]_vars PROVE IInv'
    OBVIOUS
  <1>a. TypeOK /\ FlashTypeOK /\ DriverSafe /\ DriverBusyOnlyInCommand
    BY DEF IInv, TypeOK
  <1>b. \A b \in Bank : NSect[b] \in Nat \ {0}
    BY GeometryAssumption
  <1>1. ASSUME NEW r \in Ranges, EraseRange(r[1], r[2]) PROVE IInv'
    <2>0. r[1] \in Nat /\ r[2] \in Nat
      BY CommandAssumption
    <2>1. /\ cmd' \in [name : {"erase", "protect"}, from : Nat, to : Nat]
          /\ status' = "running"
      BY <1>1, <2>0 DEF EraseRange
    <2>2. CASE \E b \in Bank : \E f, l \in 0..NSect[b] - 1 :
                 f <= l /\ FlashErase(b, f, l, l - f + 1)
      <3>1. PICK b \in Bank : \E f, l \in 0..NSect[b] - 1 :
                 f <= l /\ FlashErase(b, f, l, l - f + 1)
        BY <2>2
      <3>2. PICK f \in 0..NSect[b] - 1, l \in 0..NSect[b] - 1 :
                 f <= l /\ FlashErase(b, f, l, l - f + 1)
        BY <3>1
      <3>3. f \in Nat /\ l \in Nat /\ l < NSect[b] /\ l - f + 1 \in Nat
        BY <3>2, <1>b
      <3> QED BY <2>1, <3>2, <3>3, EraseInv
    <2>3. CASE Return(ERR_OK, 0) /\ UNCHANGED <<protect, cell, ctrlc_was_pressed>>
      <3>1. drv' = Idle /\ rc' \in Int /\ DriverSafe' /\ DriverBusyOnlyInCommand'
        BY <2>3, ReturnSafe
      <3>2. FlashTypeOK'
        BY <1>a, <2>3, <3>1 DEF FlashTypeOK
      <3> QED BY <2>1, <3>1, <3>2 DEF IInv, TypeOK
    <2> QED BY <1>1, <2>2, <2>3 DEF EraseRange, FlashSectErase
  <1>2. ASSUME NEW b \in Bank, NEW f \in 0..NSect[b] - 1, NEW l \in 0..NSect[b] - 1,
               EraseSectors(b, f, l)
        PROVE  IInv'
    <2>1. f \in Nat /\ l \in Nat /\ l < NSect[b] /\ 0 \in Nat
      BY <1>b
    <2>2. cmd' \in [name : {"erase_sectors"}, bank : Bank, f : Nat, l : Nat]
      BY <1>2, <2>1 DEF EraseSectors
    <2> QED BY <1>2, <2>1, <2>2, EraseInv DEF EraseSectors
  <1>3. CASE EraseAll
    <2>1. 1 \in Bank /\ NSect[1] - 1 \in Nat /\ NSect[1] - 1 < NSect[1]
      BY <1>b, GeometryAssumption DEF Bank
    <2>2. cmd' \in [name : {"erase_all"}, bank : Bank]
      BY <1>3, <2>1 DEF EraseAll
    <2> QED BY <1>3, <2>1, <2>2, EraseInv DEF EraseAll
  <1>4. CASE EraseNextBank
    <2>1. cmd \in [name : {"erase_all"}, bank : Bank]
      BY <1>4, <1>a DEF EraseNextBank, TypeOK, NoCommand
    <2>2. cmd.bank + 1 \in Bank
      BY <1>4, <2>1, GeometryAssumption DEF EraseNextBank, Bank
    <2>3. NSect[cmd.bank + 1] - 1 \in Nat /\ NSect[cmd.bank + 1] - 1 < NSect[cmd.bank + 1]
      BY <1>b, <2>2
    <2>4. cmd' \in [name : {"erase_all"}, bank : Bank]
      BY <1>4, <2>1, <2>2 DEF EraseNextBank
    <2>5. status' = "running" /\ FlashErase(cmd.bank + 1, 0, NSect[cmd.bank + 1] - 1, 0)
      BY <1>4 DEF EraseNextBank
    <2> QED BY <2>2, <2>3, <2>4, <2>5, EraseInv
  <1>5. ASSUME NEW r \in Ranges, NEW p \in BOOLEAN, ProtectRange(p, r[1], r[2])
        PROVE  IInv'
    <2>0. r[1] \in Nat /\ r[2] \in Nat
      BY CommandAssumption
    <2>1. drv = Idle /\ drv' = Idle /\ rc' \in Int /\ cell' = cell
          /\ ctrlc_was_pressed' = ctrlc_was_pressed
      BY <1>5 DEF ProtectRange, FlashSectProtect
    <2>2. protect' \in [Sector -> BOOLEAN]
      BY <1>5, <1>a DEF ProtectRange, FlashSectProtect, SetProtect, FlashTypeOK
    <2>3. cmd' \in [name : {"erase", "protect"}, from : Nat, to : Nat]
      BY <1>5, <2>0 DEF ProtectRange
    <2>4. status' \in {"ready", "running", "ok", "failed"}
      BY <1>5 DEF ProtectRange, Status
    <2>5. FlashTypeOK'
      BY <1>a, <2>1, <2>2 DEF FlashTypeOK
    <2>6. DriverSafe' /\ DriverBusyOnlyInCommand'
      BY <2>1 DEF DriverSafe, DriverBusyOnlyInCommand, Idle
    <2> QED BY <2>3, <2>4, <2>5, <2>6 DEF IInv, TypeOK
  <1>6. ASSUME NEW xs, NEW p \in BOOLEAN, ProtectSectors(p, xs)
        PROVE  IInv'
    <2>1. drv = Idle /\ drv' = Idle /\ rc' = rc /\ cell' = cell
          /\ ctrlc_was_pressed' = ctrlc_was_pressed
      BY <1>6, <1>a DEF ProtectSectors, DriverBusyOnlyInCommand
    <2>2. protect' \in [Sector -> BOOLEAN]
      BY <1>6, <1>a DEF ProtectSectors, SetProtect, FlashTypeOK
    <2>3. cmd' = NoCommand /\ status' = "ok"
      BY <1>6 DEF ProtectSectors
    <2>4. FlashTypeOK'
      BY <1>a, <2>1, <2>2 DEF FlashTypeOK
    <2>5. DriverSafe' /\ DriverBusyOnlyInCommand'
      BY <2>1 DEF DriverSafe, DriverBusyOnlyInCommand, Idle
    <2> QED BY <2>3, <2>4, <2>5 DEF IInv, TypeOK
  <1>7. ASSUME NEW r \in Ranges, NEW data \in Sources, CopyToFlash(data, r[1], r[2])
        PROVE  IInv'
    <2>0. r[1] \in Nat /\ r[2] \in Nat /\ data \in [Addr -> Value]
      BY CommandAssumption
    <2>1. FlashTypeOK' /\ DriverSafe'
      BY <1>7, <2>0, FlashWriteInv DEF CopyToFlash
    <2>2. cmd' \in [name : {"cp"}, from : Nat, to : Nat, data : Sources] /\ status' = "running"
      BY <1>7, <2>0 DEF CopyToFlash
    <2> QED BY <2>1, <2>2 DEF IInv, TypeOK, DriverBusyOnlyInCommand
  <1>8. CASE CommandReturn
    <2>1. drv = Idle /\ drv' = drv /\ rc' = rc /\ cell' = cell /\ protect' = protect
          /\ ctrlc_was_pressed' = ctrlc_was_pressed /\ cmd' = cmd
      BY <1>8 DEF CommandReturn
    <2>2. FlashTypeOK' /\ DriverSafe'
      BY <1>a, <2>1 DEF FlashTypeOK, DriverSafe, SectorsOf
    <2>3. status' \in {"ready", "running", "ok", "failed"}
      BY <1>8 DEF CommandReturn, Status
    <2> QED BY <1>a, <2>1, <2>2, <2>3 DEF IInv, TypeOK, DriverBusyOnlyInCommand
  <1>9. CASE Prompt
    <2>1. drv = Idle
      BY <1>9, <1>a DEF Prompt, DriverBusyOnlyInCommand
    <2>2. drv' = drv /\ rc' = rc /\ cell' = cell /\ protect' = protect /\ cmd' = NoCommand
          /\ status' = "ready"
      BY <1>9 DEF Prompt
    <2>3. ctrlc_was_pressed' \in BOOLEAN
      BY <1>9 DEF Prompt
    <2>4. FlashTypeOK' /\ DriverSafe' /\ DriverBusyOnlyInCommand'
      BY <1>a, <2>1, <2>2, <2>3 DEF FlashTypeOK, DriverSafe, DriverBusyOnlyInCommand, SectorsOf
    <2> QED BY <2>2, <2>4 DEF IInv, TypeOK
  <1>10. CASE Reset
    <2>1. cell' \in [Addr -> Value]
      BY <1>10, <1>a, DisturbEffect DEF Reset, FlashReset, FlashTypeOK
    <2>2. protect' \in [Sector -> BOOLEAN]
      BY <1>10 DEF Reset, FlashReset
    <2>3. drv' = Idle /\ rc' = ERR_OK /\ cmd' = NoCommand /\ status' = "ready"
      BY <1>10 DEF Reset, FlashReset
    <2>4. ctrlc_was_pressed' \in BOOLEAN
      BY <1>10 DEF Reset, FlashReset
    <2>5. FlashTypeOK'
      BY <2>1, <2>2, <2>3, <2>4 DEF FlashTypeOK
    <2>6. DriverSafe' /\ DriverBusyOnlyInCommand'
      BY <2>3 DEF DriverSafe, DriverBusyOnlyInCommand, Idle
    <2> QED BY <2>3, <2>5, <2>6 DEF IInv, TypeOK
  <1>11. CASE Typed
    BY <1>11, <1>1, <1>2, <1>3, <1>5, <1>6, <1>7 DEF Typed
  <1>12. CASE UNCHANGED vars
    BY <1>12 DEF vars, IInv, TypeOK, FlashTypeOK, DriverSafe, DriverBusyOnlyInCommand, SectorsOf
  <1> QED
    BY <1>4, <1>8, <1>9, <1>10, <1>11, <1>12, DriverInv DEF Next

-----------------------------------------------------------------------------
(* What is left of a running driver call lies in the target of the command. *)
CallInTarget ==
    /\ drv.op = "erase" =>
          \A x \in SectorsOf(drv.bank) : x[2] \in drv.at..drv.last => CellsOf(x) \subseteq Target
    /\ drv.op = "write" => drv.at..drv.last \subseteq Target

(* A call that has just begun, or was refused. *)
LEMMA EraseInTarget ==
    ASSUME NEW b, NEW f, NEW l, NEW reported, FlashErase(b, f, l, reported),
           \A x \in SectorsOf(b) : x[2] \in f..l => CellsOf(x) \subseteq Target'
    PROVE  CallInTarget'
  <1>1. CASE Return(ERR_PROTECTED, reported)
    BY <1>1 DEF Return, CallInTarget, Idle
  <1>2. CASE drv' = [op |-> "erase", bank |-> b, at |-> f, last |-> l, reported |-> reported]
    BY <1>2 DEF CallInTarget, SectorsOf
  <1> QED BY <1>1, <1>2 DEF FlashErase

(* An idle driver has nothing left to do. *)
LEMMA IdleInTarget == drv' = Idle => CallInTarget'
  BY DEF Idle, CallInTarget

(* Every step keeps what is left of the driver call inside the target. *)
LEMMA TargetInv == IInv /\ CallInTarget /\ [Next]_vars => CallInTarget'
  <1> SUFFICES ASSUME IInv, CallInTarget, [Next]_vars PROVE CallInTarget'
    OBVIOUS
  <1>a. TypeOK /\ FlashTypeOK /\ DriverBusyOnlyInCommand
    BY DEF IInv, TypeOK
  <1>b. \A b \in Bank : NSect[b] \in Nat \ {0}
    BY GeometryAssumption
  <1>1. CASE Driver
    <2>1. Target' = Target
      BY <1>1 DEF Driver, cmdVars, Target
    <2>2. CASE drv' = Idle
      BY <2>2, IdleInTarget
    <2>3. CASE EraseSector
      <3>1. drv \in EraseCall /\ drv.at \in Nat /\ drv.last \in Nat
        BY <2>3, <1>a, EraseCallType DEF EraseSector
      <3>2. drv'.op = "erase" /\ drv'.bank = drv.bank /\ drv'.at = drv.at + 1
            /\ drv'.last = drv.last
        BY <2>3, <3>1 DEF EraseSector, EraseCall
      <3>3. (drv.at + 1)..drv.last \subseteq drv.at..drv.last
        BY <3>1
      <3>4. \A x \in SectorsOf(drv.bank) :
                x[2] \in drv.at..drv.last => CellsOf(x) \subseteq Target
        BY <2>3 DEF EraseSector, CallInTarget
      <3> QED BY <2>1, <3>2, <3>3, <3>4 DEF CallInTarget, SectorsOf
    <2>4. CASE WriteCell
      <3>1. drv \in WriteCall /\ drv.at \in Nat /\ drv.last \in Nat
        BY <2>4, <1>a, WriteCallType DEF WriteCell
      <3>2. drv'.op = "write" /\ drv'.at = drv.at + 1 /\ drv'.last = drv.last
        BY <2>4, <3>1 DEF WriteCell, WriteCall
      <3>3. drv.at..drv.last \subseteq Target
        BY <2>4 DEF WriteCell, CallInTarget
      <3> QED BY <2>1, <3>1, <3>2, <3>3 DEF CallInTarget
    <2> QED
      BY <1>1, <2>2, <2>3, <2>4
         DEF Driver, DriverStep, EraseError, EraseCtrlC, EraseReturn, WriteNotErased,
             WriteError, WriteReturn, Return
  <1>2. ASSUME NEW r \in Ranges, EraseRange(r[1], r[2]) PROVE CallInTarget'
    <2>1. Target' = r[1]..r[2]
      BY <1>2 DEF EraseRange, Target
    <2>2. ASSUME NEW b \in Bank, NEW f \in 0..NSect[b] - 1, NEW l \in 0..NSect[b] - 1,
                 Start[<<b, f>>] = r[1], End[<<b, l>>] = r[2],
                 FlashErase(b, f, l, l - f + 1)
          PROVE  CallInTarget'
      BY <2>1, <2>2, CellsInRange, EraseInTarget
    <2>3. CASE Return(ERR_OK, 0)
      BY <2>3, IdleInTarget DEF Return
    <2> QED BY <1>2, <2>2, <2>3 DEF EraseRange, FlashSectErase
  <1>3. ASSUME NEW b \in Bank, NEW f \in 0..NSect[b] - 1, NEW l \in 0..NSect[b] - 1,
               EraseSectors(b, f, l)
        PROVE  CallInTarget'
    <2>1. cmd' = [name |-> "erase_sectors", bank |-> b, f |-> f, l |-> l]
          /\ FlashErase(b, f, l, 0)
      BY <1>3 DEF EraseSectors
    <2>2. Target' = UNION {CellsOf(x) : x \in {y \in SectorsOf(b) : y[2] \in f..l}}
      BY <2>1 DEF Target, SectorsOf
    <2>3. \A x \in SectorsOf(b) : x[2] \in f..l => CellsOf(x) \subseteq Target'
      BY <2>2
    <2> QED BY <2>1, <2>3, EraseInTarget
  <1>4. CASE EraseAll
    <2>1. cmd' = [name |-> "erase_all", bank |-> 1] /\ FlashErase(1, 0, NSect[1] - 1, 0)
      BY <1>4 DEF EraseAll
    <2>2. Target' = Addr
      BY <2>1 DEF Target
    <2>3. \A x \in SectorsOf(1) : CellsOf(x) \subseteq Addr
      BY CellsAreAddresses DEF SectorsOf
    <2> QED BY <2>1, <2>2, <2>3, EraseInTarget
  <1>5. CASE EraseNextBank
    <2>1. cmd \in [name : {"erase_all"}, bank : Bank]
      BY <1>5, <1>a DEF EraseNextBank, TypeOK, NoCommand
    <2>2. cmd'.name = "erase_all" /\ FlashErase(cmd.bank + 1, 0, NSect[cmd.bank + 1] - 1, 0)
      BY <1>5, <2>1 DEF EraseNextBank
    <2>3. Target' = Addr
      BY <2>2 DEF Target
    <2>4. \A x \in SectorsOf(cmd.bank + 1) : CellsOf(x) \subseteq Addr
      BY CellsAreAddresses DEF SectorsOf
    <2> QED BY <2>2, <2>3, <2>4, EraseInTarget
  <1>6. ASSUME NEW r \in Ranges, NEW data \in Sources, CopyToFlash(data, r[1], r[2])
        PROVE  CallInTarget'
    <2>1. Target' = r[1]..r[2]
      BY <1>6 DEF CopyToFlash, Target
    <2>2. CASE \E code \in Int : Return(code, 0)
      BY <2>2, IdleInTarget DEF Return
    <2>3. CASE drv' = [op |-> "write", at |-> r[1], last |-> r[2], data |-> data]
      BY <2>1, <2>3 DEF CallInTarget
    <2> QED BY <1>6, <2>2, <2>3 DEF CopyToFlash, FlashWrite
  <1>7. ASSUME NEW r \in Ranges, NEW p \in BOOLEAN, ProtectRange(p, r[1], r[2])
        PROVE  CallInTarget'
    BY <1>7, IdleInTarget DEF ProtectRange, FlashSectProtect
  <1>8. ASSUME NEW xs, NEW p \in BOOLEAN, ProtectSectors(p, xs)
        PROVE  CallInTarget'
    BY <1>8, <1>a, IdleInTarget DEF ProtectSectors, DriverBusyOnlyInCommand
  <1>9. CASE Typed
    BY <1>9, <1>2, <1>3, <1>4, <1>6, <1>7, <1>8 DEF Typed
  <1>10. CASE CommandReturn \/ Prompt \/ Reset
    BY <1>10, <1>a, IdleInTarget
       DEF CommandReturn, Prompt, Reset, FlashReset, DriverBusyOnlyInCommand
  <1>11. CASE UNCHANGED vars
    BY <1>11 DEF vars, CallInTarget, Target, SectorsOf
  <1> QED
    BY <1>1, <1>5, <1>9, <1>10, <1>11 DEF Next

-----------------------------------------------------------------------------
(* cp, from its first half-word to its message.                             *)
Copied(last) == \A a \in Addr \cap (cmd.from..last) : cell[a] = cmd.data[a]

CopySoFar ==
    /\ drv.op = "write" =>
          /\ cmd.name = "cp" /\ drv.data = cmd.data /\ drv.last = cmd.to
          /\ cmd.from <= drv.at
          /\ Copied(drv.at - 1)
    /\ (cmd.name = "cp" /\ status = "running" /\ drv # Idle) => drv.op = "write"
    /\ (cmd.name = "cp" /\ status = "running" /\ drv = Idle /\ rc >= 0) => Copied(cmd.to)
    /\ (cmd.name = "cp" /\ status = "ok") => Copied(cmd.to)

(* Every step keeps the part of the copy that is done. *)
LEMMA CopyInv == IInv /\ CopySoFar /\ [Next]_vars => CopySoFar'
  <1> SUFFICES ASSUME IInv, CopySoFar, [Next]_vars PROVE CopySoFar'
    OBVIOUS
  <1>a. TypeOK /\ FlashTypeOK /\ DriverBusyOnlyInCommand
    BY DEF IInv, TypeOK
  <1>b. Idle.op # "erase" /\ Idle.op # "write"
    BY DEF Idle
  <1>c. cmd.name = "cp" => cmd.from \in Nat /\ cmd.to \in Nat
    BY <1>a DEF TypeOK, NoCommand
  <1>d. cmd'.name # "cp" /\ drv'.op # "write" => CopySoFar'
    BY DEF CopySoFar
  <1>e. drv' = Idle /\ ~(rc' >= 0) /\ status' = "running" => CopySoFar'
    BY <1>b DEF CopySoFar
  <1>1. CASE Driver
    <2>0. cmd' = cmd /\ status' = status
      BY <1>1 DEF Driver, cmdVars
    <2>00. ASSUME drv.op \in {"erase", "write"} PROVE status = "running" /\ drv # Idle
      <3>1. drv # Idle
        BY <1>b, <2>00
      <3> QED BY <1>a, <3>1 DEF DriverBusyOnlyInCommand
    <2>1. CASE EraseSector \/ EraseError \/ EraseCtrlC \/ EraseReturn
      <3>0. drv.op = "erase"
        BY <2>1 DEF EraseSector, EraseError, EraseCtrlC, EraseReturn
      <3>1. cmd.name # "cp"
        BY <2>00, <3>0 DEF CopySoFar
      <3>2. drv'.op # "write"
        <4>1. CASE EraseSector
          <5>1. drv \in EraseCall
            BY <4>1, <1>a, EraseCallType DEF EraseSector
          <5> QED BY <4>1, <5>1 DEF EraseSector, EraseCall
        <4>2. CASE EraseError \/ EraseCtrlC \/ EraseReturn
          <5>1. drv' = Idle
            BY <4>2 DEF EraseError, EraseCtrlC, EraseReturn, Return
          <5> QED BY <1>b, <5>1
        <4> QED BY <2>1, <4>1, <4>2
      <3> QED BY <2>0, <3>1, <3>2, <1>d
    <2>2. CASE WriteCell
      <3>0. drv.op = "write" /\ drv' = [drv EXCEPT !.at = @ + 1]
        BY <2>2 DEF WriteCell
      <3>00. status = "running"
        BY <2>00, <3>0
      <3>1. drv \in WriteCall /\ drv.at \in Nat /\ drv.last \in Nat
        BY <3>0, <1>a, WriteCallType
      <3>2. drv'.op = "write" /\ drv'.at = drv.at + 1 /\ drv'.last = drv.last
            /\ drv'.data = drv.data
        BY <3>0, <3>1 DEF WriteCall
      <3>3. /\ cmd.name = "cp" /\ drv.data = cmd.data /\ drv.last = cmd.to
            /\ cmd.from <= drv.at
            /\ \A a \in Addr \cap (cmd.from..(drv.at - 1)) : cell[a] = cmd.data[a]
        BY <3>0 DEF CopySoFar, Copied
      <3>4. drv'.at - 1 = drv.at /\ cmd'.from = cmd.from /\ cmd'.data = cmd.data
        BY <2>0, <3>1, <3>2
      <3>5. cmd'.from <= drv'.at
        BY <1>c, <3>1, <3>2, <3>3, <3>4
      <3>6. ASSUME NEW a \in Addr, a \in cmd'.from..(drv'.at - 1)
            PROVE  cell'[a] = cmd'.data[a]
        <4>1. cell'[a] = IF a = drv.at THEN drv.data[a] ELSE cell[a]
          BY <2>2 DEF WriteCell
        <4>2. a \in cmd.from..drv.at
          BY <3>4, <3>6
        <4>3. a # drv.at => a \in cmd.from..(drv.at - 1)
          BY <1>c, <3>1, <3>3, <4>2
        <4> QED BY <3>3, <3>4, <4>1, <4>3
      <3>7. drv' # Idle
        BY <1>b, <3>2
      <3>8. status' # "ok"
        BY <2>0, <3>00
      <3> QED BY <2>0, <3>2, <3>3, <3>5, <3>6, <3>7, <3>8 DEF CopySoFar, Copied
    <2>3. CASE WriteNotErased \/ WriteError
      <3>1. drv' = Idle /\ ~(rc' >= 0) /\ drv.op = "write"
        BY <2>3 DEF WriteNotErased, WriteError, Return, DriverErrors, ERR_NOT_ERASED,
                    ERR_TIMOUT, ERR_PROG_ERROR
      <3>2. status' = "running"
        BY <2>0, <2>00, <3>1
      <3> QED BY <3>1, <3>2, <1>e
    <2>4. CASE WriteReturn
      <3>1. drv.op = "write" /\ drv' = Idle /\ cell' = cell /\ drv.at > drv.last
        BY <2>4 DEF WriteReturn, Return
      <3>2. drv.at \in Nat /\ drv.last \in Nat
        BY <3>1, <1>a, WriteCallType
      <3>3. /\ drv.last = cmd.to /\ cmd.name = "cp"
            /\ \A a \in Addr \cap (cmd.from..(drv.at - 1)) : cell[a] = cmd.data[a]
        BY <3>1 DEF CopySoFar, Copied
      <3>4. cmd.from..cmd.to \subseteq cmd.from..(drv.at - 1)
        BY <1>c, <3>1, <3>2, <3>3
      <3>5. \A a \in Addr \cap (cmd'.from..cmd'.to) : cell'[a] = cmd'.data[a]
        BY <2>0, <3>1, <3>3, <3>4
      <3> QED BY <1>b, <3>1, <3>5 DEF CopySoFar, Copied
    <2> QED BY <1>1, <2>1, <2>2, <2>3, <2>4 DEF Driver, DriverStep
  <1>2. ASSUME NEW r \in Ranges, NEW data \in Sources, CopyToFlash(data, r[1], r[2])
        PROVE  CopySoFar'
    <2>1. r[1] \in Nat /\ r[2] \in Nat
      BY CommandAssumption
    <2>2. cmd' = [name |-> "cp", from |-> r[1], to |-> r[2], data |-> data]
          /\ status' = "running"
      BY <1>2 DEF CopyToFlash
    <2>3. cmd'.name = "cp" /\ cmd'.from = r[1] /\ cmd'.to = r[2] /\ cmd'.data = data
          /\ status' # "ok"
      BY <2>2
    <2>4. CASE r[2] < r[1] /\ drv' = Idle
      <3>1. \A a \in Addr \cap (cmd'.from..cmd'.to) : cell'[a] = cmd'.data[a]
        BY <2>1, <2>3, <2>4
      <3> QED BY <1>b, <2>4, <3>1 DEF CopySoFar, Copied
    <2>5. CASE drv' = Idle /\ ~(rc' >= 0)
      BY <2>2, <2>5, <1>e
    <2>6. CASE drv' = [op |-> "write", at |-> r[1], last |-> r[2], data |-> data]
      <3>1. drv'.op = "write" /\ drv'.at = r[1] /\ drv'.last = r[2] /\ drv'.data = data
        BY <2>6
      <3>2. drv' # Idle
        BY <1>b, <3>1
      <3>3. \A a \in Addr \cap (cmd'.from..(drv'.at - 1)) : cell'[a] = cmd'.data[a]
        BY <2>1, <2>3, <3>1
      <3>4. cmd'.from <= drv'.at
        BY <2>1, <2>3, <3>1
      <3> QED BY <2>3, <3>1, <3>2, <3>3, <3>4 DEF CopySoFar, Copied
    <2> QED BY <1>2, <2>4, <2>5, <2>6 DEF CopyToFlash, FlashWrite, Return, ERR_INVAL,
                                          ERR_PROTECTED
  <1>3. ASSUME NEW b, NEW f, NEW l, NEW reported, FlashErase(b, f, l, reported)
        PROVE  drv'.op # "write"
    BY <1>3 DEF FlashErase, Return, Idle
  <1>4. ASSUME NEW r \in Ranges, EraseRange(r[1], r[2]) PROVE CopySoFar'
    <2>1. cmd'.name = "erase"
      BY <1>4 DEF EraseRange
    <2>2. drv'.op # "write"
      <3>1. CASE Return(ERR_OK, 0)
        BY <1>b, <3>1 DEF Return
      <3>2. ASSUME NEW b \in Bank, NEW f, NEW l, FlashErase(b, f, l, l - f + 1)
            PROVE  drv'.op # "write"
        BY <1>3, <3>2
      <3> QED BY <1>4, <3>1, <3>2 DEF EraseRange, FlashSectErase
    <2> QED BY <2>1, <2>2, <1>d
  <1>5. ASSUME NEW b \in Bank, NEW f \in 0..NSect[b] - 1, NEW l \in 0..NSect[b] - 1,
               EraseSectors(b, f, l)
        PROVE  CopySoFar'
    BY <1>3, <1>5, <1>d DEF EraseSectors
  <1>6. CASE EraseAll
    BY <1>3, <1>6, <1>d DEF EraseAll
  <1>7. CASE EraseNextBank
    <2>1. cmd \in [name : {"erase_all"}, bank : Bank]
      BY <1>7, <1>a DEF EraseNextBank, TypeOK, NoCommand
    <2>2. cmd'.name = "erase_all"
      BY <1>7, <2>1 DEF EraseNextBank
    <2>3. drv'.op # "write"
      BY <1>3, <1>7 DEF EraseNextBank
    <2> QED BY <2>2, <2>3, <1>d
  <1>8. ASSUME NEW r \in Ranges, NEW p \in BOOLEAN, ProtectRange(p, r[1], r[2])
        PROVE  CopySoFar'
    BY <1>8, <1>d DEF ProtectRange, FlashSectProtect, Idle
  <1>9. ASSUME NEW xs, NEW p \in BOOLEAN, ProtectSectors(p, xs)
        PROVE  CopySoFar'
    BY <1>9, <1>a, <1>d DEF ProtectSectors, DriverBusyOnlyInCommand, NoCommand, Idle
  <1>10. CASE Typed
    BY <1>10, <1>2, <1>4, <1>5, <1>6, <1>8, <1>9 DEF Typed
  <1>11. CASE CommandReturn
    <2>1. /\ drv = Idle /\ drv' = Idle /\ status = "running" /\ status' = Status(rc)
          /\ cmd' = cmd /\ cell' = cell /\ rc' = rc
      BY <1>11 DEF CommandReturn
    <2>2. status' = "ok" => rc >= 0
      BY <1>a, <2>1 DEF Status, FlashTypeOK
    <2>3. status' # "running"
      BY <2>1 DEF Status
    <2> QED BY <2>1, <2>2, <2>3 DEF CopySoFar, Copied, Idle
  <1>12. CASE Prompt \/ Reset
    BY <1>12, <1>a, <1>d DEF Prompt, Reset, FlashReset, DriverBusyOnlyInCommand, NoCommand, Idle
  <1>13. CASE UNCHANGED vars
    BY <1>13 DEF vars, CopySoFar, Copied
  <1> QED
    BY <1>1, <1>7, <1>10, <1>11, <1>12, <1>13 DEF Next

-----------------------------------------------------------------------------
(* erase N:f-l and erase all, from the first sector to the message.         *)
Erasing == cmd.name \in {"erase_sectors", "erase_all"}
FirstSector == IF cmd.name = "erase_sectors" THEN cmd.f ELSE 0
LastSector == IF cmd.name = "erase_sectors" THEN cmd.l ELSE NSect[cmd.bank] - 1

ErasedIn(b, f, l) ==
    \A x \in SectorsOf(b) : x[2] \in f..l => \A a \in CellsOf(x) : cell[a] = Erased

(* The banks erase all has dealt with. *)
BanksBefore ==
    cmd.name = "erase_all" => \A b \in Bank : b < cmd.bank => ErasedIn(b, 0, NSect[b] - 1)

EraseSoFar ==
    Erasing /\ ~ctrlc_was_pressed =>
        /\ status \in {"running", "ok"} => BanksBefore
        /\ status = "running" /\ drv # Idle =>
              /\ drv.op = "erase" /\ drv.reported = 0
              /\ drv.bank = cmd.bank /\ drv.last = LastSector
              /\ ErasedIn(cmd.bank, FirstSector, drv.at - 1)
        /\ status = "running" /\ drv = Idle /\ rc >= 0 =>
              ErasedIn(cmd.bank, FirstSector, LastSector)
        /\ status = "ok" =>
              /\ ErasedIn(cmd.bank, FirstSector, LastSector)
              /\ cmd.name = "erase_all" => cmd.bank = Banks

(* What is erased stays erased while no cell is given another value.        *)
LEMMA ErasedStays ==
    ASSUME NEW b, NEW f, NEW l, ErasedIn(b, f, l),
           \A a \in Addr : cell[a] = Erased => cell'[a] = Erased
    PROVE  ErasedIn(b, f, l)'
  BY CellsAreAddresses DEF ErasedIn, SectorsOf

(* One more sector. *)
LEMMA EraseSectorSoFar ==
    ASSUME IInv, EraseSoFar, EraseSector, UNCHANGED cmdVars PROVE EraseSoFar'
  <1> SUFFICES ASSUME Erasing, ~ctrlc_was_pressed PROVE EraseSoFar'
    BY DEF EraseSoFar, Erasing, EraseSector, cmdVars
  <1>a. TypeOK /\ FlashTypeOK /\ DriverBusyOnlyInCommand
    BY DEF IInv, TypeOK
  <1>b. drv \in EraseCall /\ drv.bank \in Bank /\ drv.at \in Nat /\ drv.last \in Nat
    BY <1>a, EraseCallType DEF EraseSector
  <1>c. drv # Idle /\ status = "running"
    BY <1>a DEF Idle, EraseSector, DriverBusyOnlyInCommand
  <1>d. /\ cmd' = cmd /\ status' = "running" /\ ctrlc_was_pressed' = ctrlc_was_pressed
        /\ drv' = [drv EXCEPT !.at = @ + 1]
        /\ cell' = [a \in Addr |->
                      IF a \in CellsOf(<<drv.bank, drv.at>>) THEN Erased ELSE cell[a]]
    BY <1>c DEF EraseSector, cmdVars
  <1>1. /\ drv'.op = "erase" /\ drv'.reported = drv.reported /\ drv'.bank = drv.bank
        /\ drv'.last = drv.last /\ drv'.at = drv.at + 1
    BY <1>b, <1>d DEF EraseCall
  <1>2. drv' # Idle
    BY <1>1 DEF Idle
  <1>3. \A a \in Addr : cell[a] = Erased => cell'[a] = Erased
    BY <1>d
  <1>4. /\ BanksBefore /\ drv.reported = 0 /\ drv.bank = cmd.bank /\ drv.last = LastSector
        /\ ErasedIn(cmd.bank, FirstSector, drv.at - 1)
    BY <1>c DEF EraseSoFar
  <1>5. BanksBefore'
    BY <1>3, <1>4, <1>d, ErasedStays DEF BanksBefore
  <1>6. LastSector' = LastSector /\ FirstSector' = FirstSector
    BY <1>d DEF LastSector, FirstSector
  <1>7. FirstSector \in Nat
    BY <1>a DEF FirstSector, TypeOK, NoCommand
  <1>8. ASSUME NEW x \in SectorsOf(cmd.bank), x[2] \in FirstSector..drv.at,
               NEW a \in CellsOf(x)
        PROVE  cell'[a] = Erased
    <2>1. x \in Sector /\ x[1] = cmd.bank /\ x[2] \in Nat /\ x = <<x[1], x[2]>> /\ a \in Addr
      BY SectorMember, CellsAreAddresses DEF SectorsOf
    <2>2. CASE x[2] = drv.at
      BY <2>1, <2>2, <1>4, <1>d
    <2>3. CASE x[2] # drv.at
      <3>1. x[2] \in FirstSector..(drv.at - 1)
        BY <2>1, <2>3, <1>7, <1>8, <1>b
      <3>2. cell[a] = Erased
        BY <3>1, <1>4, <1>8 DEF ErasedIn
      <3> QED BY <3>2, <2>1, <1>3
    <2> QED BY <2>2, <2>3
  <1>9. ErasedIn(cmd.bank, FirstSector, drv.at - 1)'
    <2>1. drv'.at - 1 = drv.at
      BY <1>b, <1>1
    <2> QED BY <2>1, <1>8, <1>d, <1>6 DEF ErasedIn, SectorsOf
  <1>10. BanksBefore' /\ drv'.op = "erase" /\ drv'.reported = 0
         /\ drv'.bank = cmd'.bank /\ drv'.last = LastSector'
    BY <1>1, <1>4, <1>5, <1>6, <1>d DEF EraseSector
  <1> QED BY <1>2, <1>9, <1>10, <1>d DEF EraseSoFar

(* The call that starts an erase has nothing behind it. *)
LEMMA EraseStartSoFar ==
    ASSUME NEW b \in Bank, NEW f \in Nat, NEW l, FlashErase(b, f, l, 0),
           status' = "running", Erasing', BanksBefore',
           b = cmd'.bank, f = FirstSector', l = LastSector'
    PROVE  EraseSoFar'
  <1>1. CASE Return(ERR_PROTECTED, 0)
    <2>1. drv' = Idle /\ ~(rc' >= 0)
      BY <1>1 DEF Return
    <2> QED BY <2>1 DEF EraseSoFar
  <1>2. CASE drv' = [op |-> "erase", bank |-> b, at |-> f, last |-> l, reported |-> 0]
    <2>1. drv'.op = "erase" /\ drv'.bank = b /\ drv'.at = f /\ drv'.last = l
          /\ drv'.reported = 0 /\ drv' # Idle
      BY <1>2 DEF Idle
    <2>2. ASSUME NEW x \in SectorsOf(b) PROVE x[2] \notin f..(f - 1)
      BY SectorMember DEF SectorsOf
    <2>3. ErasedIn(cmd.bank, FirstSector, drv.at - 1)'
      BY <2>1, <2>2 DEF ErasedIn, SectorsOf
    <2> QED BY <2>1, <2>3 DEF EraseSoFar
  <1> QED BY <1>1, <1>2 DEF FlashErase

(* Every step keeps the part of the erase that is done. *)
LEMMA EraseDoneInv == IInv /\ EraseSoFar /\ [Next]_vars => EraseSoFar'
  <1> SUFFICES ASSUME IInv, EraseSoFar, [Next]_vars PROVE EraseSoFar'
    OBVIOUS
  <1>a. TypeOK /\ FlashTypeOK /\ DriverBusyOnlyInCommand
    BY DEF IInv, TypeOK
  <1>b. \A b \in Bank : NSect[b] \in Nat \ {0}
    BY GeometryAssumption
  <1>c. ~Erasing' => EraseSoFar'
    BY DEF EraseSoFar
  <1>1. CASE Driver
    <2>0. cmd' = cmd /\ status' = status /\ UNCHANGED cmdVars
      BY <1>1 DEF Driver, cmdVars
    <2>1. CASE EraseSector
      BY <2>0, <2>1, EraseSectorSoFar
    <2>2. CASE ~EraseSector
      <3> SUFFICES ASSUME Erasing, ~ctrlc_was_pressed' PROVE EraseSoFar'
        BY <2>0 DEF EraseSoFar, Erasing
      <3>0. drv.op \in {"erase", "write"}
        BY <1>1 DEF Driver, DriverStep, EraseSector, EraseError, EraseCtrlC, EraseReturn,
                    WriteCell, WriteNotErased, WriteError, WriteReturn
      <3>1. drv # Idle
        BY <3>0 DEF Idle
      <3>2. status = "running" /\ ~ctrlc_was_pressed
        BY <1>1, <1>a, <3>1
        DEF DriverBusyOnlyInCommand, Driver, DriverStep, EraseSector, EraseError, EraseCtrlC,
            EraseReturn, WriteCell, WriteNotErased, WriteError, WriteReturn, FlashTypeOK
      <3>3. /\ BanksBefore /\ drv.op = "erase" /\ drv.reported = 0
            /\ drv.bank = cmd.bank /\ drv.last = LastSector
            /\ ErasedIn(cmd.bank, FirstSector, drv.at - 1)
        BY <3>1, <3>2 DEF EraseSoFar
      <3>4. CASE EraseError
        <4>1. cell \in [Addr -> Value] /\ drv.at \in Nat /\ drv.bank \in Bank /\ drv.last \in Nat
          BY <1>a, <3>3, EraseCallType DEF FlashTypeOK
        <4>2. drv' = Idle /\ ~(rc' >= 0)
          BY <3>3, <3>4 DEF EraseError, Return
        <4>3. BanksBefore'
          <5> SUFFICES ASSUME cmd.name = "erase_all", NEW b \in Bank, b < cmd.bank,
                              NEW x \in SectorsOf(b), x[2] \in 0..(NSect[b] - 1),
                              NEW a \in CellsOf(x)
                       PROVE  cell'[a] = Erased
            BY <2>0 DEF BanksBefore, ErasedIn, SectorsOf
          <5>1. x \in Sector /\ a \in Addr /\ x[1] = b /\ b # drv.bank
            BY <3>3, <4>1, CellsAreAddresses DEF SectorsOf, Bank
          <5>2. cell[a] = Erased
            BY <3>3 DEF BanksBefore, ErasedIn
          <5>3. a \notin Exposed
            <6> SUFFICES ASSUME a \in CellsOf(<<drv.bank, drv.at>>), drv.at <= drv.last
                         PROVE  FALSE
              BY <3>3 DEF Exposed
            <6>1. drv.last < NSect[drv.bank] /\ NSect[drv.bank] \in Nat
              BY <3>3, <4>1, <1>b DEF IInv, DriverSafe
            <6>2. <<drv.bank, drv.at>> \in Sector
              BY <4>1, <6>1, SectorMember
            <6>3. x = <<drv.bank, drv.at>>
              BY <5>1, <6>2, SectorsDisjoint
            <6> QED BY <5>1, <6>3
          <5> QED BY <4>1, <5>1, <5>2, <5>3, <3>4, DisturbEffect DEF EraseError
        <4> QED BY <2>0, <3>2, <4>2, <4>3 DEF EraseSoFar
      <3>5. CASE EraseReturn
        <4>1. drv.at \in Nat /\ drv.last \in Nat /\ drv.at > drv.last
          BY <1>a, <3>3, <3>5, EraseCallType DEF EraseReturn
        <4>2. drv' = Idle /\ cell' = cell
          BY <3>5 DEF EraseReturn, Return
        <4>3. FirstSector \in Nat
          BY <1>a DEF FirstSector, TypeOK, NoCommand
        <4>4. FirstSector..LastSector \subseteq FirstSector..(drv.at - 1)
          BY <3>3, <4>1, <4>3
        <4>5. ErasedIn(cmd.bank, FirstSector, LastSector)
          BY <3>3, <4>4 DEF ErasedIn
        <4> QED BY <2>0, <3>2, <3>3, <4>2, <4>5
                DEF EraseSoFar, ErasedIn, BanksBefore, FirstSector, LastSector, SectorsOf
      <3> QED
        BY <1>1, <2>2, <3>3, <3>4, <3>5
        DEF Driver, DriverStep, EraseCtrlC, WriteCell, WriteNotErased, WriteError, WriteReturn
    <2> QED BY <2>1, <2>2
  <1>2. ASSUME NEW b \in Bank, NEW f \in 0..NSect[b] - 1, NEW l \in 0..NSect[b] - 1,
               EraseSectors(b, f, l)
        PROVE  EraseSoFar'
    <2>1. cmd' = [name |-> "erase_sectors", bank |-> b, f |-> f, l |-> l]
          /\ FlashErase(b, f, l, 0) /\ status' = "running" /\ f \in Nat
      BY <1>2, <1>b DEF EraseSectors
    <2>2. Erasing' /\ BanksBefore' /\ b = cmd'.bank /\ f = FirstSector' /\ l = LastSector'
      BY <2>1 DEF Erasing, BanksBefore, FirstSector, LastSector
    <2> QED BY <2>1, <2>2, EraseStartSoFar
  <1>3. CASE EraseAll
    <2>1. cmd' = [name |-> "erase_all", bank |-> 1] /\ FlashErase(1, 0, NSect[1] - 1, 0)
          /\ status' = "running" /\ 1 \in Bank
      BY <1>3, GeometryAssumption DEF EraseAll, Bank
    <2>2. Erasing' /\ cmd'.bank = 1 /\ FirstSector' = 0 /\ LastSector' = NSect[1] - 1
      BY <2>1 DEF Erasing, FirstSector, LastSector
    <2>3. BanksBefore'
      BY <2>1 DEF BanksBefore, Bank
    <2> QED BY <2>1, <2>2, <2>3, EraseStartSoFar
  <1>4. CASE EraseNextBank
    <2>1. cmd \in [name : {"erase_all"}, bank : Bank]
      BY <1>4, <1>a DEF EraseNextBank, TypeOK, NoCommand
    <2>2. /\ cmd'.name = "erase_all" /\ cmd'.bank = cmd.bank + 1
          /\ FlashErase(cmd.bank + 1, 0, NSect[cmd.bank + 1] - 1, 0)
          /\ status = "running" /\ status' = "running" /\ drv = Idle /\ rc >= 0
          /\ cell' = cell /\ ctrlc_was_pressed' = ctrlc_was_pressed
          /\ cmd.bank \in Bank /\ cmd.bank + 1 \in Bank
      BY <1>4, <2>1, GeometryAssumption DEF EraseNextBank, Bank, FlashErase
    <2>3. Erasing /\ Erasing'
      BY <2>1, <2>2 DEF Erasing
    <2>4. FirstSector' = 0 /\ LastSector' = NSect[cmd.bank + 1] - 1
          /\ FirstSector = 0 /\ LastSector = NSect[cmd.bank] - 1
      BY <2>1, <2>2 DEF FirstSector, LastSector
    <2>5. CASE ctrlc_was_pressed
      BY <2>2, <2>5 DEF EraseSoFar
    <2>6. CASE ~ctrlc_was_pressed
      <3>1. ErasedIn(cmd.bank, 0, NSect[cmd.bank] - 1) /\ BanksBefore
        BY <2>2, <2>3, <2>4, <2>6 DEF EraseSoFar
      <3>2. ASSUME NEW b \in Bank, b < cmd.bank + 1 PROVE ErasedIn(b, 0, NSect[b] - 1)
        <4>1. b < cmd.bank \/ b = cmd.bank
          BY <2>2, <3>2 DEF Bank
        <4> QED BY <2>1, <3>1, <4>1 DEF BanksBefore
      <3>3. BanksBefore'
        BY <2>2, <3>2 DEF BanksBefore, ErasedIn, SectorsOf
      <3> QED BY <2>2, <2>3, <2>4, <3>3, EraseStartSoFar
    <2> QED BY <2>5, <2>6
  <1>5. CASE CommandReturn
    <2>1. /\ drv = Idle /\ status = "running" /\ status' = Status(rc)
          /\ cmd.name = "erase_all" => rc < 0 \/ cmd.bank = Banks
          /\ UNCHANGED <<cell, cmd, ctrlc_was_pressed, rc, drv>>
      BY <1>5 DEF CommandReturn
    <2>2. status' = "ok" => rc >= 0 /\ ~(rc < 0)
      BY <1>a, <2>1 DEF Status, FlashTypeOK
    <2>3. status' # "running"
      BY <2>1 DEF Status
    <2> QED BY <2>1, <2>2, <2>3 DEF EraseSoFar, Erasing, BanksBefore, ErasedIn, FirstSector,
                                    LastSector, SectorsOf
  <1>6. CASE Prompt \/ Reset
    BY <1>6, <1>c DEF Prompt, Reset, Erasing, NoCommand
  <1>7. CASE Typed
    <2>1. ASSUME NEW r \in Ranges,
                 \/ EraseRange(r[1], r[2])
                 \/ \E p \in BOOLEAN : ProtectRange(p, r[1], r[2])
                 \/ \E data \in Sources : CopyToFlash(data, r[1], r[2])
          PROVE  ~Erasing'
      BY <2>1 DEF EraseRange, ProtectRange, CopyToFlash, Erasing
    <2>2. ASSUME NEW xs, NEW p \in BOOLEAN, ProtectSectors(p, xs) PROVE ~Erasing'
      BY <2>2 DEF ProtectSectors, Erasing, NoCommand
    <2> QED BY <1>7, <1>2, <1>3, <1>c, <2>1, <2>2 DEF Typed
  <1>8. CASE UNCHANGED vars
    BY <1>8 DEF vars, EraseSoFar, Erasing, BanksBefore, ErasedIn, FirstSector, LastSector,
                SectorsOf
  <1> QED BY <1>1, <1>4, <1>5, <1>6, <1>7, <1>8 DEF Next

-----------------------------------------------------------------------------
(* Every variable keeps its type, for any geometry and any command.         *)
THEOREM TypeCorrect == Spec => []TypeOK
  <1>1. IInv => TypeOK
    BY DEF IInv
  <1> QED BY InitInv, NextInv, <1>1, PTL DEF Spec

(* A command that is typed in modifies no cell yet. *)
LEMMA TypedQuiet ==
  ASSUME Typed
  PROVE  cell' = cell
  <1>1. ASSUME NEW b, NEW f, NEW l, NEW n, FlashErase(b, f, l, n)  PROVE cell' = cell
    BY <1>1 DEF FlashErase
  <1>2. ASSUME NEW from, NEW to, EraseRange(from, to)  PROVE cell' = cell
    BY <1>1, <1>2 DEF EraseRange, FlashSectErase
  <1>3. ASSUME NEW p, NEW from, NEW to, ProtectRange(p, from, to)  PROVE cell' = cell
    BY <1>3 DEF ProtectRange, FlashSectProtect
  <1>4. ASSUME NEW data, NEW from, NEW to, CopyToFlash(data, from, to)  PROVE cell' = cell
    BY <1>4 DEF CopyToFlash, FlashWrite
  <1>5. ASSUME NEW b, NEW f, NEW l, EraseSectors(b, f, l)  PROVE cell' = cell
    BY <1>1, <1>5 DEF EraseSectors
  <1>6. ASSUME NEW p, NEW xs, ProtectSectors(p, xs)  PROVE cell' = cell
    BY <1>6 DEF ProtectSectors
  <1>7. EraseAll => cell' = cell
    BY <1>1 DEF EraseAll
  <1> QED BY <1>2, <1>3, <1>4, <1>5, <1>6, <1>7 DEF Typed

(* No step modifies a protected sector: neither the erase loop nor the copy *)
(* loop, nor a power failure in the middle of one (flash_erase and          *)
(* flash_write look at info->protect[] once, before the first sector).      *)
THEOREM ProtectionHolds == Spec => ProtectedKept
  <1>1. IInv /\ [Next]_vars =>
          [\A x \in Sector : protect[x] => \A a \in CellsOf(x) : cell'[a] = cell[a]]_flashVars
    <2> SUFFICES ASSUME IInv, [Next]_vars, NEW x \in Sector, protect[x],
                        NEW a \in CellsOf(x), cell'[a] # cell[a]
                 PROVE  FALSE
      OBVIOUS
    <2>a. FlashTypeOK /\ DriverSafe /\ a \in Addr
      BY CellsAreAddresses DEF IInv, TypeOK
    <2>b. a \in Int /\ Start[x] <= a /\ a <= End[x] /\ Start[x] \in Nat /\ End[x] \in Nat
      BY GeometryAssumption DEF CellsOf
    <2>1. a \notin Exposed
      <3> SUFFICES ASSUME a \in Exposed PROVE FALSE
        OBVIOUS
      <3>1. CASE /\ drv.op = "erase" /\ drv.at <= drv.last
                 /\ a \in CellsOf(<<drv.bank, drv.at>>)
        <4>1. drv.bank \in Bank /\ drv.at \in Nat /\ drv.last \in Nat
              /\ drv.last < NSect[drv.bank] /\ NSect[drv.bank] \in Nat
          BY <2>a, <3>1, EraseCallType, GeometryAssumption DEF DriverSafe
        <4>2. <<drv.bank, drv.at>> \in Sector
          BY <3>1, <4>1, SectorMember
        <4>3. x = <<drv.bank, drv.at>>
          BY <3>1, <4>2, SectorsDisjoint
        <4>4. x \in SectorsOf(drv.bank) /\ x[2] \in drv.at..drv.last
          BY <3>1, <4>1, <4>3 DEF SectorsOf
        <4> QED BY <2>a, <3>1, <4>4 DEF DriverSafe
      <3>2. CASE /\ drv.op = "write" /\ drv.at <= drv.last
                 /\ a = drv.at
        <4>1. drv.at \in Nat /\ drv.last \in Nat
          BY <2>a, <3>2, WriteCallType
        <4>2. Overlaps(x, drv.at, drv.last)
          BY <2>b, <3>2, <4>1 DEF Overlaps
        <4> QED BY <2>a, <3>2, <4>2 DEF DriverSafe
      <3> QED BY <3>1, <3>2 DEF Exposed
    <2>2. cell \in [Addr -> Value]
      BY <2>a DEF FlashTypeOK
    <2>3. ~Disturb
      BY <2>1, <2>2, <2>a, DisturbEffect
    <2>4. cell' # cell
      OBVIOUS
    <2>5. CASE EraseSector
      BY <2>5, <2>1, <2>a DEF EraseSector, Exposed
    <2>6. CASE WriteCell
      BY <2>6, <2>1, <2>a DEF WriteCell, Exposed
    <2>7. CASE Driver
      BY <2>7, <2>3, <2>4, <2>5, <2>6
         DEF Driver, DriverStep, EraseError, EraseCtrlC, EraseReturn,
             WriteNotErased, WriteError, WriteReturn
    <2>8. CASE Typed
      BY <2>8, <2>4, TypedQuiet
    <2> QED
      BY <2>3, <2>4, <2>7, <2>8
         DEF Next, vars, Prompt, EraseNextBank, FlashErase, CommandReturn, Reset, FlashReset
  <1> QED BY InitInv, NextInv, <1>1, PTL DEF Spec, ProtectedKept

(* A command modifies no cell outside the range or the sectors it was given *)
(* (flash_sect_erase finds the first and the last sector by comparing       *)
(* addresses, flash_write cuts the range at the ends of the banks), also    *)
(* when the chip fails or the power goes away in the middle of it.          *)
THEOREM RangeHolds == Spec => OnlyTargetModified
  <1>1. Init => CallInTarget
    BY DEF Init, FlashInit, CallInTarget, Idle
  <1>2. IInv /\ CallInTarget /\ [Next]_vars =>
          [\A a \in Addr : cell'[a] # cell[a] => a \in Target]_vars
    <2> SUFFICES ASSUME IInv, CallInTarget, [Next]_vars,
                        NEW a \in Addr, cell'[a] # cell[a]
                 PROVE  a \in Target
      OBVIOUS
    <2>a. FlashTypeOK /\ DriverSafe /\ cell \in [Addr -> Value]
      BY DEF IInv, TypeOK, FlashTypeOK
    <2>1. ASSUME a \in Exposed PROVE a \in Target
      <3>1. CASE /\ drv.op = "erase" /\ drv.at <= drv.last
                 /\ a \in CellsOf(<<drv.bank, drv.at>>)
        <4>1. drv.bank \in Bank /\ drv.at \in Nat /\ drv.last \in Nat
              /\ drv.last < NSect[drv.bank] /\ NSect[drv.bank] \in Nat
          BY <2>a, <3>1, EraseCallType, GeometryAssumption DEF DriverSafe
        <4>2. <<drv.bank, drv.at>> \in Sector
          BY <3>1, <4>1, SectorMember
        <4>3. <<drv.bank, drv.at>> \in SectorsOf(drv.bank)
              /\ <<drv.bank, drv.at>>[2] \in drv.at..drv.last
          BY <3>1, <4>1, <4>2 DEF SectorsOf
        <4> QED BY <3>1, <4>3 DEF CallInTarget
      <3>2. CASE /\ drv.op = "write" /\ drv.at <= drv.last
                 /\ a = drv.at
        <4>1. drv.at \in Nat /\ drv.last \in Nat
          BY <2>a, <3>2, WriteCallType
        <4> QED BY <3>2, <4>1 DEF CallInTarget
      <3> QED BY <2>1, <3>1, <3>2 DEF Exposed
    <2>2. CASE Disturb
      BY <2>2, <2>1, <2>a, DisturbEffect
    <2>3. cell' # cell
      OBVIOUS
    <2>4. CASE EraseSector
      BY <2>4, <2>1, <2>a DEF EraseSector, Exposed
    <2>5. CASE WriteCell
      BY <2>5, <2>1, <2>a DEF WriteCell, Exposed
    <2>6. CASE Driver
      BY <2>6, <2>2, <2>3, <2>4, <2>5
         DEF Driver, DriverStep, EraseError, EraseCtrlC, EraseReturn,
             WriteNotErased, WriteError, WriteReturn
    <2>7. ~Typed
      BY <2>3, TypedQuiet
    <2> QED
      BY <2>2, <2>3, <2>6, <2>7
         DEF Next, vars, Prompt, EraseNextBank, FlashErase, CommandReturn, Reset, FlashReset
  <1> QED BY InitInv, NextInv, TargetInv, <1>1, <1>2, PTL DEF Spec, OnlyTargetModified

(* When cp says "done." (flash_write returned no error) every cell of the   *)
(* range holds the source, for any source and any contents before: a cell   *)
(* that cannot be programmed, a time-out or a protected sector in the       *)
(* middle of the copy is never passed over.                                 *)
THEOREM CopyHolds == Spec => []CopyComplete
  <1>1. Init => CopySoFar
    BY DEF Init, FlashInit, CopySoFar, Idle, NoCommand
  <1>2. CopySoFar => CopyComplete
    BY DEF CopySoFar, CopyComplete, Copied
  <1> QED BY InitInv, NextInv, CopyInv, <1>1, <1>2, PTL DEF Spec

(* When erase N:f-l or erase all says "Done." and nobody pressed ^C, every  *)
(* sector is erased: no error of a sector in the middle of the loop, or of  *)
(* a bank in the middle of erase all, is passed over (amd_flash_erase,      *)
(* int_flash_erase, do_flerase).                                            *)
THEOREM EraseHolds == Spec => []EraseComplete
  <1>1. Init => EraseSoFar
    BY DEF Init, FlashInit, EraseSoFar, Erasing, NoCommand
  <1>2. IInv /\ EraseSoFar => EraseComplete
    <2> SUFFICES ASSUME IInv, EraseSoFar, status = "ok", Erasing, ~ctrlc_was_pressed,
                        NEW a \in Target
                 PROVE  cell[a] = Erased
      BY DEF EraseComplete, Erasing
    <2>1. BanksBefore /\ ErasedIn(cmd.bank, FirstSector, LastSector)
          /\ (cmd.name = "erase_all" => cmd.bank = Banks)
      BY DEF EraseSoFar
    <2>2. CASE cmd.name = "erase_sectors"
      <3>1. PICK x \in SectorsOf(cmd.bank) : x[2] \in cmd.f..cmd.l /\ a \in CellsOf(x)
        BY <2>2 DEF Target
      <3> QED BY <2>1, <2>2, <3>1 DEF ErasedIn, FirstSector, LastSector
    <2>3. CASE cmd.name = "erase_all"
      <3>1. PICK x \in Sector : a \in CellsOf(x)
        BY <2>3 DEF Target, Addr
      <3>2. x[1] \in Bank /\ x[2] \in Nat /\ x[2] < NSect[x[1]] /\ x \in SectorsOf(x[1])
        BY SectorMember DEF SectorsOf
      <3>3. x[2] \in 0..(NSect[x[1]] - 1)
        BY <3>2, GeometryAssumption
      <3>4. x[1] < cmd.bank \/ x[1] = cmd.bank
        BY <2>1, <2>3, <3>2, GeometryAssumption DEF Bank
      <3>5. ErasedIn(x[1], 0, NSect[x[1]] - 1)
        BY <2>1, <2>3, <3>2, <3>4 DEF BanksBefore, FirstSector, LastSector
      <3> QED BY <3>1, <3>2, <3>3, <3>5 DEF ErasedIn
    <2> QED BY <2>2, <2>3 DEF Erasing
  <1> QED BY InitInv, NextInv, EraseDoneInv, <1>1, <1>2, PTL DEF Spec
=============================================================================

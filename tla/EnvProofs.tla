------------------------------ MODULE EnvProofs ------------------------------
(***************************************************************************)
(* Proofs about EnvStore, for every set of variables, every flash geometry *)
(* and every behaviour of the chip and of the power supply.                *)
(***************************************************************************)
EXTENDS EnvStore, TLAPS, SequenceTheorems, FiniteSetTheorems

(* Every variable fits in the environment: CFG_ENV_SIZE is larger than a    *)
(* command line on every board.  Without it a too long definition of an     *)
(* existing variable leaves a list whose CRC is that of the list before.    *)
RoomForEntry == \A e \in Entry : ~TooLong(e)

(* Only lists of this build were ever written to the flash. *)
Records == [at : EnvCells, of : List]
RecordsOK ==
    \A a \in EnvCells : cell[a] \in Records => cell[a].of \in ListOf(build.entry)

VariablesOK ==
    /\ FlashTypeOK
    /\ build \in Builds
    /\ env \in ListOf(build.entry) /\ env_crc \in ListOf(build.entry)
    /\ board \in [Mirrored -> {e[2] : e \in Entry} \cup {Absent}]
    /\ pc \in {"boot", "prompt", "erase", "erased", "write"}
    /\ result \in Int
    /\ pc = "boot" => env = <<>>
    /\ RecordsOK

(* The driver works for saveenv only, and a write has put the block into    *)
(* the cells behind it.                                                     *)
WrittenTo(last) ==
    \A a \in EnvCells : a <= last => cell[a] = Block(env_crc, env)[a]

CallOK ==
    /\ pc \in {"boot", "prompt", "erase"} => drv = Idle
    /\ drv.op = "erase" => pc = "erased"
    /\ drv.op = "write" =>
          /\ pc = "write" /\ drv.data = Block(env_crc, env) /\ drv.last = EnvLast
          /\ drv.at \in EnvFirst..EnvLast + 1
          /\ WrittenTo(drv.at - 1)
    /\ pc = "write" /\ drv = Idle /\ rc >= 0 => WrittenTo(EnvLast)

(* Only saveenv takes protection away, and from sectors it will give it     *)
(* back to.                                                                 *)
ProtectOK ==
    \A x \in BootProtect :
        ~protect[x] => /\ pc \in {"erase", "erased", "write"}
                       /\ x \in SectProtected(EnvFirst, EnvLast)

IInv == VariablesOK /\ CallOK /\ ProtectOK

(* What holds in addition where every variable fits: the CRC is that of the *)
(* list, and the rate is one of the table in RAM and in flash.              *)
HasRate(l) == Lookup(l, Baudrate) \in Rates

RateInv ==
    /\ env_crc = env
    /\ pc # "boot" => HasRate(env)
    /\ \A a \in EnvCells : cell[a] \in Records => HasRate(cell[a].of)
    /\ \A n \in Mirrored : Lookup(env, n) # Absent => board[n] = Lookup(env, n)

USE DEF ERR_OK, ERR_TIMOUT, ERR_NOT_ERASED, ERR_PROTECTED, ERR_INVAL, ERR_ALIGN,
        ERR_PROG_ERROR, DriverErrors

-----------------------------------------------------------------------------
(* The geometry of sectors and banks. *)

(* A pair is a sector when its bank has that many sectors. *)
LEMMA SectorMember ==
    /\ \A b \in Bank, i \in Nat : i < NSect[b] => <<b, i>> \in Sector
    /\ \A x \in Sector : /\ x[1] \in Bank /\ x[2] \in Nat /\ x[2] < NSect[x[1]]
                         /\ x = <<x[1], x[2]>>
  BY GeometryAssumption, SMT DEF Sector, Bank

(* Addresses are numbers. *)
LEMMA AddrIsNat == Addr \subseteq Nat
  BY GeometryAssumption, SMT DEF Addr, CellsOf

(* The sectors from the one that starts at from to the one that ends at to  *)
(* have no cell outside from..to.                                           *)
LEMMA CellsInRange ==
    ASSUME NEW b \in Bank, NEW f \in 0..NSect[b] - 1, NEW l \in 0..NSect[b] - 1,
           NEW x \in SectorsOf(b), x[2] \in f..l
    PROVE  CellsOf(x) \subseteq Start[<<b, f>>]..End[<<b, l>>]
  <1>0. b \in Nat /\ NSect[b] \in Nat \ {0}
    BY GeometryAssumption DEF Bank
  <1>1. <<b, f>> \in Sector /\ <<b, l>> \in Sector
    BY <1>0, SectorMember
  <1>2. x \in Sector /\ x[1] = b /\ x[2] \in Nat /\ x = <<b, x[2]>>
    BY SectorMember DEF SectorsOf
  <1>3. /\ Start[<<b, f>>] \in Nat /\ End[<<b, f>>] \in Nat /\ Start[<<b, f>>] <= End[<<b, f>>]
        /\ Start[<<b, l>>] \in Nat /\ End[<<b, l>>] \in Nat /\ Start[<<b, l>>] <= End[<<b, l>>]
        /\ Start[x] \in Nat /\ End[x] \in Nat
    BY <1>1, <1>2, GeometryAssumption
  <1>4. Start[<<b, f>>] <= Start[x]
    <2>1. CASE x[2] = f
      BY <2>1, <1>2, <1>3
    <2>2. CASE f < x[2]
      <3>1. End[<<b, f>>] < Start[x]
        BY <2>2, <1>1, <1>2, OrderAssumption
      <3> QED BY <3>1, <1>3
    <2> QED BY <2>1, <2>2, <1>0, <1>2
  <1>5. End[x] <= End[<<b, l>>]
    <2>1. CASE x[2] = l
      BY <2>1, <1>2, <1>3
    <2>2. CASE x[2] < l
      <3>1. End[x] < Start[<<b, l>>]
        BY <2>2, <1>1, <1>2, OrderAssumption
      <3> QED BY <3>1, <1>3
    <2> QED BY <2>1, <2>2, <1>0, <1>2
  <1> QED BY <1>3, <1>4, <1>5 DEF CellsOf

(* The sectors whose protection flash_sect_protect changes meet the range. *)
LEMMA ProtectedInRange ==
    ASSUME NEW from, NEW to, NEW x \in SectProtected(from, to)
    PROVE  x \in Sector /\ Overlaps(x, from, to)
  <1>1. PICK b \in Bank : x \in WholeSectors(b, from, to)
    BY DEF SectProtected
  <1>2. PICK f \in SectorsOf(b), l \in SectorsOf(b) :
            Start[f] = from /\ End[l] = to /\ f[2] <= x[2] /\ x[2] <= l[2]
    BY <1>1 DEF WholeSectors
  <1>3. x \in SectorsOf(b) /\ x \in Sector
    BY <1>1 DEF WholeSectors, SectorsOf
  <1>4. /\ f = <<b, f[2]>> /\ l = <<b, l[2]>> /\ x[2] \in Nat
        /\ f[2] \in Nat /\ f[2] < NSect[b] /\ l[2] \in Nat /\ l[2] < NSect[b]
    BY <1>3, SectorMember DEF SectorsOf
  <1>5. f[2] \in 0..NSect[b] - 1 /\ l[2] \in 0..NSect[b] - 1 /\ x[2] \in f[2]..l[2]
    BY <1>2, <1>4, GeometryAssumption
  <1>6. CellsOf(x) \subseteq from..to
    BY <1>2, <1>3, <1>4, <1>5, CellsInRange
  <1>7. Start[x] \in CellsOf(x) /\ End[x] \in CellsOf(x)
        /\ Start[x] \in Nat /\ End[x] \in Nat
    BY <1>3, GeometryAssumption DEF CellsOf
  <1> QED BY <1>3, <1>6, <1>7 DEF Overlaps

-----------------------------------------------------------------------------
(* Steps of the driver. *)

(* An operation cut short leaves noise, and touches exposed cells only. *)
LEMMA DisturbEffect ==
    ASSUME cell \in [Addr -> Value], Disturb
    PROVE  /\ cell' \in [Addr -> Value]
           /\ \A a \in Addr : cell'[a] # cell[a] => a \in Exposed /\ cell'[a] \in Noise
  <1>1. PICK hit \in SUBSET Exposed : \E left \in [hit -> Noise] :
            cell' = [a \in Addr |-> IF a \in hit THEN left[a] ELSE cell[a]]
    BY DEF Disturb
  <1>2. PICK left \in [hit -> Noise] :
            cell' = [a \in Addr |-> IF a \in hit THEN left[a] ELSE cell[a]]
    BY <1>1
  <1>3. \A a \in hit : left[a] \in Value
    BY <1>2, ValueAssumption
  <1>4. cell' \in [Addr -> Value]
    BY <1>2, <1>3
  <1>5. \A a \in Addr : cell'[a] # cell[a] => a \in hit /\ cell'[a] \in Noise
    BY <1>2
  <1> QED BY <1>4, <1>5

(* The type of drv, case by case. *)
LEMMA EraseCallType ==
    ASSUME FlashTypeOK, drv.op = "erase"
    PROVE  /\ drv \in EraseCall
           /\ drv.bank \in Bank /\ drv.at \in Nat /\ drv.last \in Nat /\ drv.reported \in Nat
  BY DEF FlashTypeOK, Idle, EraseCall, WriteCall

(* The driver call in progress has the type of its operation. *)
LEMMA WriteCallType ==
    ASSUME FlashTypeOK, drv.op = "write"
    PROVE  /\ drv \in WriteCall
           /\ drv.at \in Nat /\ drv.last \in Nat /\ drv.data \in [Addr -> Value]
  BY DEF FlashTypeOK, Idle, EraseCall, WriteCall

(* The return of a driver call. *)
LEMMA ReturnType ==
    ASSUME NEW code \in Int, NEW reported \in Nat, Return(code, reported)
    PROVE  drv' = Idle /\ rc' \in Int /\ (reported = 0 => rc' = code)
  BY DEF Return

(* The steps of a driver call. *)
LEMMA DriverType ==
    ASSUME FlashTypeOK, DriverStep
    PROVE  FlashTypeOK'
  <1>1. CASE EraseSector
    <2>1. drv \in EraseCall /\ drv.at \in Nat
      BY <1>1, EraseCallType DEF EraseSector
    <2>2. drv' \in EraseCall
      BY <1>1, <2>1 DEF EraseSector, EraseCall
    <2>3. cell' \in [Addr -> Value]
      BY <1>1, ValueAssumption DEF EraseSector, FlashTypeOK
    <2> QED BY <1>1, <2>2, <2>3 DEF EraseSector, FlashTypeOK
  <1>2. CASE EraseError
    <2>1. drv.reported \in Nat /\ cell' \in [Addr -> Value]
      BY <1>2, EraseCallType, DisturbEffect DEF EraseError, FlashTypeOK
    <2>2. drv' = Idle /\ rc' \in Int
      BY <1>2, <2>1, ReturnType DEF EraseError
    <2> QED BY <1>2, <2>1, <2>2 DEF EraseError, FlashTypeOK
  <1>3. CASE EraseCtrlC
    <2>1. drv' = Idle /\ rc' \in Int
      BY <1>3, EraseCallType, ReturnType DEF EraseCtrlC
    <2> QED BY <1>3, <2>1 DEF EraseCtrlC, FlashTypeOK
  <1>4. CASE EraseReturn
    <2>1. drv' = Idle /\ rc' \in Int
      BY <1>4, EraseCallType, ReturnType DEF EraseReturn
    <2> QED BY <1>4, <2>1 DEF EraseReturn, FlashTypeOK
  <1>5. CASE WriteCell
    <2>1. drv \in WriteCall /\ drv.at \in Nat /\ drv.data \in [Addr -> Value]
      BY <1>5, WriteCallType DEF WriteCell
    <2>2. drv' \in WriteCall
      BY <1>5, <2>1 DEF WriteCell, WriteCall
    <2>3. cell' \in [Addr -> Value]
      BY <1>5, <2>1 DEF WriteCell, FlashTypeOK
    <2> QED BY <1>5, <2>2, <2>3 DEF WriteCell, FlashTypeOK
  <1>6. CASE WriteNotErased
    <2>1. drv' = Idle /\ rc' \in Int
      BY <1>6, ReturnType DEF WriteNotErased
    <2> QED BY <1>6, <2>1 DEF WriteNotErased, FlashTypeOK
  <1>7. CASE WriteError
    <2>1. drv' = Idle /\ rc' \in Int
      BY <1>7, ReturnType DEF WriteError
    <2>2. cell' \in [Addr -> Value]
      BY <1>7, DisturbEffect DEF WriteError, FlashTypeOK
    <2> QED BY <1>7, <2>1, <2>2 DEF WriteError, FlashTypeOK
  <1>8. CASE WriteReturn
    <2>1. drv' = Idle /\ rc' \in Int
      BY <1>8, ReturnType DEF WriteReturn
    <2> QED BY <1>8, <2>1 DEF WriteReturn, FlashTypeOK
  <1> QED BY <1>1, <1>2, <1>3, <1>4, <1>5, <1>6, <1>7, <1>8 DEF DriverStep

(* A reset. *)
LEMMA ResetType ==
    ASSUME FlashTypeOK, FlashReset
    PROVE  FlashTypeOK'
  <1>1. cell' \in [Addr -> Value]
    BY DisturbEffect DEF FlashReset, FlashTypeOK
  <1>2. protect' \in [Sector -> BOOLEAN]
    BY DEF FlashReset
  <1>3. drv' = Idle /\ rc' = ERR_OK
    BY DEF FlashReset
  <1>4. ctrlc_was_pressed' \in BOOLEAN
    BY DEF FlashReset
  <1> QED BY <1>1, <1>2, <1>3, <1>4 DEF FlashTypeOK

(* The calls of common/flash.c. *)
LEMMA SectProtectType ==
    ASSUME FlashTypeOK, NEW p \in BOOLEAN, NEW from, NEW to, FlashSectProtect(p, from, to)
    PROVE  FlashTypeOK'
  BY DEF FlashSectProtect, SetProtect, FlashTypeOK

(* An erase is started for sectors of one bank, or returns a count or 0. *)
LEMMA SectEraseType ==
    ASSUME FlashTypeOK, NEW from, NEW to, FlashSectErase(from, to)
    PROVE  FlashTypeOK' /\ (drv' = Idle \/ drv'.op = "erase") /\ cell' = cell
  <1>1. ASSUME NEW b \in Bank, NEW f \in 0..NSect[b] - 1, NEW l \in 0..NSect[b] - 1,
               f <= l, FlashErase(b, f, l, l - f + 1)
        PROVE  FlashTypeOK' /\ (drv' = Idle \/ drv'.op = "erase") /\ cell' = cell
    <2>1. f \in Nat /\ l \in Nat /\ l - f + 1 \in Nat
      BY <1>1, GeometryAssumption
    <2>2. CASE Return(ERR_PROTECTED, l - f + 1)
      <3>1. drv' = Idle /\ rc' \in Int
        BY <2>1, <2>2, ReturnType
      <3> QED BY <1>1, <3>1 DEF FlashErase, FlashTypeOK
    <2>3. CASE drv' = [op |-> "erase", bank |-> b, at |-> f, last |-> l,
                       reported |-> l - f + 1] /\ rc' = rc
      <3>1. drv' \in EraseCall
        BY <2>1, <2>3 DEF EraseCall
      <3> QED BY <1>1, <2>3, <3>1 DEF FlashErase, FlashTypeOK
    <2> QED BY <1>1, <2>2, <2>3 DEF FlashErase
  <1>2. CASE Return(ERR_OK, 0) /\ UNCHANGED <<protect, cell, ctrlc_was_pressed>>
    <2>1. drv' = Idle /\ rc' \in Int
      BY <1>2, ReturnType
    <2> QED BY <1>2, <2>1 DEF FlashTypeOK
  <1> QED BY <1>1, <1>2 DEF FlashSectErase

(* A copy is started, or an error is returned. *)
LEMMA FlashWriteType ==
    ASSUME FlashTypeOK, NEW data \in [Addr -> Value], NEW from \in Nat, NEW to \in Nat,
           from <= to, FlashWrite(data, from, to)
    PROVE  /\ FlashTypeOK' /\ cell' = cell /\ protect' = protect
           /\ \/ drv' = Idle /\ rc' < 0
              \/ drv' = [op |-> "write", at |-> from, last |-> to, data |-> data]
  <1>1. CASE Return(ERR_INVAL, 0) \/ Return(ERR_PROTECTED, 0)
    <2>1. drv' = Idle /\ rc' \in Int /\ rc' < 0
      BY <1>1 DEF Return
    <2> QED BY <2>1 DEF FlashWrite, FlashTypeOK
  <1>2. CASE drv' = [op |-> "write", at |-> from, last |-> to, data |-> data] /\ rc' = rc
    <2>1. drv' \in WriteCall
      BY <1>2 DEF WriteCall
    <2> QED BY <1>2, <2>1 DEF FlashWrite, FlashTypeOK
  <1> QED BY <1>1, <1>2 DEF FlashWrite

(* What a step of the driver may do to a cell. *)
LEMMA CellChange ==
    ASSUME FlashTypeOK, DriverStep \/ FlashReset,
           NEW a \in Addr, cell'[a] # cell[a]
    PROVE  \/ cell'[a] \in Noise \cup {Erased}
           \/ WriteCell /\ drv.at = a /\ cell'[a] = drv.data[a]
  <1>1. cell \in [Addr -> Value]
    BY DEF FlashTypeOK
  <1>2. Disturb => cell'[a] \in Noise
    BY <1>1, DisturbEffect
  <1>3. EraseSector => cell'[a] = Erased
    BY DEF EraseSector
  <1>4. WriteCell => drv.at = a /\ cell'[a] = drv.data[a]
    BY DEF WriteCell
  <1> QED
    BY <1>2, <1>3, <1>4 DEF DriverStep, FlashReset, EraseError, EraseCtrlC, EraseReturn,
       WriteNotErased, WriteError, WriteReturn

-----------------------------------------------------------------------------
(* Lists of variables. *)

(* There are finitely many names. *)
LEMMA NamesFinite == IsFiniteSet(Name) /\ Cardinality(Name) \in Nat
  <1> DEFINE f == [e \in Entry |-> e[1]]
  <1>1. f \in Surjection(Entry, Name)
    BY DEF Name, Surjection
  <1>2. IsFiniteSet(Name)
    BY <1>1, FS_Surjection, EnvAssumption
  <1> QED BY <1>2, FS_CardinalityType

(* A list of variables is a sequence in which no name is twice; that it is  *)
(* not longer than the set of names follows.                                *)
LEMMA ListMember ==
    ASSUME NEW b \in Builds, NEW l
    PROVE  l \in ListOf(b.entry) <=>
              /\ l \in Seq(b.entry)
              /\ \A i, j \in 1..Len(l) : l[i][1] = l[j][1] => i = j
  <1>1. ASSUME l \in ListOf(b.entry)
        PROVE  /\ l \in Seq(b.entry)
               /\ \A i, j \in 1..Len(l) : l[i][1] = l[j][1] => i = j
    <2>1. PICK n \in 0..Cardinality(Name) : l \in [1..n -> b.entry]
      BY <1>1 DEF ListOf
    <2>2. n \in Nat
      BY NamesFinite
    <2>3. l \in Seq(b.entry)
      BY <2>1, <2>2, SeqDef
    <2>4. DOMAIN l = 1..Len(l)
      BY <2>3, LenProperties
    <2> QED BY <1>1, <2>3, <2>4 DEF ListOf
  <1>2. ASSUME l \in Seq(b.entry),
               \A i, j \in 1..Len(l) : l[i][1] = l[j][1] => i = j
        PROVE  l \in ListOf(b.entry)
    <2>1. Len(l) \in Nat /\ DOMAIN l = 1..Len(l) /\ l \in [1..Len(l) -> b.entry]
      BY <1>2, LenProperties
    <2> DEFINE g == [i \in 1..Len(l) |-> l[i][1]]
    <2>2. \A i \in 1..Len(l) : l[i] \in Entry
      BY <2>1 DEF Entry
    <2>3. g \in Injection(1..Len(l), Name)
      BY <1>2, <2>2 DEF Injection, IsInjective, Name
    <2>4. Cardinality(1..Len(l)) <= Cardinality(Name)
      BY <2>3, NamesFinite, FS_Injection
    <2>5. Cardinality(1..Len(l)) = Len(l)
      BY <2>1, FS_Interval
    <2>6. Len(l) \in 0..Cardinality(Name)
      BY <2>1, <2>4, <2>5, NamesFinite
    <2>7. l \in UNION {[1..n -> b.entry] : n \in 0..Cardinality(Name)}
      BY <2>1, <2>6
    <2> QED BY <1>2, <2>1, <2>7 DEF ListOf
  <1> QED BY <1>1, <1>2

(* The value of a variable is the one it has in its only entry. *)
LEMMA LookupIs ==
    ASSUME NEW b \in Builds, NEW l \in ListOf(b.entry)
    PROVE  /\ \A i \in 1..Len(l) : Lookup(l, l[i][1]) = l[i][2]
           /\ \A n : (\A i \in 1..Len(l) : l[i][1] # n) => Lookup(l, n) = Absent
           /\ \A n : Lookup(l, n) # Absent => \E i \in 1..Len(l) : l[i][1] = n
           /\ \A i \in 1..Len(l) : l[i] \in b.entry /\ l[i][2] # Absent
  <1>1. /\ l \in Seq(b.entry) /\ DOMAIN l = 1..Len(l)
        /\ \A i, j \in 1..Len(l) : l[i][1] = l[j][1] => i = j
    BY ListMember, LenProperties
  <1>2. ToSet(l) = {l[i] : i \in 1..Len(l)}
    BY <1>1 DEF ToSet
  <1>3. ASSUME NEW i \in 1..Len(l) PROVE Lookup(l, l[i][1]) = l[i][2]
    <2>1. l[i] \in ToSet(l)
      BY <1>2
    <2>2. \A e \in ToSet(l) : e[1] = l[i][1] => e = l[i]
      BY <1>1, <1>2
    <2>3. (CHOOSE e \in ToSet(l) : e[1] = l[i][1]) = l[i]
      BY <2>1, <2>2
    <2> QED BY <2>1, <2>3 DEF Lookup
  <1>4. ASSUME NEW n, \A i \in 1..Len(l) : l[i][1] # n PROVE Lookup(l, n) = Absent
    BY <1>2, <1>4 DEF Lookup
  <1>5. ASSUME NEW i \in 1..Len(l) PROVE l[i] \in b.entry /\ l[i][2] # Absent
    <2>1. l[i] \in b.entry
      BY <1>1, ElementOfSeq
    <2> QED BY <2>1, EnvAssumption DEF Entry
  <1> QED BY <1>3, <1>4, <1>5

(* A sequence without its element at place i. *)
LEMMA RemoveAtElements ==
    ASSUME NEW S, NEW s \in Seq(S), NEW i \in 1..Len(s)
    PROVE  /\ RemoveAt(s, i) \in Seq(S)
           /\ Len(RemoveAt(s, i)) = Len(s) - 1
           /\ \A j \in 1..Len(s) - 1 :
                 RemoveAt(s, i)[j] = IF j < i THEN s[j] ELSE s[j + 1]
  <1>1. Len(s) \in Nat /\ \A j \in 1..Len(s) : s[j] \in S
    BY LenProperties, ElementOfSeq
  <1>2. /\ SubSeq(s, 1, i - 1) \in Seq(S)
        /\ Len(SubSeq(s, 1, i - 1)) = i - 1
        /\ \A j \in 1..i - 1 : SubSeq(s, 1, i - 1)[j] = s[j]
    <2>1. 1 \in Int /\ i - 1 \in Int /\ \A j \in 1..i - 1 : s[j] \in S
      BY <1>1
    <2> DEFINE t == SubSeq(s, 1, i - 1)
    <2>2. /\ t \in Seq(S)
          /\ Len(t) = IF 1 <= i - 1 THEN i - 1 - 1 + 1 ELSE 0
          /\ \A j \in 1..i - 1 - 1 + 1 : t[j] = s[1 + j - 1]
      BY <2>1, SubSeqProperties
    <2> QED BY <2>2, <1>1
  <1>3. /\ SubSeq(s, i + 1, Len(s)) \in Seq(S)
        /\ Len(SubSeq(s, i + 1, Len(s))) = Len(s) - i
        /\ \A j \in 1..Len(s) - i : SubSeq(s, i + 1, Len(s))[j] = s[i + j]
    <2>1. i + 1 \in Int /\ Len(s) \in Int /\ \A j \in i + 1..Len(s) : s[j] \in S
      BY <1>1
    <2> DEFINE t == SubSeq(s, i + 1, Len(s))
    <2>2. /\ t \in Seq(S)
          /\ Len(t) = IF i + 1 <= Len(s) THEN Len(s) - (i + 1) + 1 ELSE 0
          /\ \A j \in 1..Len(s) - (i + 1) + 1 : t[j] = s[i + 1 + j - 1]
      BY <2>1, SubSeqProperties
    <2> QED BY <2>2, <1>1
  <1> DEFINE u == SubSeq(s, 1, i - 1)
             v == SubSeq(s, i + 1, Len(s))
  <1>4. /\ u \o v \in Seq(S)
        /\ Len(u \o v) = Len(u) + Len(v)
        /\ \A j \in 1..Len(u) + Len(v) :
              (u \o v)[j] = IF j <= Len(u) THEN u[j] ELSE v[j - Len(u)]
    BY <1>2, <1>3, ConcatProperties
  <1>5. RemoveAt(s, i) = u \o v
    BY DEF RemoveAt
  <1>6. /\ Len(u) = i - 1 /\ Len(v) = Len(s) - i
        /\ \A j \in 1..i - 1 : u[j] = s[j]
        /\ \A j \in 1..Len(s) - i : v[j] = s[i + j]
    BY <1>2, <1>3
  <1> HIDE DEF u, v
  <1>7. ASSUME NEW j \in 1..Len(s) - 1
        PROVE  (u \o v)[j] = IF j < i THEN s[j] ELSE s[j + 1]
    <2>1. CASE j < i
      BY <2>1, <1>1, <1>4, <1>6
    <2>2. CASE ~(j < i)
      <3>1. j - (i - 1) \in 1..Len(s) - i /\ i + (j - (i - 1)) = j + 1
        BY <2>2, <1>1
      <3>2. v[j - (i - 1)] = s[j + 1]
        BY <3>1, <1>6
      <3> QED BY <2>2, <3>2, <1>1, <1>4, <1>6
    <2> QED BY <2>1, <2>2
  <1>8. Len(u \o v) = Len(s) - 1
    BY <1>1, <1>4, <1>6
  <1> QED BY <1>4, <1>5, <1>7, <1>8

(* Without deletes one variable and keeps the others. *)
LEMMA WithoutEffect ==
    ASSUME NEW b \in Builds, NEW l \in ListOf(b.entry), NEW n
    PROVE  /\ Without(l, n) \in ListOf(b.entry)
           /\ Lookup(Without(l, n), n) = Absent
           /\ \A m : m # n => Lookup(Without(l, n), m) = Lookup(l, m)
  <1>1. /\ l \in Seq(b.entry) /\ DOMAIN l = 1..Len(l) /\ Len(l) \in Nat
        /\ \A i, j \in 1..Len(l) : l[i][1] = l[j][1] => i = j
    BY ListMember, LenProperties
  <1>2. CASE ~ \E i \in 1..Len(l) : l[i][1] = n
    <2>1. Without(l, n) = l
      BY <1>1, <1>2 DEF Without
    <2>2. Lookup(l, n) = Absent
      BY <1>2, LookupIs
    <2> QED BY <2>1, <2>2
  <1>3. CASE \E i \in 1..Len(l) : l[i][1] = n
    <2> DEFINE k == CHOOSE i \in DOMAIN l : l[i][1] = n
    <2> DEFINE w == RemoveAt(l, k)
    <2>1. k \in 1..Len(l) /\ l[k][1] = n /\ Without(l, n) = w
      BY <1>1, <1>3 DEF Without
    <2> HIDE DEF k
    <2>2. /\ w \in Seq(b.entry) /\ Len(w) = Len(l) - 1
          /\ \A j \in 1..Len(l) - 1 : w[j] = IF j < k THEN l[j] ELSE l[j + 1]
      BY <1>1, <2>1, RemoveAtElements
    <2> HIDE DEF w
    <2>3. \A i, j \in 1..Len(w) : w[i][1] = w[j][1] => i = j
      <3> SUFFICES ASSUME NEW i \in 1..Len(w), NEW j \in 1..Len(w), w[i][1] = w[j][1]
                   PROVE  i = j
        OBVIOUS
      <3> DEFINE p(x) == IF x < k THEN x ELSE x + 1
      <3>1. p(i) \in 1..Len(l) /\ p(j) \in 1..Len(l) /\ w[i] = l[p(i)] /\ w[j] = l[p(j)]
        BY <1>1, <2>1, <2>2
      <3>2. p(i) = p(j)
        BY <3>1, <1>1
      <3> QED BY <3>2, <1>1, <2>1, <2>2
    <2>4. w \in ListOf(b.entry)
      BY <2>2, <2>3, ListMember
    <2>5. \A j \in 1..Len(w) : w[j][1] # n
      <3> SUFFICES ASSUME NEW j \in 1..Len(w), w[j][1] = n PROVE FALSE
        OBVIOUS
      <3>1. CASE j < k
        <4>1. w[j] = l[j] /\ j \in 1..Len(l)
          BY <3>1, <1>1, <2>2
        <4> QED BY <4>1, <3>1, <1>1, <2>1
      <3>2. CASE ~(j < k)
        <4>1. w[j] = l[j + 1] /\ j + 1 \in 1..Len(l)
          BY <3>2, <1>1, <2>2
        <4> QED BY <4>1, <3>2, <1>1, <2>1
      <3> QED BY <3>1, <3>2
    <2>6. Lookup(w, n) = Absent
      BY <2>4, <2>5, LookupIs
    <2>7. ASSUME NEW m, m # n PROVE Lookup(w, m) = Lookup(l, m)
      <3>1. CASE \E i \in 1..Len(l) : l[i][1] = m
        <4>1. PICK i \in 1..Len(l) : l[i][1] = m
          BY <3>1
        <4>2. i # k
          BY <4>1, <2>1, <2>7
        <4>3. PICK j \in 1..Len(w) : w[j] = l[i]
          <5>1. CASE i < k
            <6>1. i \in 1..Len(w) /\ w[i] = l[i]
              BY <5>1, <1>1, <2>1, <2>2
            <6> QED BY <6>1
          <5>2. CASE k < i
            <6>1. i - 1 \in 1..Len(w) /\ ~(i - 1 < k) /\ i - 1 + 1 = i
              BY <5>2, <1>1, <2>1, <2>2
            <6>2. w[i - 1] = l[i]
              BY <6>1, <1>1, <2>2
            <6> QED BY <6>1, <6>2
          <5> QED BY <5>1, <5>2, <4>2, <1>1, <2>1
        <4>4. Lookup(w, w[j][1]) = w[j][2] /\ Lookup(l, l[i][1]) = l[i][2]
          BY <2>4, LookupIs
        <4> QED BY <4>1, <4>3, <4>4
      <3>2. CASE ~ \E i \in 1..Len(l) : l[i][1] = m
        <4>1. \A j \in 1..Len(w) : \E i \in 1..Len(l) : w[j] = l[i]
          BY <1>1, <2>1, <2>2
        <4>2. \A j \in 1..Len(w) : w[j][1] # m
          BY <3>2, <4>1
        <4> QED BY <3>2, <4>2, <2>4, LookupIs
      <3> QED BY <3>1, <3>2
    <2> QED BY <2>1, <2>4, <2>6, <2>7
  <1> QED BY <1>2, <1>3

(* Append adds a variable that was not there. *)
LEMMA AppendEffect ==
    ASSUME NEW b \in Builds, NEW l \in ListOf(b.entry), NEW e \in b.entry,
           Lookup(l, e[1]) = Absent
    PROVE  /\ Append(l, e) \in ListOf(b.entry)
           /\ Lookup(Append(l, e), e[1]) = e[2]
           /\ \A m : m # e[1] => Lookup(Append(l, e), m) = Lookup(l, m)
  <1> DEFINE w == Append(l, e)
  <1>1. /\ l \in Seq(b.entry) /\ Len(l) \in Nat
        /\ \A i, j \in 1..Len(l) : l[i][1] = l[j][1] => i = j
    BY ListMember, LenProperties
  <1>2. /\ w \in Seq(b.entry) /\ Len(w) = Len(l) + 1 /\ w[Len(l) + 1] = e
        /\ \A i \in 1..Len(l) : w[i] = l[i]
    BY <1>1, AppendProperties
  <1>3. \A i \in 1..Len(l) : l[i][1] # e[1]
    BY LookupIs
  <1> HIDE DEF w
  <1>4. \A i, j \in 1..Len(w) : w[i][1] = w[j][1] => i = j
    BY <1>1, <1>2, <1>3
  <1>5. w \in ListOf(b.entry)
    BY <1>2, <1>4, ListMember
  <1>6. \A i \in 1..Len(w) : Lookup(w, w[i][1]) = w[i][2]
    BY <1>5, LookupIs
  <1>7. Lookup(w, e[1]) = e[2]
    <2>1. Len(l) + 1 \in 1..Len(w)
      BY <1>1, <1>2
    <2> QED BY <2>1, <1>2, <1>6
  <1>8. ASSUME NEW m, m # e[1] PROVE Lookup(w, m) = Lookup(l, m)
    <2>1. CASE \E i \in 1..Len(l) : l[i][1] = m
      <3>1. PICK i \in 1..Len(l) : l[i][1] = m
        BY <2>1
      <3>2. i \in 1..Len(w) /\ w[i] = l[i]
        BY <1>1, <1>2
      <3>3. Lookup(l, l[i][1]) = l[i][2]
        BY LookupIs
      <3> QED BY <3>1, <3>2, <3>3, <1>6
    <2>2. CASE ~ \E i \in 1..Len(l) : l[i][1] = m
      <3>1. \A i \in 1..Len(w) : i \in 1..Len(l) \/ i = Len(l) + 1
        BY <1>1, <1>2
      <3>2. \A i \in 1..Len(w) : w[i][1] # m
        BY <2>2, <3>1, <1>2, <1>8
      <3>3. Lookup(w, m) = Absent /\ Lookup(l, m) = Absent
        BY <2>2, <3>2, <1>5, LookupIs
      <3> QED BY <3>3
    <2> QED BY <2>1, <2>2
  <1> QED BY <1>5, <1>7, <1>8 DEF w

(* What setenv makes of the list. *)
LEMMA SetEnvList ==
    ASSUME NEW b \in Builds, NEW l \in ListOf(b.entry), NEW e \in b.entry
    PROVE  /\ <<e[1], e[2]>> = e
           /\ Without(l, e[1]) \in ListOf(b.entry)
           /\ Append(Without(l, e[1]), <<e[1], e[2]>>) \in ListOf(b.entry)
           /\ Lookup(Append(Without(l, e[1]), <<e[1], e[2]>>), e[1]) = e[2]
           /\ \A m : m # e[1] =>
                 Lookup(Append(Without(l, e[1]), <<e[1], e[2]>>), m) = Lookup(l, m)
  <1>1. <<e[1], e[2]>> = e
    BY EnvAssumption DEF Entry
  <1>2. /\ Without(l, e[1]) \in ListOf(b.entry)
        /\ Lookup(Without(l, e[1]), e[1]) = Absent
        /\ \A m : m # e[1] => Lookup(Without(l, e[1]), m) = Lookup(l, m)
    BY WithoutEffect
  <1> QED BY <1>1, <1>2, AppendEffect

(* The board data are values of variables, or none. *)
LEMMA BoardType ==
    ASSUME NEW b \in Builds, NEW l \in ListOf(b.entry)
    PROVE  BoardData(l) \in [Mirrored -> {e[2] : e \in Entry} \cup {Absent}]
  <1>1. \A n : Lookup(l, n) \in {e[2] : e \in Entry} \cup {Absent}
    <2>1. \A i \in 1..Len(l) : l[i] \in Entry /\ Lookup(l, l[i][1]) = l[i][2]
      BY LookupIs DEF Entry
    <2> QED BY <2>1, LookupIs
  <1>2. ConfigRate \in {e[2] : e \in Entry}
    BY EnvAssumption
  <1> QED BY <1>1, <1>2 DEF BoardData

-----------------------------------------------------------------------------
(* The block in flash. *)

(* A list of one of the builds is a list. *)
LEMMA ListOfBuild ==
    ASSUME NEW b \in Builds, NEW l \in ListOf(b.entry)
    PROVE  l \in List
  BY DEF List

(* The cells of a block are records of the list they belong to, and nothing *)
(* an erase or a failure leaves.                                            *)
LEMMA BlockCells ==
    ASSUME NEW c \in List, NEW l \in List
    PROVE  /\ Block(c, l) \in [Addr -> Value]
           /\ \A a \in EnvCells :
                 /\ a \in Addr /\ a \in Nat
                 /\ Block(c, l)[a] \in Records
                 /\ Block(c, l)[a] \notin Noise \cup {Erased}
                 /\ Block(c, l)[a].of = IF a = EnvFirst THEN c ELSE l
  <1>1. ASSUME NEW a \in EnvCells
        PROVE  /\ a \in Addr /\ a \in Nat
               /\ Block(c, l)[a] \in Records
               /\ Block(c, l)[a] \notin Noise \cup {Erased}
               /\ Block(c, l)[a] \in Value
               /\ Block(c, l)[a].of = IF a = EnvFirst THEN c ELSE l
    <2>1. a \in Addr /\ a \in Nat
      BY EnvAssumption, AddrIsNat
    <2>2. Block(c, l)[a] = [at |-> a, of |-> IF a = EnvFirst THEN c ELSE l]
      BY <2>1 DEF Block
    <2>3. Block(c, l)[a] \in Records
      BY <2>2 DEF Records
    <2> QED BY <2>1, <2>2, <2>3, BlockAssumption DEF Records
  <1>2. ASSUME NEW a \in Addr PROVE Block(c, l)[a] \in Value
    <2>1. CASE a \in EnvCells
      BY <2>1, <1>1
    <2>2. CASE a \notin EnvCells
      BY <2>2, ValueAssumption DEF Block
    <2> QED BY <2>1, <2>2
  <1>3. Block(c, l) \in [Addr -> Value]
    BY <1>2 DEF Block
  <1> QED BY <1>1, <1>3

(* The first cell of the environment is one of its cells. *)
LEMMA FirstCell == EnvFirst \in EnvCells /\ EnvLast \in EnvCells
  BY EnvAssumption DEF EnvCells

(* An erased cell is no part of a block. *)
LEMMA ErasedCell == ASSUME NEW v \in Noise \cup {Erased} PROVE v \notin Records
  BY BlockAssumption DEF Records

(* Two lists are not stored at the same time, and a stored one is one of    *)
(* this build.                                                              *)
LEMMA StoredUnique ==
    /\ \A l, m \in StoredLists : l = m
    /\ RecordsOK => StoredLists \subseteq ListOf(build.entry)
  <1>1. ASSUME NEW l \in StoredLists
        PROVE  l \in List /\ cell[EnvFirst] \in Records /\ cell[EnvFirst].of = l
    BY FirstCell, BlockCells DEF StoredLists
  <1>2. \A l, m \in StoredLists : l = m
    BY <1>1
  <1>3. RecordsOK => StoredLists \subseteq ListOf(build.entry)
    BY <1>1, FirstCell DEF RecordsOK
  <1> QED BY <1>2, <1>3

-----------------------------------------------------------------------------
(* The first environment is empty; the flash may hold one saved earlier.    *)
LEMMA InitInv == Init => IInv
  <1> SUFFICES ASSUME Init PROVE IInv
    OBVIOUS
  <1>1. /\ protect = [x \in Sector |-> x \in BootProtect] /\ drv = Idle /\ rc = ERR_OK
        /\ ctrlc_was_pressed = FALSE /\ cell \in [Addr -> Value]
        /\ build \in Builds /\ env = <<>> /\ env_crc = <<>>
        /\ board = BoardData(<<>>) /\ pc = "boot" /\ result = 0
    BY DEF Init, FlashInit
  <1>2. FlashTypeOK
    <2>1. protect \in [Sector -> BOOLEAN]
      BY <1>1
    <2>2. rc = ERR_OK /\ ctrlc_was_pressed = FALSE
      BY <1>1
    <2>3. rc \in Int
      BY <2>2
    <2>4. ctrlc_was_pressed \in BOOLEAN
      BY <2>2
    <2> QED BY <1>1, <2>1, <2>3, <2>4 DEF FlashTypeOK
  <1>3. <<>> \in ListOf(build.entry)
    <2>1. <<>> \in Seq(build.entry) /\ Len(<<>>) = 0
      BY EmptySeq
    <2>2. 1..Len(<<>>) = {}
      BY <2>1
    <2> QED BY <1>1, <2>1, <2>2, ListMember
  <1>4. board \in [Mirrored -> {e[2] : e \in Entry} \cup {Absent}]
    BY <1>1, <1>3, BoardType
  <1>5. RecordsOK
    <2>1. PICK l \in ListOf(build.entry) : cell \in {Block(l, l), [a \in Addr |-> Erased]}
      BY DEF Init
    <2>2. CASE cell = Block(l, l)
      <3>1. l \in List
        BY <1>1, <2>1, ListOfBuild
      <3>2. \A a \in EnvCells : Block(l, l)[a].of = l
        BY <3>1, BlockCells
      <3> QED BY <2>1, <2>2, <3>2 DEF RecordsOK
    <2>3. CASE cell = [a \in Addr |-> Erased]
      BY <2>3, EnvAssumption, ErasedCell DEF RecordsOK
    <2> QED BY <2>1, <2>2, <2>3
  <1>6. VariablesOK
    BY <1>1, <1>2, <1>3, <1>4, <1>5 DEF VariablesOK
  <1>7. CallOK
    BY <1>1 DEF CallOK, Idle
  <1>8. ProtectOK
    BY <1>1, ValueAssumption DEF ProtectOK
  <1> QED BY <1>6, <1>7, <1>8 DEF IInv

(* When the driver rests before saveenv has erased, there is nothing to say *)
(* about calls.                                                             *)
LEMMA RestingCallOK ==
    ASSUME drv' = Idle, pc' \in {"boot", "prompt", "erase"}
    PROVE  CallOK'
  BY DEF CallOK, Idle

(* setenv *)
LEMMA SetEnvInv ==
    ASSUME IInv, NEW e \in build.entry, SetEnv(e[1], e[2])
    PROVE  IInv'
  <1> USE DEF IInv
  <1>1. /\ pc = "prompt" /\ pc' = "prompt" /\ build' = build /\ build \in Builds
        /\ protect' = protect /\ cell' = cell /\ drv' = drv /\ rc' = rc
        /\ ctrlc_was_pressed' = ctrlc_was_pressed /\ drv = Idle
    BY DEF SetEnv, flashVars, VariablesOK, CallOK
  <1>2. FlashTypeOK'
    BY <1>1 DEF VariablesOK, FlashTypeOK
  <1>3. env' \in ListOf(build'.entry) /\ env_crc' \in ListOf(build'.entry)
    <2>1. env \in ListOf(build.entry) /\ env_crc \in ListOf(build.entry)
      BY DEF VariablesOK
    <2>2. /\ Without(env, e[1]) \in ListOf(build.entry)
          /\ Append(Without(env, e[1]), <<e[1], e[2]>>) \in ListOf(build.entry)
      BY <1>1, <2>1, SetEnvList
    <2>3. env' \in ListOf(build.entry) /\ env_crc' \in {env_crc, env'}
      BY <2>1, <2>2 DEF SetEnv
    <2> QED BY <1>1, <2>1, <2>3
  <1>4. board' \in [Mirrored -> {x[2] : x \in Entry} \cup {Absent}]
    <2>1. e \in Entry
      BY <1>1 DEF Entry
    <2>2. board' = board \/ board' = BoardAfter(e[1], e[2])
      BY DEF SetEnv
    <2> QED BY <2>1, <2>2 DEF BoardAfter, VariablesOK
  <1>5. result' \in Int
    BY DEF SetEnv
  <1>6. RecordsOK'
    BY <1>1 DEF VariablesOK, RecordsOK
  <1>7. VariablesOK'
    BY <1>1, <1>2, <1>3, <1>4, <1>5, <1>6 DEF VariablesOK
  <1>8. CallOK'
    BY <1>1, RestingCallOK
  <1>9. ProtectOK'
    BY <1>1 DEF ProtectOK
  <1> QED BY <1>7, <1>8, <1>9

(* setenv without a value *)
LEMMA DeleteEnvInv ==
    ASSUME IInv, NEW e \in build.entry, DeleteEnv(e[1])
    PROVE  IInv'
  <1> USE DEF IInv
  <1>1. /\ pc = "prompt" /\ pc' = "prompt" /\ build' = build /\ build \in Builds
        /\ protect' = protect /\ cell' = cell /\ drv' = drv /\ rc' = rc
        /\ ctrlc_was_pressed' = ctrlc_was_pressed /\ drv = Idle /\ board' = board
    BY DEF DeleteEnv, flashVars, VariablesOK, CallOK
  <1>2. FlashTypeOK'
    BY <1>1 DEF VariablesOK, FlashTypeOK
  <1>3. env' \in ListOf(build'.entry) /\ env_crc' \in ListOf(build'.entry)
    BY <1>1, WithoutEffect DEF VariablesOK, DeleteEnv
  <1>4. result' \in Int
    BY DEF DeleteEnv
  <1>5. RecordsOK'
    BY <1>1 DEF VariablesOK, RecordsOK
  <1>6. VariablesOK'
    BY <1>1, <1>2, <1>3, <1>4, <1>5 DEF VariablesOK
  <1>7. CallOK'
    BY <1>1, RestingCallOK
  <1>8. ProtectOK'
    BY <1>1 DEF ProtectOK
  <1> QED BY <1>6, <1>7, <1>8

(* A boot reads a list of this build, or the default one. *)
LEMMA RelocatedList ==
    ASSUME VariablesOK
    PROVE  /\ Relocated \in ListOf(build.entry)
           /\ Relocated = Default \/ Relocated \in StoredLists
  <1>1. Relocated = Default \/ Relocated \in StoredLists
    BY DEF Relocated
  <1>2. Default \in ListOf(build.entry) /\ StoredLists \subseteq ListOf(build.entry)
    BY EnvAssumption, StoredUnique DEF VariablesOK
  <1> QED BY <1>1, <1>2

(* start_armboot *)
LEMMA BootInv == ASSUME IInv, Boot PROVE IInv'
  <1> USE DEF IInv
  <1>1. /\ pc = "boot" /\ pc' = "prompt" /\ build' = build /\ build \in Builds
        /\ protect' = protect /\ cell' = cell /\ drv' = drv /\ rc' = rc
        /\ ctrlc_was_pressed' = ctrlc_was_pressed /\ drv = Idle
        /\ env' = Relocated /\ env_crc' = env' /\ board' = BoardData(env')
        /\ result' = result
    BY DEF Boot, flashVars, VariablesOK, CallOK
  <1>2. FlashTypeOK'
    BY <1>1 DEF VariablesOK, FlashTypeOK
  <1>3. env' \in ListOf(build'.entry)
    BY <1>1, RelocatedList
  <1>4. board' \in [Mirrored -> {e[2] : e \in Entry} \cup {Absent}]
    BY <1>1, <1>3, BoardType
  <1>5. RecordsOK'
    BY <1>1 DEF VariablesOK, RecordsOK
  <1>6. VariablesOK'
    BY <1>1, <1>2, <1>3, <1>4, <1>5 DEF VariablesOK
  <1>7. CallOK'
    BY <1>1, RestingCallOK
  <1>8. ProtectOK'
    BY <1>1 DEF ProtectOK
  <1> QED BY <1>6, <1>7, <1>8

(* A cell that was not written by the driver holds no new record. *)
LEMMA RecordsKept ==
    ASSUME VariablesOK, build' = build, DriverStep \/ FlashReset,
           drv.op = "write" => drv.data = Block(env_crc, env)
    PROVE  RecordsOK'
  <1> SUFFICES ASSUME NEW a \in EnvCells, cell'[a] \in Records
               PROVE  cell'[a].of \in ListOf(build.entry)
    BY DEF RecordsOK
  <1>1. /\ env \in ListOf(build.entry) /\ env_crc \in ListOf(build.entry)
        /\ env \in List /\ env_crc \in List /\ a \in Addr
    BY ListOfBuild, EnvAssumption DEF VariablesOK
  <1>2. CASE cell'[a] = cell[a]
    BY <1>2 DEF VariablesOK, RecordsOK
  <1>3. CASE cell'[a] # cell[a]
    <2>1. drv.op = "write" /\ cell'[a] = drv.data[a]
      BY <1>1, <1>3, CellChange, ErasedCell DEF VariablesOK, WriteCell
    <2> QED BY <2>1, <1>1, BlockCells
  <1> QED BY <1>2, <1>3

(* A power failure *)
LEMMA ResetInv == ASSUME IInv, Reset PROVE IInv'
  <1> USE DEF IInv
  <1>1. /\ FlashReset /\ pc' = "boot" /\ build' = build /\ build \in Builds
        /\ protect' = [x \in Sector |-> x \in BootProtect] /\ drv' = Idle
        /\ env' = <<>> /\ env_crc' = <<>> /\ board' = BoardData(<<>>) /\ result' = 0
    BY DEF Reset, FlashReset, VariablesOK
  <1>2. FlashTypeOK'
    BY <1>1, ResetType DEF VariablesOK
  <1>3. <<>> \in ListOf(build.entry)
    <2>1. <<>> \in Seq(build.entry) /\ Len(<<>>) = 0
      BY EmptySeq
    <2>2. 1..Len(<<>>) = {}
      BY <2>1
    <2> QED BY <1>1, <2>1, <2>2, ListMember
  <1>4. board' \in [Mirrored -> {e[2] : e \in Entry} \cup {Absent}]
    BY <1>1, <1>3, BoardType
  <1>5. RecordsOK'
    BY <1>1, RecordsKept DEF CallOK
  <1>6. VariablesOK'
    BY <1>1, <1>2, <1>3, <1>4, <1>5 DEF VariablesOK
  <1>7. CallOK'
    BY <1>1, RestingCallOK
  <1>8. ProtectOK'
    BY <1>1, ValueAssumption DEF ProtectOK
  <1> QED BY <1>6, <1>7, <1>8

(* What saveenv and its driver calls leave alone. *)
LEMMA SavingVariables ==
    ASSUME VariablesOK, FlashTypeOK', RecordsOK', UNCHANGED <<build, env, env_crc, board>>,
           pc' \in {"prompt", "erase", "erased", "write"}, result' \in Int
    PROVE  VariablesOK'
  BY DEF VariablesOK

(* flash_sect_protect leaves the cells, and the sectors out of range. *)
LEMMA ProtectEffect ==
    ASSUME NEW p, FlashSectProtect(p, EnvFirst, EnvLast)
    PROVE  /\ drv = Idle /\ drv' = Idle /\ cell' = cell
           /\ \A x \in BootProtect :
                 protect'[x] = IF x \in SectProtected(EnvFirst, EnvLast) THEN p ELSE protect[x]
           /\ rc' < 0 => SectProtected(EnvFirst, EnvLast) = {}
  BY ValueAssumption DEF FlashSectProtect, SetProtect

(* saveenv takes the protection away. *)
LEMMA SaveEnvInv == ASSUME IInv, SaveEnv PROVE IInv'
  <1> USE DEF IInv
  <1>1. /\ FlashSectProtect(FALSE, EnvFirst, EnvLast)
        /\ UNCHANGED <<build, env, env_crc, board>>
        /\ pc = "prompt" /\ pc' = (IF rc' < 0 THEN "prompt" ELSE "erase")
        /\ result' \in {1, result}
    BY DEF SaveEnv
  <1>2. FlashTypeOK'
    BY <1>1, SectProtectType DEF VariablesOK
  <1>3. RecordsOK'
    BY <1>1, ProtectEffect DEF VariablesOK, RecordsOK
  <1>4. VariablesOK'
    BY <1>1, <1>2, <1>3, SavingVariables DEF VariablesOK
  <1>5. CallOK'
    BY <1>1, ProtectEffect, RestingCallOK
  <1>6. ProtectOK'
    BY <1>1, ProtectEffect DEF ProtectOK
  <1> QED BY <1>4, <1>5, <1>6

(* The erase is started, or refused. *)
LEMMA SaveEraseInv == ASSUME IInv, SaveErase PROVE IInv'
  <1> USE DEF IInv
  <1>1. /\ FlashSectErase(EnvFirst, EnvLast)
        /\ UNCHANGED <<build, env, env_crc, board, result>>
        /\ pc = "erase" /\ pc' = "erased"
    BY DEF SaveErase
  <1>2. FlashTypeOK' /\ (drv' = Idle \/ drv'.op = "erase") /\ cell' = cell
    BY <1>1, SectEraseType DEF VariablesOK
  <1>3. RecordsOK'
    BY <1>1, <1>2 DEF VariablesOK, RecordsOK
  <1>4. VariablesOK'
    BY <1>1, <1>2, <1>3, SavingVariables DEF VariablesOK
  <1>5. CallOK'
    BY <1>1, <1>2 DEF CallOK, Idle
  <1>6. protect' = protect
    BY <1>1 DEF FlashSectErase, FlashErase
  <1>7. ProtectOK'
    BY <1>1, <1>6 DEF ProtectOK
  <1> QED BY <1>4, <1>5, <1>7

(* The write is started after the erase, or saveenv gives up. *)
LEMMA SaveWriteInv == ASSUME IInv, SaveWrite PROVE IInv'
  <1> USE DEF IInv
  <1>0. /\ env \in List /\ env_crc \in List
        /\ EnvFirst \in Nat /\ EnvLast \in Nat /\ EnvFirst <= EnvLast
    BY ListOfBuild, EnvAssumption DEF VariablesOK
  <1>1. pc = "erased" /\ drv = Idle /\ UNCHANGED <<build, env, env_crc, board>>
    BY DEF SaveWrite
  <1>2. CASE rc < 0
    <2>1. FlashSectProtect(TRUE, EnvFirst, EnvLast) /\ pc' = "prompt" /\ result' = 1
      BY <1>2 DEF SaveWrite
    <2>2. FlashTypeOK'
      BY <2>1, SectProtectType DEF VariablesOK
    <2>3. RecordsOK'
      BY <1>1, <2>1, ProtectEffect DEF VariablesOK, RecordsOK
    <2>4. VariablesOK'
      BY <1>1, <2>1, <2>2, <2>3, SavingVariables
    <2>5. CallOK'
      BY <2>1, ProtectEffect, RestingCallOK
    <2>6. ProtectOK'
      BY <2>1, ProtectEffect DEF ProtectOK
    <2> QED BY <2>4, <2>5, <2>6
  <1>3. CASE ~(rc < 0)
    <2>1. /\ FlashWrite(Block(env_crc, env), EnvFirst, EnvLast)
          /\ pc' = "write" /\ result' = result
      BY <1>3 DEF SaveWrite
    <2>2. /\ FlashTypeOK' /\ cell' = cell /\ protect' = protect
          /\ \/ drv' = Idle /\ rc' < 0
             \/ drv' = [op |-> "write", at |-> EnvFirst, last |-> EnvLast,
                        data |-> Block(env_crc, env)]
      <3>1. Block(env_crc, env) \in [Addr -> Value]
        BY <1>0, BlockCells
      <3> QED BY <1>0, <2>1, <3>1, FlashWriteType DEF VariablesOK
    <2>3. RecordsOK'
      BY <1>1, <2>2 DEF VariablesOK, RecordsOK
    <2>4. VariablesOK'
      BY <1>1, <2>1, <2>2, <2>3, SavingVariables DEF VariablesOK
    <2>5. CallOK'
      <3>1. CASE drv' = Idle /\ rc' < 0
        <4>1. rc' \in Int
          BY <2>2 DEF FlashTypeOK
        <4> QED BY <3>1, <2>1, <4>1 DEF CallOK, Idle
      <3>2. CASE drv' = [op |-> "write", at |-> EnvFirst, last |-> EnvLast,
                         data |-> Block(env_crc, env)]
        <4>1. /\ drv'.op = "write" /\ drv'.at = EnvFirst /\ drv'.last = EnvLast
              /\ drv'.data = Block(env_crc', env') /\ drv' # Idle
          BY <3>2, <1>1 DEF Idle
        <4>2. WrittenTo(drv.at - 1)'
          BY <4>1, <1>0 DEF WrittenTo, EnvCells
        <4>3. drv'.at \in EnvFirst..EnvLast + 1
          BY <4>1, <1>0
        <4> QED BY <4>1, <4>2, <4>3, <2>1 DEF CallOK
      <3> QED BY <2>2, <3>1, <3>2
    <2>6. ProtectOK'
      BY <1>1, <2>1, <2>2 DEF ProtectOK
    <2> QED BY <2>4, <2>5, <2>6
  <1> QED BY <1>2, <1>3

(* saveenv puts the protection back. *)
LEMMA SaveReturnInv == ASSUME IInv, SaveReturn PROVE IInv'
  <1> USE DEF IInv
  <1>1. /\ FlashSectProtect(TRUE, EnvFirst, EnvLast)
        /\ UNCHANGED <<build, env, env_crc, board>>
        /\ pc = "write" /\ pc' = "prompt" /\ result' = 0
    BY DEF SaveReturn
  <1>2. FlashTypeOK'
    BY <1>1, SectProtectType DEF VariablesOK
  <1>3. RecordsOK'
    BY <1>1, ProtectEffect DEF VariablesOK, RecordsOK
  <1>4. VariablesOK'
    BY <1>1, <1>2, <1>3, SavingVariables
  <1>5. CallOK'
    BY <1>1, ProtectEffect, RestingCallOK
  <1>6. ProtectOK'
    BY <1>1, ProtectEffect DEF ProtectOK
  <1> QED BY <1>4, <1>5, <1>6

(* A turn of the driver. *)
LEMMA DriverInv == ASSUME IInv, Driver PROVE IInv'
  <1> USE DEF IInv
  <1>1. DriverStep /\ UNCHANGED <<build, env, env_crc, board, pc, result>> /\ FlashTypeOK
    BY DEF Driver, envVars, VariablesOK
  <1>2. VariablesOK'
    <2>1. FlashTypeOK'
      BY <1>1, DriverType
    <2>2. RecordsOK'
      BY <1>1, RecordsKept DEF CallOK
    <2>3. drv.op \in {"erase", "write"}
      BY <1>1 DEF DriverStep, EraseSector, EraseError, EraseCtrlC, EraseReturn, WriteCell,
         WriteNotErased, WriteError, WriteReturn
    <2>4. pc \in {"erased", "write"}
      BY <2>3 DEF CallOK
    <2> QED BY <1>1, <2>1, <2>2, <2>4, SavingVariables DEF VariablesOK
  <1>3. protect' = protect
    BY <1>1 DEF DriverStep, EraseSector, EraseError, EraseCtrlC, EraseReturn, WriteCell,
       WriteNotErased, WriteError, WriteReturn
  <1>4. ProtectOK'
    BY <1>1, <1>3 DEF ProtectOK
  <1>5. ASSUME drv.op = "erase" PROVE CallOK'
    <2>1. drv \in EraseCall /\ pc' = "erased"
      BY <1>1, <1>5, EraseCallType DEF CallOK
    <2>2. drv' = Idle \/ drv' = [drv EXCEPT !.at = @ + 1]
      BY <1>1, <1>5 DEF DriverStep, EraseSector, EraseError, EraseCtrlC, EraseReturn,
         WriteCell, WriteNotErased, WriteError, WriteReturn, Return
    <2>3. drv'.op \in {"idle", "erase"}
      BY <2>1, <2>2 DEF Idle, EraseCall
    <2> QED BY <2>1, <2>3 DEF CallOK
  <1>6. ASSUME drv.op = "write" PROVE CallOK'
    <2>1. /\ drv \in WriteCall /\ pc = "write" /\ pc' = "write"
          /\ drv.data = Block(env_crc, env) /\ drv.last = EnvLast
          /\ drv.at \in EnvFirst..EnvLast + 1 /\ WrittenTo(drv.at - 1)
          /\ EnvFirst \in Nat /\ EnvLast \in Nat
      BY <1>1, <1>6, WriteCallType, EnvAssumption DEF CallOK
    <2>2. CASE WriteCell
      <3>1. /\ drv' = [drv EXCEPT !.at = @ + 1] /\ drv.at <= EnvLast
            /\ cell' = [a \in Addr |-> IF a = drv.at THEN drv.data[a] ELSE cell[a]]
        BY <2>1, <2>2 DEF WriteCell
      <3>2. /\ drv'.op = "write" /\ drv'.at = drv.at + 1 /\ drv'.last = EnvLast
            /\ drv'.data = Block(env_crc', env')
        BY <1>1, <2>1, <3>1 DEF WriteCall
      <3>3. WrittenTo(drv.at - 1)'
        <4> SUFFICES ASSUME NEW a \in EnvCells, a <= drv'.at - 1
                     PROVE  cell'[a] = Block(env_crc, env)[a]
          BY <1>1 DEF WrittenTo
        <4>1. a \in Addr /\ a \in Int
          BY EnvAssumption DEF EnvCells
        <4>2. a = drv.at \/ a <= drv.at - 1
          BY <4>1, <2>1, <3>2
        <4> QED BY <4>1, <4>2, <2>1, <3>1 DEF WrittenTo
      <3>4. drv' # Idle
        BY <3>2 DEF Idle
      <3>5. drv'.at \in EnvFirst..EnvLast + 1
        BY <2>1, <3>1, <3>2
      <3> QED BY <2>1, <3>2, <3>3, <3>4, <3>5 DEF CallOK
    <2>3. CASE WriteNotErased \/ WriteError
      <3>1. drv' = Idle /\ rc' \in Int /\ rc' < 0
        BY <2>3 DEF WriteNotErased, WriteError, Return
      <3> QED BY <2>1, <3>1 DEF CallOK, Idle
    <2>4. CASE WriteReturn
      <3>1. drv.at > EnvLast /\ drv' = Idle /\ cell' = cell
        BY <2>1, <2>4 DEF WriteReturn, Return
      <3>2. WrittenTo(EnvLast)'
        <4>1. \A a \in EnvCells : a <= drv.at - 1
          BY <2>1, <3>1 DEF EnvCells
        <4> QED BY <1>1, <2>1, <3>1, <4>1 DEF WrittenTo
      <3> QED BY <2>1, <3>1, <3>2 DEF CallOK, Idle
    <2> QED BY <1>1, <1>6, <2>2, <2>3, <2>4 DEF DriverStep, EraseSector, EraseError,
            EraseCtrlC, EraseReturn
  <1>7. drv.op \in {"erase", "write"}
    BY <1>1 DEF DriverStep, EraseSector, EraseError, EraseCtrlC, EraseReturn, WriteCell,
       WriteNotErased, WriteError, WriteReturn
  <1> QED BY <1>2, <1>4, <1>5, <1>6, <1>7

(* The prompt forgets a ^C; and a step that changes nothing. *)
LEMMA PromptInv ==
    ASSUME IInv, UNCHANGED <<protect, cell, drv, rc, build, env, env_crc, board, pc, result>>,
           ctrlc_was_pressed' \in BOOLEAN
    PROVE  IInv'
  <1> USE DEF IInv
  <1>1. FlashTypeOK'
    BY DEF VariablesOK, FlashTypeOK
  <1>2. RecordsOK'
    BY DEF VariablesOK, RecordsOK
  <1>3. VariablesOK'
    BY <1>1, <1>2 DEF VariablesOK
  <1>4. CallOK'
    BY DEF CallOK, WrittenTo
  <1>5. ProtectOK'
    BY DEF ProtectOK
  <1> QED BY <1>3, <1>4, <1>5

(* Every step keeps the invariant. *)
LEMMA NextInv == ASSUME IInv, [Next]_vars PROVE IInv'
  <1>1. CASE \E e \in build.entry : SetEnv(e[1], e[2])
    BY <1>1, SetEnvInv
  <1>2. CASE \E e \in build.entry : DeleteEnv(e[1])
    BY <1>2, DeleteEnvInv
  <1>3. CASE SaveEnv
    BY <1>3, SaveEnvInv
  <1>4. CASE SaveErase
    BY <1>4, SaveEraseInv
  <1>5. CASE SaveWrite
    BY <1>5, SaveWriteInv
  <1>6. CASE SaveReturn
    BY <1>6, SaveReturnInv
  <1>7. CASE Driver
    BY <1>7, DriverInv
  <1>8. CASE Prompt
    <2>1. ctrlc_was_pressed' \in BOOLEAN
      BY <1>8 DEF Prompt
    <2> QED BY <1>8, <2>1, PromptInv DEF Prompt, envVars
  <1>9. CASE Boot
    BY <1>9, BootInv
  <1>10. CASE Reset
    BY <1>10, ResetInv
  <1>11. CASE UNCHANGED vars
    <2>1. ctrlc_was_pressed' \in BOOLEAN
      BY <1>11 DEF vars, IInv, VariablesOK, FlashTypeOK
    <2> QED BY <1>11, <2>1, PromptInv DEF vars
  <1> QED BY <1>1, <1>2, <1>3, <1>4, <1>5, <1>6, <1>7, <1>8, <1>9, <1>10, <1>11 DEF Next

(* The invariant holds. *)
LEMMA Invariance == Spec => []IInv
  <1> QED BY InitInv, NextInv, PTL DEF Spec

-----------------------------------------------------------------------------
(* The variables have their types in every state, among them that no name   *)
(* is in the list twice, though _do_setenv deletes only the first           *)
(* definition it finds (cmd_nvedit.c:265).                                  *)
THEOREM TypeCorrect == Spec => []TypeOK
  <1>1. IInv => TypeOK
    BY DEF IInv, VariablesOK, TypeOK, List
  <1> QED BY <1>1, Invariance, PTL

(* saveenv takes the protection from the sectors of the environment alone,  *)
(* and gives it back to every one of them before the prompt returns.        *)
THEOREM ProtectionReturns == Spec => []BootSectorsProtected
  <1>1. IInv => BootSectorsProtected
    BY ProtectedInRange DEF IInv, ProtectOK, BootSectorsProtected
  <1> QED BY <1>1, Invariance, PTL

(* serial# and ethaddr keep their values until the next boot, where the     *)
(* board was not built with CONFIG_ENV_OVERWRITE.                           *)
THEOREM OnceWritten == Spec => WriteOnceKept
  <1> DEFINE Kept == \A n \in build.once : Lookup(env, n) # Absent =>
                        Lookup(env', n) = Lookup(env, n) \/ pc' = "boot"
  <1>1. ASSUME IInv, [Next]_vars PROVE [Kept]_vars
    <2> SUFFICES ASSUME NEW n \in build.once, Lookup(env, n) # Absent
                 PROVE  Lookup(env', n) = Lookup(env, n) \/ pc' = "boot"
      BY <1>1
    <2>1. build \in Builds /\ env \in ListOf(build.entry)
      BY <1>1 DEF IInv, VariablesOK
    <2>2. ASSUME NEW e \in build.entry, SetEnv(e[1], e[2])
          PROVE  Lookup(env', n) = Lookup(env, n)
      <3>1. CASE Refused(e[1], e[2])
        BY <2>2, <3>1 DEF SetEnv
      <3>2. CASE ~Refused(e[1], e[2])
        <4>1. n # e[1]
          BY <3>2 DEF Refused
        <4>2. /\ Lookup(Without(env, e[1]), n) = Lookup(env, n)
              /\ Lookup(Append(Without(env, e[1]), <<e[1], e[2]>>), n) = Lookup(env, n)
          BY <2>1, <4>1, WithoutEffect, SetEnvList
        <4>3. env' \in {Without(env, e[1]), Append(Without(env, e[1]), <<e[1], e[2]>>)}
          BY <2>2, <3>2 DEF SetEnv
        <4> QED BY <4>2, <4>3
      <3> QED BY <3>1, <3>2
    <2>3. ASSUME NEW e \in build.entry, DeleteEnv(e[1])
          PROVE  Lookup(env', n) = Lookup(env, n)
      <3>1. CASE Refused(e[1], Absent)
        BY <2>3, <3>1 DEF DeleteEnv
      <3>2. CASE ~Refused(e[1], Absent)
        <4>1. n # e[1]
          BY <3>2 DEF Refused
        <4> QED BY <2>1, <2>3, <3>2, <4>1, WithoutEffect DEF DeleteEnv
      <3> QED BY <3>1, <3>2
    <2>4. ~Boot
      <3>1. Lookup(<<>>, n) = Absent
        BY DEF Lookup, ToSet
      <3> QED BY <1>1, <3>1 DEF Boot, IInv, VariablesOK
    <2>5. CASE SaveEnv \/ SaveErase \/ SaveWrite \/ SaveReturn \/ Driver \/ Prompt
               \/ UNCHANGED vars
      <3>1. env' = env
        BY <2>5 DEF SaveEnv, SaveErase, SaveWrite, SaveReturn, Driver, Prompt, vars, envVars
      <3> QED BY <3>1
    <2>6. CASE Reset
      BY <2>6 DEF Reset
    <2> QED BY <1>1, <2>2, <2>3, <2>4, <2>5, <2>6 DEF Next
  <1> QED BY <1>1, Invariance, PTL DEF WriteOnceKept, Spec

-----------------------------------------------------------------------------
(* Where every variable fits. *)

(* A variable the baudrate of which is in the table cannot lose it, nor can *)
(* the variable be deleted.                                                 *)
LEMMA RateKept ==
    ASSUME IInv, HasRate(env), NEW e \in build.entry,
           \/ SetEnv(e[1], e[2]) /\ ~TooLong(<<e[1], e[2]>>)
           \/ DeleteEnv(e[1])
    PROVE  HasRate(env')
  <1>1. build \in Builds /\ env \in ListOf(build.entry)
    BY DEF IInv, VariablesOK
  <1>2. Lookup(env, Baudrate) # Absent /\ Absent \notin Rates
    BY EnvAssumption DEF HasRate
  <1>3. ASSUME SetEnv(e[1], e[2]), ~TooLong(<<e[1], e[2]>>), env' # env
        PROVE  HasRate(env')
    <2>1. /\ env' = Append(Without(env, e[1]), <<e[1], e[2]>>)
          /\ ~Refused(e[1], e[2])
      BY <1>3 DEF SetEnv
    <2>2. e[1] = Baudrate => e[2] \in Rates
      BY <1>2, <2>1 DEF Refused
    <2>3. /\ Lookup(env', e[1]) = e[2]
          /\ \A m : m # e[1] => Lookup(env', m) = Lookup(env, m)
      BY <1>1, <2>1, SetEnvList
    <2> QED BY <2>2, <2>3 DEF HasRate
  <1>4. ASSUME DeleteEnv(e[1]), env' # env
        PROVE  HasRate(env')
    <2>1. env' = Without(env, e[1]) /\ ~Refused(e[1], Absent)
      BY <1>4 DEF DeleteEnv
    <2>2. e[1] # Baudrate
      BY <1>2, <2>1 DEF Refused
    <2> QED BY <1>1, <2>1, <2>2, WithoutEffect DEF HasRate
  <1> QED BY <1>3, <1>4

(* setenv keeps the CRC, the rate and the board data in step with the list. *)
LEMMA SetEnvRate ==
    ASSUME RoomForEntry, IInv, RateInv, NEW e \in build.entry, SetEnv(e[1], e[2])
    PROVE  RateInv'
  <1>1. /\ pc = "prompt" /\ pc' = "prompt" /\ cell' = cell /\ build \in Builds
        /\ env \in ListOf(build.entry)
    BY DEF SetEnv, flashVars, IInv, VariablesOK
  <1>2. e \in Entry /\ <<e[1], e[2]>> = e
    BY <1>1, SetEnvList DEF Entry
  <1>3. ~TooLong(<<e[1], e[2]>>)
    BY <1>2 DEF RoomForEntry
  <1>4. HasRate(env) /\ Lookup(env, Baudrate) # Absent
    BY <1>1, EnvAssumption DEF RateInv, HasRate
  <1>5. HasRate(env')
    BY <1>3, <1>4, RateKept
  <1>6. env_crc' = env'
    BY <1>3 DEF SetEnv, RateInv
  <1>7. \A n \in Mirrored : Lookup(env', n) # Absent => board'[n] = Lookup(env', n)
    <2>1. CASE Refused(e[1], e[2])
      BY <2>1 DEF SetEnv, RateInv
    <2>2. CASE ~Refused(e[1], e[2])
      <3>1. /\ env' = Append(Without(env, e[1]), <<e[1], e[2]>>)
            /\ board' = BoardAfter(e[1], e[2])
        BY <1>3, <2>2 DEF SetEnv
      <3>2. /\ Lookup(env', e[1]) = e[2]
            /\ \A m : m # e[1] => Lookup(env', m) = Lookup(env, m)
        BY <1>1, <3>1, SetEnvList
      <3>3. e[1] \in Mirrored => board' = [board EXCEPT ![e[1]] = e[2]]
        BY <1>4, <3>1 DEF BoardAfter
      <3>4. e[1] \notin Mirrored => board' = board
        BY <3>1 DEF BoardAfter
      <3>5. board \in [Mirrored -> {x[2] : x \in Entry} \cup {Absent}]
        BY DEF IInv, VariablesOK
      <3> QED BY <3>2, <3>3, <3>4, <3>5 DEF RateInv
    <2> QED BY <2>1, <2>2
  <1> QED BY <1>1, <1>5, <1>6, <1>7 DEF RateInv

(* So does its deletion; the board keeps the value that was deleted. *)
LEMMA DeleteEnvRate ==
    ASSUME IInv, RateInv, NEW e \in build.entry, DeleteEnv(e[1])
    PROVE  RateInv'
  <1>1. /\ pc = "prompt" /\ pc' = "prompt" /\ cell' = cell /\ board' = board
        /\ build \in Builds /\ env \in ListOf(build.entry)
    BY DEF DeleteEnv, flashVars, IInv, VariablesOK
  <1>2. HasRate(env')
    BY <1>1, RateKept DEF RateInv
  <1>3. env_crc' = env'
    BY DEF DeleteEnv, RateInv
  <1>4. ASSUME NEW n \in Mirrored, Lookup(env', n) # Absent
        PROVE  board'[n] = Lookup(env', n)
    <2>1. CASE env' = env
      BY <1>1, <1>4, <2>1 DEF RateInv
    <2>2. CASE env' = Without(env, e[1])
      <3>1. n # e[1] /\ Lookup(env', n) = Lookup(env, n)
        BY <1>1, <1>4, <2>2, WithoutEffect
      <3> QED BY <1>1, <1>4, <3>1 DEF RateInv
    <2> QED BY <2>1, <2>2 DEF DeleteEnv
  <1> QED BY <1>1, <1>2, <1>3, <1>4 DEF RateInv

(* A boot takes a list whose rate is in the table: the default one, or one  *)
(* that was in RAM when it was saved.                                       *)
LEMMA BootRate == ASSUME IInv, RateInv, Boot PROVE RateInv'
  <1>1. /\ env' = Relocated /\ env_crc' = env' /\ board' = BoardData(env')
        /\ pc' = "prompt" /\ cell' = cell
    BY DEF Boot, flashVars
  <1>2. Relocated = Default \/ Relocated \in StoredLists
    BY RelocatedList DEF IInv
  <1>3. HasRate(env')
    <2>1. CASE Relocated = Default
      BY <1>1, <2>1, DefaultAssumption DEF HasRate
    <2>2. CASE Relocated \in StoredLists
      <3>1. /\ Relocated \in List
            /\ cell[EnvFirst] = Block(Relocated, Relocated)[EnvFirst]
        BY <2>2, FirstCell DEF StoredLists
      <3>2. cell[EnvFirst] \in Records /\ cell[EnvFirst].of = Relocated
        BY <3>1, FirstCell, BlockCells
      <3> QED BY <1>1, <3>2, FirstCell DEF RateInv
    <2> QED BY <1>2, <2>1, <2>2
  <1>4. \A n \in Mirrored : Lookup(env', n) # Absent => board'[n] = Lookup(env', n)
    BY <1>1 DEF BoardData
  <1> QED BY <1>1, <1>3, <1>4 DEF RateInv

(* The cells a step of the driver writes are those of the list in RAM. *)
LEMMA CellsRate ==
    ASSUME IInv, RateInv, DriverStep \/ FlashReset
    PROVE  \A a \in EnvCells : cell'[a] \in Records => HasRate(cell'[a].of)
  <1> SUFFICES ASSUME NEW a \in EnvCells, cell'[a] \in Records
               PROVE  HasRate(cell'[a].of)
    OBVIOUS
  <1>1. /\ env \in List /\ env_crc = env /\ a \in Addr
    BY ListOfBuild, EnvAssumption DEF IInv, VariablesOK, RateInv
  <1>2. CASE cell'[a] = cell[a]
    BY <1>2 DEF RateInv
  <1>3. CASE cell'[a] # cell[a]
    <2>1. drv.op = "write" /\ cell'[a] = drv.data[a]
      BY <1>1, <1>3, CellChange, ErasedCell DEF IInv, VariablesOK, WriteCell
    <2>2. drv.data = Block(env_crc, env) /\ pc = "write"
      BY <2>1 DEF IInv, CallOK
    <2>3. cell'[a].of = env
      BY <1>1, <2>1, <2>2, BlockCells
    <2> QED BY <2>2, <2>3 DEF RateInv
  <1> QED BY <1>2, <1>3

(* Every step keeps them. *)
LEMMA NextRate == ASSUME RoomForEntry, IInv, RateInv, [Next]_vars PROVE RateInv'
  <1>1. CASE \E e \in build.entry : SetEnv(e[1], e[2])
    BY <1>1, SetEnvRate
  <1>2. CASE \E e \in build.entry : DeleteEnv(e[1])
    BY <1>2, DeleteEnvRate
  <1>3. CASE Boot
    BY <1>3, BootRate
  <1>4. CASE Driver
    <2>1. UNCHANGED <<env, env_crc, board, pc>> /\ DriverStep
      BY <1>4 DEF Driver, envVars
    <2>2. \A a \in EnvCells : cell'[a] \in Records => HasRate(cell'[a].of)
      BY <2>1, CellsRate
    <2> QED BY <2>1, <2>2 DEF RateInv
  <1>5. CASE Reset
    <2>1. env' = <<>> /\ env_crc' = <<>> /\ pc' = "boot" /\ FlashReset
      BY <1>5 DEF Reset
    <2>2. \A a \in EnvCells : cell'[a] \in Records => HasRate(cell'[a].of)
      BY <2>1, CellsRate
    <2>3. \A n : Lookup(<<>>, n) = Absent
      BY DEF Lookup, ToSet
    <2> QED BY <2>1, <2>2, <2>3 DEF RateInv
  <1>6. CASE SaveEnv \/ SaveErase \/ SaveWrite \/ SaveReturn
    <2>1. UNCHANGED <<env, env_crc, board>> /\ pc # "boot" /\ pc' # "boot"
      BY <1>6 DEF SaveEnv, SaveErase, SaveWrite, SaveReturn
    <2>2. cell' = cell
      BY <1>6 DEF SaveEnv, SaveErase, SaveWrite, SaveReturn, FlashSectProtect,
         FlashSectErase, FlashErase, FlashWrite
    <2> QED BY <2>1, <2>2 DEF RateInv
  <1>7. CASE Prompt \/ UNCHANGED vars
    <2>1. UNCHANGED <<env, env_crc, board, pc, cell>>
      BY <1>7 DEF Prompt, vars, envVars
    <2> QED BY <2>1 DEF RateInv
  <1> QED BY <1>1, <1>2, <1>3, <1>4, <1>5, <1>6, <1>7 DEF Next

(* The first environment is empty; what the flash holds has a rate. *)
LEMMA InitRate == Init => RateInv
  <1> SUFFICES ASSUME Init PROVE RateInv
    OBVIOUS
  <1>1. env = <<>> /\ env_crc = <<>> /\ pc = "boot" /\ build \in Builds
    BY DEF Init
  <1>2. \A n : Lookup(<<>>, n) = Absent
    BY DEF Lookup, ToSet
  <1>3. PICK l \in ListOf(build.entry) :
            HasRate(l) /\ cell \in {Block(l, l), [a \in Addr |-> Erased]}
    BY DEF Init, HasRate
  <1>4. \A a \in EnvCells : cell[a] \in Records => HasRate(cell[a].of)
    <2>1. CASE cell = Block(l, l)
      BY <1>1, <1>3, <2>1, ListOfBuild, BlockCells
    <2>2. CASE cell = [a \in Addr |-> Erased]
      BY <2>2, EnvAssumption, ErasedCell
    <2> QED BY <1>3, <2>1, <2>2
  <1> QED BY <1>1, <1>2, <1>4 DEF RateInv

(* They hold. *)
LEMMA RateInvariance == ASSUME RoomForEntry PROVE Spec => []RateInv
  <1>1. ASSUME IInv, RateInv, [Next]_vars PROVE RateInv'
    BY <1>1, NextRate
  <1> QED BY <1>1, InitRate, Invariance, PTL DEF Spec

(* The board data follow the list, and the console runs at a rate of the    *)
(* table: none can get into flash that _do_setenv would refuse.             *)
THEOREM BoardFollows == ASSUME RoomForEntry PROVE Spec => []BoardFollowsEnv
  <1>1. RateInv => BoardFollowsEnv
    BY EnvAssumption DEF RateInv, HasRate, BoardFollowsEnv
  <1> QED BY <1>1, RateInvariance, PTL

(* When flash_write returned no error the flash holds the list in RAM, each *)
(* cell of it, whatever happened to the erase before.                       *)
THEOREM DoneTruthful == ASSUME RoomForEntry PROVE Spec => []DoneMeansStored
  <1>1. IInv /\ RateInv => DoneMeansStored
    <2> SUFFICES ASSUME IInv, RateInv, pc = "write", drv = Idle, rc >= 0
                 PROVE  StoredLists = {env}
      BY DEF DoneMeansStored
    <2>1. env \in List /\ env_crc = env
      BY ListOfBuild DEF IInv, VariablesOK, RateInv
    <2>2. \A a \in EnvCells : cell[a] = Block(env, env)[a]
      BY <2>1 DEF IInv, CallOK, WrittenTo, EnvCells
    <2>3. env \in StoredLists
      BY <2>1, <2>2 DEF StoredLists
    <2> QED BY <2>3, StoredUnique
  <1> QED BY <1>1, Invariance, RateInvariance, PTL

-----------------------------------------------------------------------------
(* The refinement mapping: what PersistentEnv calls "edited" and "stored".  *)
inRam == IF pc = "boot" THEN Absent ELSE env
inFlash == IF StoredLists = {} THEN Absent ELSE CHOOSE l \in StoredLists : TRUE

(* A cell that fails or is erased takes the stored list with it; a cell     *)
(* that is written may complete the list in RAM, and no other one.          *)
LEMMA StoredStep ==
    ASSUME IInv, RateInv, DriverStep \/ FlashReset
    PROVE  \/ StoredLists' = StoredLists \/ StoredLists' = {}
           \/ WriteCell /\ StoredLists' = {env}
  <1>1. env \in List /\ env_crc = env /\ FlashTypeOK
    BY ListOfBuild DEF IInv, VariablesOK, RateInv
  <1>2. CASE \A a \in EnvCells : cell'[a] = cell[a]
    BY <1>2 DEF StoredLists
  <1>3. CASE \E a \in EnvCells : cell'[a] # cell[a]
    <2>1. PICK a \in EnvCells : cell'[a] # cell[a]
      BY <1>3
    <2>2. a \in Addr
      BY EnvAssumption
    <2>3. CASE cell'[a] \in Noise \cup {Erased}
      <3>1. \A l \in List : cell'[a] # Block(l, l)[a]
        BY <2>3, BlockCells
      <3> QED BY <3>1 DEF StoredLists
    <2>4. CASE WriteCell /\ drv.at = a /\ cell'[a] = drv.data[a]
      <3>1. cell'[a] = Block(env, env)[a]
        BY <1>1, <2>4 DEF WriteCell, IInv, CallOK
      <3>2. \A l \in List : cell'[a] = Block(l, l)[a] => l = env
        <4> SUFFICES ASSUME NEW l \in List, Block(env, env)[a] = Block(l, l)[a] PROVE l = env
          BY <3>1
        <4>1. Block(env, env)[a].of = env /\ Block(l, l)[a].of = l
          BY <1>1, BlockCells
        <4> QED BY <4>1
      <3>3. StoredLists' \subseteq {env}
        BY <3>2 DEF StoredLists
      <3> QED BY <2>4, <3>3
    <2> QED BY <1>1, <2>1, <2>2, <2>3, <2>4, CellChange
  <1> QED BY <1>2, <1>3

(* Every boot finds a list the user had in RAM, or the default one: saveenv *)
(* replaces the stored list at one instant or loses it as a whole.          *)
THEOREM SavesWhole == ASSUME RoomForEntry PROVE Spec => StoredAsEdited
  <1>1. Init => Abstract!Init
    <2> SUFFICES ASSUME Init PROVE Abstract!Init
      OBVIOUS
    <2>1. pc = "boot"
      BY DEF Init
    <2>2. StoredLists \subseteq List
      BY DEF StoredLists
    <2> QED BY <2>1, <2>2 DEF Abstract!Init
  <1>2. ASSUME IInv, IInv', RateInv, [Next]_vars
        PROVE  [Abstract!Next]_<<inRam, inFlash>>
    <2>1. /\ Absent \notin List /\ StoredLists \subseteq List
          /\ env \in List /\ env' \in List
      BY <1>2, ListOfBuild, EnvAssumption DEF IInv, VariablesOK, StoredLists
    <2>2. cell' = cell => StoredLists' = StoredLists
      BY DEF StoredLists
    <2>3. CASE \E e \in build.entry : SetEnv(e[1], e[2]) \/ DeleteEnv(e[1])
      <3>1. pc = "prompt" /\ pc' = "prompt" /\ cell' = cell
        BY <2>3 DEF SetEnv, DeleteEnv, flashVars
      <3> QED BY <2>1, <2>2, <3>1 DEF Abstract!Next, Abstract!Edit, inRam, inFlash
    <2>4. CASE SaveEnv \/ SaveErase \/ SaveWrite \/ SaveReturn
      <3>1. env' = env /\ pc # "boot" /\ pc' # "boot"
        BY <2>4 DEF SaveEnv, SaveErase, SaveWrite, SaveReturn
      <3>2. cell' = cell
        BY <2>4 DEF SaveEnv, SaveErase, SaveWrite, SaveReturn, FlashSectProtect,
           FlashSectErase, FlashErase, FlashWrite
      <3> QED BY <2>2, <3>1, <3>2 DEF inRam, inFlash
    <2>5. CASE Prompt \/ UNCHANGED vars
      <3>1. UNCHANGED <<env, pc, cell>>
        BY <2>5 DEF Prompt, vars, envVars
      <3> QED BY <2>2, <3>1 DEF inRam, inFlash
    <2>6. CASE Driver
      <3>1. UNCHANGED <<env, pc>> /\ DriverStep
        BY <2>6 DEF Driver, envVars
      <3>2. pc # "boot"
        <4>1. drv.op \in {"erase", "write"}
          BY <3>1 DEF DriverStep, EraseSector, EraseError, EraseCtrlC, EraseReturn,
             WriteCell, WriteNotErased, WriteError, WriteReturn
        <4> QED BY <1>2, <4>1 DEF IInv, CallOK
      <3>3. inRam = env /\ inRam' = env
        BY <3>1, <3>2 DEF inRam
      <3>4. CASE StoredLists' = StoredLists
        BY <3>3, <3>4 DEF inFlash
      <3>5. CASE StoredLists' = {}
        <4>1. inFlash' = Absent
          BY <3>5 DEF inFlash
        <4> QED BY <2>1, <3>3, <4>1 DEF Abstract!Next, Abstract!Lose, inRam, inFlash
      <3>6. CASE StoredLists' = {env}
        <4>1. inFlash' = env
          BY <3>6 DEF inFlash
        <4> QED BY <2>1, <3>3, <4>1 DEF Abstract!Next, Abstract!Store, inRam, inFlash
      <3> QED BY <1>2, <3>1, <3>4, <3>5, <3>6, StoredStep
    <2>7. CASE Reset
      <3>1. FlashReset /\ pc' = "boot"
        BY <2>7 DEF Reset
      <3>2. StoredLists' \in {StoredLists, {}}
        <4>1. ~WriteCell
          <5> SUFFICES ASSUME WriteCell PROVE FALSE
            OBVIOUS
          <5>1. drv \in WriteCall /\ drv' = [drv EXCEPT !.at = @ + 1]
            BY <1>2, WriteCallType DEF WriteCell, IInv, VariablesOK
          <5>2. drv'.op = "write"
            BY <5>1 DEF WriteCall
          <5> QED BY <3>1, <5>2 DEF FlashReset, Idle
        <4> QED BY <1>2, <3>1, <4>1, StoredStep
      <3> QED BY <3>1, <3>2 DEF Abstract!Next, Abstract!Fail, inRam, inFlash
    <2>8. CASE Boot
      <3>1. pc = "boot" /\ pc' = "prompt" /\ env' = Relocated /\ cell' = cell
        BY <2>8 DEF Boot, flashVars
      <3>2. Relocated = IF inFlash = Absent THEN Default ELSE inFlash
        BY <2>1 DEF Relocated, inFlash
      <3> QED BY <2>2, <3>1, <3>2 DEF Abstract!Next, Abstract!Boot, inRam, inFlash
    <2> QED BY <1>2, <2>3, <2>4, <2>5, <2>6, <2>7, <2>8 DEF Next
  <1> QED BY <1>1, <1>2, Invariance, RateInvariance, PTL
          DEF Spec, StoredAsEdited, Abstract!Spec, inRam, inFlash
=============================================================================

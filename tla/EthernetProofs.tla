---------------------------- MODULE EthernetProofs ----------------------------
(***************************************************************************)
(* Theorems about the Ethernet drivers and their controllers, for every    *)
(* number of pages, frames, faults and tries.                              *)
(***************************************************************************)
EXTENDS Ethernet, SequenceTheorems, FiniteSetTheorems, WellFoundedInduction, TLAPS

AnyFrame == [dir : {"none", "in", "out"}, no : Nat, good : BOOLEAN]
AllPages == Pages \cup Fifo

(* The types of what the invariants are about.                               *)
StateOK ==
    /\ board \in Boards
    /\ pc \in {"off", "loop", "release", "receive", "send", "alloc", "wait"}
    /\ mem \in [AllPages -> AnyFrame] /\ free \subseteq AllPages
    /\ rxq \in Seq(Pages) /\ txq \in Seq(AllPages)
    /\ got \in Pages \cup {Nowhere} /\ done \in Nat /\ asked \in BOOLEAN
    /\ discarding \in BOOLEAN /\ late \in BOOLEAN
    /\ in \in AnyFrame /\ out \in AnyFrame
    /\ arrived \in Nat /\ accepted \subseteq 1..arrived /\ delivered \in Seq(Nat)
    /\ gaveUp \in Nat

Distinct(s) == \A i, j \in DOMAIN s : s[i] = s[j] => i = j

(* A received page is in use once, and so is the SMC91111's page for what it *)
(* sends.  The CS8900's pages come back when they were sent; the others have *)
(* a FIFO of their own.                                                      *)
PlaceOK ==
    /\ Distinct(rxq) /\ ToSet(rxq) \cap free = {}
    /\ pc \in {"release", "alloc"} => board = "smc91111"
    /\ discarding => board = "3c589"
    /\ pc = "release" \/ discarding => rxq # <<>>
    /\ pc = "wait" => board # "3c589"
    /\ board = "smc91111" =>
          /\ got \notin free \cup ToSet(rxq)
          /\ asked => got = Nowhere
          /\ pc = "alloc" => asked \/ got # Nowhere
          /\ pc = "wait" => /\ ~asked /\ got = Nowhere
                            /\ pn \in Pages /\ pn \notin free \cup ToSet(rxq)
    /\ board # "smc91111" => ~asked /\ got = Nowhere
    /\ board = "cs8900" => Distinct(txq) /\ ToSet(txq) \cap (free \cup ToSet(rxq)) = {}
    /\ board \in {"easynet", "3c589"} => ToSet(txq) \subseteq Fifo

PlaceInv == StateOK /\ PlaceOK

-----------------------------------------------------------------------------
(* Queues and pages. *)

(* The lowest of some pages is one of them. *)
LEMMA LowestPage ==
    ASSUME NEW S \in SUBSET Nat, S # {}
    PROVE  Min(S) \in S
  <1> DEFINE R == {ss \in Nat \X Nat : ss[1] < ss[2]}
  <1>1. IsWellFoundedOn(R, Nat)
    BY NatLessThanWellFounded DEF OpToRel
  <1>2. ASSUME NEW x \in Nat, NEW y \in Nat, ~(<<y, x>> \in R)
        PROVE  x <= y
    BY <1>2
  <1> HIDE DEF R
  <1>3. PICK x \in S : \A y \in S : ~(<<y, x>> \in R)
    BY <1>1, WFMin
  <1>4. ASSUME NEW y \in S
        PROVE  x <= y
    <2>1. x \in Nat /\ y \in Nat /\ ~(<<y, x>> \in R)
      BY <1>3
    <2> QED BY <1>2, <2>1
  <1> QED BY <1>4 DEF Min

(* The elements of a queue. *)
LEMMA Elements ==
    ASSUME NEW S, NEW s \in Seq(S)
    PROVE  /\ Len(s) \in Nat /\ DOMAIN s = 1..Len(s)
           /\ ToSet(s) = {s[i] : i \in 1..Len(s)} /\ ToSet(s) \subseteq S
           /\ s = <<>> <=> ToSet(s) = {}
           /\ s = <<>> <=> Len(s) = 0
  <1>1. Len(s) \in Nat /\ DOMAIN s = 1..Len(s)
    BY LenProperties
  <1>2. ToSet(s) = {s[i] : i \in 1..Len(s)}
    BY <1>1 DEF ToSet
  <1>3. \A i \in 1..Len(s) : s[i] \in S
    BY ElementOfSeq
  <1>4. s = <<>> <=> Len(s) = 0
    BY EmptySeq
  <1>5. Len(s) = 0 => ToSet(s) = {}
    BY <1>2
  <1>6. Len(s) # 0 => s[1] \in ToSet(s)
    BY <1>1, <1>2
  <1> QED BY <1>1, <1>2, <1>3, <1>4, <1>5, <1>6

(* The empty queue. *)
LEMMA EmptyQueue == ToSet(<<>>) = {} /\ Distinct(<<>>)
  <1>1. <<>> \in Seq(Nat) /\ Len(<<>>) = 0
    BY EmptySeq
  <1>2. ToSet(<<>>) = {} /\ DOMAIN <<>> = 1..Len(<<>>)
    BY <1>1, Elements
  <1>3. DOMAIN <<>> = {}
    BY <1>1, <1>2
  <1> QED BY <1>2, <1>3 DEF Distinct

(* A queue to which something was added. *)
LEMMA Added ==
    ASSUME NEW S, NEW s \in Seq(S), NEW x \in S
    PROVE  /\ Append(s, x) \in Seq(S) /\ Append(s, x) # <<>>
           /\ ToSet(Append(s, x)) = ToSet(s) \cup {x}
           /\ s # <<>> => Head(Append(s, x)) = Head(s)
           /\ Distinct(s) /\ x \notin ToSet(s) => Distinct(Append(s, x))
           /\ s = <<>> => Append(s, x) = <<x>>
  <1> DEFINE t == Append(s, x)
             n == Len(s)
  <1>1. /\ t \in Seq(S) /\ t # <<>> /\ Len(t) = n + 1 /\ n \in Nat
        /\ \A i \in 1..n : t[i] = s[i]
        /\ t[n + 1] = x
    BY AppendProperties, LenProperties
  <1>2. /\ DOMAIN t = 1..(n + 1) /\ DOMAIN s = 1..n
        /\ ToSet(t) = {t[i] : i \in 1..(n + 1)} /\ ToSet(s) = {s[i] : i \in 1..n}
        /\ s # <<>> => n # 0
    <2>1. DOMAIN s = 1..n /\ ToSet(s) = {s[i] : i \in 1..n} /\ (s # <<>> => n # 0)
      BY Elements
    <2> HIDE DEF t, n
    <2>2. DOMAIN t = 1..Len(t) /\ ToSet(t) = {t[i] : i \in 1..Len(t)}
      BY <1>1, Elements
    <2> QED BY <1>1, <2>1, <2>2
  <1>3. s # <<>> => Head(t) = Head(s)
    <2>1. s # <<>> => 1 \in 1..n
      BY <1>1, <1>2
    <2>2. s # <<>> => t[1] = s[1]
      BY <1>1, <2>1
    <2> QED BY <2>2
  <1>4. s = <<>> => t = <<x>>
    OBVIOUS
  <1> HIDE DEF t, n
  <1>5. ToSet(t) = ToSet(s) \cup {x}
    <2>1. \A i \in 1..(n + 1) : i \in 1..n \/ i = n + 1
      BY <1>1
    <2>2. \A i \in 1..n : i \in 1..(n + 1)
      BY <1>1
    <2>3. n + 1 \in 1..(n + 1)
      BY <1>1
    <2>4. \A y : (\E i \in 1..(n + 1) : t[i] = y) <=> ((\E i \in 1..n : s[i] = y) \/ y = x)
      BY <1>1, <2>1, <2>2, <2>3
    <2> QED BY <1>2, <2>4
  <1>6. Distinct(s) /\ x \notin ToSet(s) => Distinct(t)
    BY <1>1, <1>2 DEF Distinct
  <1> QED BY <1>1, <1>3, <1>4, <1>5, <1>6 DEF t

(* A queue from which the first was taken. *)
LEMMA Taken ==
    ASSUME NEW S, NEW s \in Seq(S), s # <<>>
    PROVE  /\ Tail(s) \in Seq(S) /\ Head(s) \in S
           /\ ToSet(s) = ToSet(Tail(s)) \cup {Head(s)}
           /\ Distinct(s) => Distinct(Tail(s)) /\ Head(s) \notin ToSet(Tail(s))
  <1> DEFINE t == Tail(s)
             n == Len(s)
  <1>1. /\ t \in Seq(S) /\ Head(s) \in S /\ Len(t) = n - 1 /\ n \in Nat \ {0}
        /\ \A i \in 1..(n - 1) : t[i] = s[i + 1]
    BY HeadTailProperties, Elements
  <1>2. /\ DOMAIN t = 1..(n - 1) /\ DOMAIN s = 1..n
        /\ ToSet(t) = {t[i] : i \in 1..(n - 1)} /\ ToSet(s) = {s[i] : i \in 1..n}
    BY <1>1, Elements
  <1>3. Head(s) = s[1]
    OBVIOUS
  <1> HIDE DEF t, n
  <1>4. ToSet(s) = ToSet(t) \cup {Head(s)}
    <2>1. \A i \in 1..n : i = 1 \/ (i - 1 \in 1..(n - 1) /\ i = (i - 1) + 1)
      BY <1>1
    <2>2. \A i \in 1..(n - 1) : i + 1 \in 1..n
      BY <1>1
    <2>3. 1 \in 1..n
      BY <1>1
    <2>4. ASSUME NEW i \in 1..n PROVE s[i] \in ToSet(t) \cup {s[1]}
      <3>1. CASE i = 1
        BY <3>1
      <3>2. CASE i # 1
        <4>1. i - 1 \in 1..(n - 1) /\ i = (i - 1) + 1
          BY <2>1, <3>2
        <4>2. t[i - 1] = s[i]
          BY <1>1, <4>1
        <4> QED BY <1>2, <4>1, <4>2
      <3> QED BY <3>1, <3>2
    <2>5. ASSUME NEW i \in 1..(n - 1) PROVE t[i] \in ToSet(s)
      BY <1>1, <1>2, <2>2
    <2>6. ToSet(s) \subseteq ToSet(t) \cup {s[1]}
      BY <1>2, <2>4
    <2>7. ToSet(t) \subseteq ToSet(s)
      BY <1>2, <2>5
    <2>8. s[1] \in ToSet(s)
      BY <1>2, <2>3
    <2> QED BY <1>3, <2>6, <2>7, <2>8
  <1>5. ASSUME Distinct(s) PROVE Distinct(t) /\ Head(s) \notin ToSet(t)
    <2>1. \A i \in 1..(n - 1) : i + 1 \in 1..n /\ i + 1 # 1
      BY <1>1
    <2>2. 1 \in 1..n
      BY <1>1
    <2>3. ASSUME NEW i \in 1..(n - 1), NEW j \in 1..(n - 1), t[i] = t[j]
          PROVE  i = j
      <3>1. s[i + 1] = s[j + 1] /\ i + 1 \in 1..n /\ j + 1 \in 1..n
        BY <1>1, <2>1, <2>3
      <3>2. i + 1 = j + 1
        BY <1>2, <1>5, <3>1 DEF Distinct
      <3> QED BY <3>2
    <2>4. ASSUME NEW i \in 1..(n - 1) PROVE t[i] # s[1]
      <3>1. t[i] = s[i + 1] /\ i + 1 \in 1..n /\ i + 1 # 1
        BY <1>1, <2>1
      <3> QED BY <1>2, <1>5, <2>2, <3>1 DEF Distinct
    <2> QED BY <1>2, <1>3, <2>3, <2>4 DEF Distinct
  <1> QED BY <1>1, <1>4, <1>5 DEF t

-----------------------------------------------------------------------------
(* Received frames. *)

(* Queued pages whose frames are numbered in order. *)
Rising(s, m) == \A i, j \in DOMAIN s : i < j => m[s[i]].no < m[s[j]].no

Climbing(s) == \A i, j \in DOMAIN s : i < j => s[i] < s[j]

(* The frames the driver has not copied yet. *)
Unread == ToSet(rxq) \ (IF pc = "release" \/ discarding THEN {Head(rxq)} ELSE {})

(* The frames delivered, the one about to be, and those in the controller    *)
(* are numbered in this order.  A frame that was copied and is still in the  *)
(* controller is the one about to be delivered, or was, or is a bad one.     *)
RxOK ==
    /\ \A p \in ToSet(rxq) :
          mem[p].no \in 1..arrived /\ (~mem[p].good => mem[p].no \notin accepted)
    /\ Rising(rxq, mem)
    /\ in.no \in 0..arrived /\ ToSet(delivered) \subseteq 1..arrived
    /\ Climbing(delivered)
    /\ in.no # 0 => \A d \in ToSet(delivered) : d < in.no
    /\ \A p \in Unread :
          in.no < mem[p].no /\ \A d \in ToSet(delivered) : d < mem[p].no
    /\ pc \notin {"release", "receive"} => in = None
    /\ pc = "receive" => in.no # 0
    /\ pc = "release" => in = First \/ (in = None /\ ~First.good)
    /\ discarding => (First.good => First.no \in ToSet(delivered) \cup {in.no})
    /\ accepted \subseteq ToSet(delivered) \cup {in.no} \cup {mem[p].no : p \in ToSet(rxq)}

(* Sent frames: as long as no completion came late, there is one frame at    *)
(* most between the driver and the medium.                                   *)
QueueOK ==
    /\ board \in {"cs8900", "3c589"} => said = None
    /\ said # None /\ ~late => said \in finished
    /\ board \in {"smc91111", "easynet"} /\ ~late =>
          IF pc = "wait"
          THEN \/ done = 1 /\ txq = <<>> /\ out \in finished
               \/ /\ done = 0
                  /\ \E p \in AllPages : txq = <<p>> /\ mem[p] = out /\ p \notin free
          ELSE done = 0 /\ txq = <<>>

(* The SMC91111's pages that nobody has, and the one that is on its way to a *)
(* request that was given up.                                                *)
Lost == Pages \ (free \cup ToSet(rxq) \cup {got} \cup (IF pc = "wait" THEN {pn} ELSE {}))
Owed == IF pc \notin {"alloc", "wait"} /\ (asked \/ got # Nowhere) THEN 1 ELSE 0

LostOK == board = "smc91111" => Cardinality(Lost) + Owed <= gaveUp

-----------------------------------------------------------------------------
(* Pages are where they are said to be. *)

(* The page the next frame goes to. *)
LEMMA NextPage ==
    ASSUME StateOK, free \cap Pages # {}
    PROVE  Min(free \cap Pages) \in free \cap Pages
  <1>1. free \cap Pages \in SUBSET Nat
    BY EthernetAssumption
  <1> QED BY <1>1, LowestPage

(* Frames are frames. *)
LEMMA FrameTypes ==
    ASSUME StateOK
    PROVE  /\ None \in AnyFrame
           /\ \A n \in Nat : Out(n) \in AnyFrame /\ \A g \in BOOLEAN : In(n, g) \in AnyFrame
           /\ rxq # <<>> => First \in AnyFrame /\ Head(rxq) \in Pages
  <1>1. /\ None \in AnyFrame
        /\ \A n \in Nat : Out(n) \in AnyFrame /\ \A g \in BOOLEAN : In(n, g) \in AnyFrame
    BY DEF None, Out, In, AnyFrame
  <1>2. rxq # <<>> => Head(rxq) \in Pages
    BY Taken DEF StateOK
  <1> QED BY <1>1, <1>2 DEF StateOK, First, AllPages

(* The types stay. *)
LEMMA NextTypes ==
    ASSUME PlaceInv, [Next]_vars
    PROVE  StateOK'
  <1> USE DEF StateOK, AllPages, PlaceInv
  <1>1. ASSUME NEW good \in BOOLEAN, Arrive(good)
        PROVE  StateOK'
    <2>1. arrived' = arrived + 1 /\ arrived' \in Nat /\ In(arrived', good) \in AnyFrame
      BY <1>1, FrameTypes DEF Arrive
    <2>2. CASE rxOn /\ free \cap Pages # {}
      <3> DEFINE p == Min(free \cap Pages)
      <3>1. p \in free \cap Pages
        BY <2>2, NextPage
      <3>2. /\ mem' = [mem EXCEPT ![p] = In(arrived', good)]
            /\ free' = free \ {p} /\ rxq' = Append(rxq, p)
            /\ accepted' = IF good THEN accepted \cup {arrived'} ELSE accepted
        BY <1>1, <2>2 DEF Arrive
      <3> HIDE DEF p
      <3>3. rxq' \in Seq(Pages) /\ mem' \in [AllPages -> AnyFrame]
        BY <2>1, <3>1, <3>2, Added
      <3>4. accepted' \subseteq 1..arrived'
        BY <2>1, <3>2
      <3> QED BY <1>1, <2>1, <3>2, <3>3, <3>4 DEF Arrive
    <2>3. CASE ~(rxOn /\ free \cap Pages # {})
      <3>1. accepted' \subseteq 1..arrived'
        <4>1. accepted \subseteq 1..arrived /\ accepted' = accepted /\ arrived' = arrived + 1
                /\ arrived \in Nat
          BY <1>1, <2>3 DEF Arrive
        <4> QED BY <4>1
      <3> QED BY <1>1, <2>1, <2>3, <3>1 DEF Arrive
    <2> QED BY <2>2, <2>3
  <1>2. CASE Transmit
    BY <1>2, Taken DEF Transmit
  <1>3. CASE Stick
    BY <1>3 DEF Stick
  <1>4. CASE Allocate
    <2>1. got' \in free \cap Pages
      BY <1>4, NextPage DEF Allocate
    <2> QED BY <1>4, <2>1 DEF Allocate, history
  <1>5. CASE Discard
    <2>1. rxq # <<>> => Tail(rxq) \in Seq(Pages) /\ Head(rxq) \in Pages
      BY Taken
    <2>2. rxq # <<>>
      BY <1>5 DEF PlaceOK, Discard
    <2> QED BY <1>5, <2>1, <2>2 DEF Discard, history
  <1>6. CASE NetLoopStart \/ CsRetry
    <2>1. <<>> \in Seq(Pages) /\ <<>> \in Seq(AllPages) /\ <<>> \in Seq(Nat)
      BY EmptySeq
    <2>2. /\ ControllerReset /\ pc' \in {"loop", "send"} /\ late' \in BOOLEAN /\ gaveUp' \in Nat
          /\ UNCHANGED <<board, in, out, arrived>>
      <3>1. CASE NetLoopStart
        BY <3>1 DEF NetLoopStart, EthInit
      <3>2. CASE CsRetry
        BY <3>2 DEF CsRetry
      <3> QED BY <1>6, <3>1, <3>2
    <2> QED BY <2>1, <2>2 DEF ControllerReset
  <1>7. CASE NetLoopReturn
    BY <1>7 DEF NetLoopReturn, history
  <1>8. CASE TimeHandler
    BY <1>8, FrameTypes DEF TimeHandler, history, controller, Out, AnyFrame
  <1>9. CASE SmcRead
    BY <1>9, FrameTypes DEF SmcRead, history, controller
  <1>10. CASE SmcRelease \/ CsRead \/ EasyRead
    <2>1. rxq # <<>> => Tail(rxq) \in Seq(Pages) /\ Head(rxq) \in Pages /\ First \in AnyFrame
      BY Taken, FrameTypes
    <2>2. SmcRelease => rxq # <<>>
      BY DEF PlaceOK, SmcRelease
    <2>3. CASE SmcRelease
      BY <2>1, <2>2, <2>3 DEF SmcRelease, history
    <2>4. CASE CsRead
      BY <2>1, <2>4 DEF CsRead, history
    <2>5. CASE EasyRead
      BY <2>1, <2>5 DEF EasyRead, history
    <2> QED BY <1>10, <2>3, <2>4, <2>5
  <1>11. CASE ElRead
    BY <1>11, FrameTypes DEF ElRead, history
  <1>12. CASE NetReceive
    <2>1. in.no \in Nat /\ out.no + 1 \in Nat
      BY DEF AnyFrame
    <2>2. delivered' \in Seq(Nat)
      BY <1>12, <2>1, Added DEF NetReceive
    <2>3. None \in AnyFrame /\ Out(out.no + 1) \in AnyFrame
      BY <2>1, FrameTypes
    <2> QED BY <1>12, <2>2, <2>3 DEF NetReceive, controller
  <1>13. CASE SmcAlloc
    BY <1>13 DEF SmcAlloc, history
  <1>14. ASSUME NEW p \in AllPages, Enqueue(p)
         PROVE  mem' \in [AllPages -> AnyFrame] /\ txq' \in Seq(AllPages)
    BY <1>14, Added DEF Enqueue
  <1>15. CASE SmcEnqueue
    BY <1>14, <1>15 DEF SmcEnqueue, history
  <1>16. CASE SmcNoMemory
    BY <1>16 DEF SmcNoMemory, Return, controller
  <1>17. CASE SmcSent \/ SmcTimeout
    <2>1. pn \in Pages
      BY <1>17 DEF PlaceOK, SmcSent, SmcTimeout
    <2>2. CASE SmcSent
      BY <2>1, <2>2 DEF SmcSent, Return
    <2>3. CASE SmcTimeout
      BY <2>1, <2>3 DEF SmcTimeout, Return
    <2> QED BY <1>17, <2>2, <2>3
  <1>18. CASE CsSend
    BY <1>14, <1>18 DEF CsSend, history
  <1>19. CASE CsSent \/ EasySent
    <2>1. done' \in Nat /\ pc' = "loop"
      BY <1>19 DEF CsSent, EasySent, Return
    <2> QED BY <1>19, <2>1 DEF CsSent, EasySent
  <1>20. CASE EasySend
    BY <1>14, <1>20 DEF EasySend, Return
  <1>21. CASE ElSend
    <2>1. <<>> \in Seq(AllPages) /\ ToSet(txq) \subseteq AllPages
      BY EmptySeq, Elements
    <2>2. /\ mem' \in [AllPages -> AnyFrame] /\ txq' \in Seq(AllPages) /\ free' \subseteq AllPages
          /\ pc' \in {"send", "loop"} /\ done' \in Nat
      <3>1. CASE done > 0
        <4>1. /\ pc = "send" /\ done' = 0 /\ UNCHANGED <<pc, mem>>
              /\ UNCHANGED <<free, txq>> \/ (txq' = <<>> /\ free' = free \cup ToSet(txq))
          BY <1>21, <3>1 DEF ElSend
        <4> QED BY <2>1, <4>1
      <3>2. CASE done = 0
        BY <1>14, <1>21, <3>2 DEF ElSend
      <3> QED BY <3>1, <3>2
    <2> QED BY <1>21, <2>2 DEF ElSend
  <1>22. CASE UNCHANGED vars
    BY <1>22 DEF vars, controller, history
  <1> QED BY <1>1, <1>2, <1>3, <1>4, <1>5, <1>6, <1>7, <1>8, <1>9, <1>10, <1>11, <1>12, <1>13,
             <1>15, <1>16, <1>17, <1>18, <1>19, <1>20, <1>21, <1>22 DEF Next, Receives, Sends

(* The pages stay apart. *)
LEMMA NextPlaces ==
    ASSUME PlaceInv, [Next]_vars
    PROVE  PlaceOK'
  <1>1. /\ StateOK /\ PlaceOK
        /\ rxq \in Seq(Pages) /\ txq \in Seq(AllPages)
        /\ ToSet(rxq) \subseteq Pages /\ ToSet(txq) \subseteq AllPages
        /\ free \subseteq AllPages /\ Pages \cap Fifo = {} /\ Nowhere \notin AllPages
        /\ board \in {"smc91111", "cs8900", "easynet", "3c589"}
    BY Elements, EthernetAssumption DEF PlaceInv, StateOK, AllPages
  <1>2. ASSUME NEW good \in BOOLEAN, Arrive(good)
        PROVE  PlaceOK'
    <2>1. CASE rxOn /\ free \cap Pages # {}
      <3> DEFINE p == Min(free \cap Pages)
      <3>1. p \in free \cap Pages
        BY <1>1, <2>1, NextPage
      <3>2. free' = free \ {p} /\ rxq' = Append(rxq, p)
        BY <1>2, <2>1 DEF Arrive
      <3> HIDE DEF p
      <3>3. /\ Distinct(rxq') /\ ToSet(rxq') = ToSet(rxq) \cup {p} /\ rxq' # <<>>
        BY <1>1, <3>1, <3>2, Added DEF PlaceOK
      <3> QED BY <1>1, <1>2, <3>1, <3>2, <3>3 DEF Arrive, PlaceOK
    <2>2. CASE ~(rxOn /\ free \cap Pages # {})
      BY <1>1, <1>2, <2>2 DEF Arrive, PlaceOK
    <2> QED BY <2>1, <2>2
  <1>3. CASE Transmit
    <2>1. /\ Head(txq) \in AllPages /\ ToSet(txq) = ToSet(Tail(txq)) \cup {Head(txq)}
          /\ Distinct(txq) => Distinct(Tail(txq)) /\ Head(txq) \notin ToSet(Tail(txq))
      BY <1>1, <1>3, Taken DEF Transmit
    <2>2. /\ txq' = Tail(txq)
          /\ free' = IF board = "smc91111" THEN free ELSE free \cup {Head(txq)}
          /\ UNCHANGED <<board, pc, rxq, discarding, asked, got, pn>>
      BY <1>3 DEF Transmit
    <2>3. board # "smc91111" => Head(txq) \notin ToSet(rxq)
      BY <1>1, <2>1 DEF PlaceOK, AllPages
    <2> QED BY <1>1, <2>1, <2>2, <2>3 DEF PlaceOK
  <1>4. CASE Allocate
    <2>1. /\ got' \in free \cap Pages /\ free' = free \ {got'} /\ ~asked' /\ asked
          /\ UNCHANGED <<board, pc, rxq, txq, discarding, pn>>
      BY <1>1, <1>4, NextPage DEF Allocate
    <2> QED BY <1>1, <2>1 DEF PlaceOK, AllPages
  <1>5. CASE Discard \/ SmcRelease \/ CsRead \/ (EasyRead /\ rxq # <<>>)
    <2>1. rxq # <<>>
      BY <1>1, <1>5 DEF Discard, SmcRelease, CsRead, PlaceOK
    <2>2. /\ rxq' = Tail(rxq) /\ free' = free \cup {Head(rxq)}
          /\ UNCHANGED <<board, txq, asked, got, pn>>
      BY <1>5, <2>1 DEF Discard, SmcRelease, CsRead, EasyRead
    <2>3. /\ Head(rxq) \in Pages /\ ToSet(rxq) = ToSet(Tail(rxq)) \cup {Head(rxq)}
          /\ Distinct(Tail(rxq)) /\ Head(rxq) \notin ToSet(Tail(rxq))
      BY <1>1, <2>1, Taken DEF PlaceOK
    <2>4. pc' \notin {"release", "alloc"} /\ (pc' = "wait" => pc = "wait") /\ ~discarding'
      BY <1>1, <1>5 DEF Discard, SmcRelease, CsRead, EasyRead, PlaceOK
    <2> QED BY <1>1, <2>2, <2>3, <2>4 DEF PlaceOK
  <1>6. CASE NetLoopStart \/ CsRetry
    <2>1. /\ rxq' = <<>> /\ txq' = <<>> /\ ~asked' /\ got' = Nowhere /\ ~discarding'
          /\ pc' \in {"loop", "send"} /\ free' = AllPages /\ UNCHANGED board
      BY <1>6 DEF NetLoopStart, CsRetry, EthInit, ControllerReset, AllPages
    <2>3. ToSet(rxq') = {} /\ ToSet(txq') = {} /\ Distinct(rxq') /\ Distinct(txq')
      BY <2>1, EmptyQueue
    <2>4. got' \notin free' \cup ToSet(rxq')
      BY <1>1, <2>1, <2>3
    <2>5. board' \in {"smc91111", "cs8900", "easynet", "3c589"}
      BY <1>1, <2>1
    <2> QED BY <2>1, <2>3, <2>4, <2>5 DEF PlaceOK
  <1>7. CASE NetLoopReturn \/ TimeHandler \/ NetReceive
    BY <1>1, <1>7 DEF NetLoopReturn, TimeHandler, NetReceive, controller, PlaceOK
  <1>8. CASE SmcRead \/ (EasyRead /\ rxq = <<>>)
    BY <1>1, <1>8 DEF SmcRead, EasyRead, controller, PlaceOK
  <1>9. CASE ElRead
    BY <1>1, <1>9 DEF ElRead, PlaceOK
  <1>10. CASE SmcAlloc
    BY <1>1, <1>10, Elements DEF SmcAlloc, PlaceOK, AllPages
  <1>11. CASE SmcEnqueue
    <2>1. /\ board = "smc91111" /\ got \in Pages /\ ~asked /\ pn' = got /\ got' = Nowhere
          /\ pc' = "wait" /\ pc = "alloc"
          /\ UNCHANGED <<board, free, rxq, discarding, asked>>
      BY <1>1, <1>11 DEF SmcEnqueue, PlaceOK, StateOK
    <2> QED BY <1>1, <2>1 DEF PlaceOK, AllPages
  <1>12. CASE SmcNoMemory \/ Stick \/ UNCHANGED vars
    BY <1>1, <1>12 DEF SmcNoMemory, Stick, vars, Return, controller, PlaceOK
  <1>13. CASE SmcSent \/ SmcTimeout
    <2>1. /\ board = "smc91111" /\ pc = "wait" /\ pc' = "loop" /\ free' = free \cup {pn}
          /\ UNCHANGED <<board, rxq, txq, discarding, asked, got, pn>>
      BY <1>13 DEF SmcSent, SmcTimeout, Return
    <2> QED BY <1>1, <2>1 DEF PlaceOK, AllPages
  <1>14. CASE CsSend
    <2>1. PICK p \in free \cap Pages : txq' = Append(txq, p) /\ free' = free \ {p}
      BY <1>14 DEF CsSend, Enqueue
    <2>2. /\ board = "cs8900" /\ pc' = "wait" /\ pc # "release"
          /\ UNCHANGED <<board, rxq, discarding, asked, got, pn>>
      BY <1>14 DEF CsSend
    <2>3. ToSet(txq') = ToSet(txq) \cup {p} /\ Distinct(txq')
      BY <1>1, <2>1, <2>2, Added DEF PlaceOK
    <2> QED BY <1>1, <2>1, <2>2, <2>3 DEF PlaceOK
  <1>15. CASE (EasySend /\ pc' = "wait") \/ (ElSend /\ done = 0)
    <2>1. PICK p \in free \cap Fifo : txq' = Append(txq, p) /\ free' = free \ {p}
      BY <1>15 DEF EasySend, ElSend, Enqueue, Return
    <2>2. /\ board \in {"easynet", "3c589"} /\ UNCHANGED <<board, rxq, discarding, asked, got, pn>>
          /\ pc' \in {"wait", "loop"} /\ (pc' = "wait" => board = "easynet")
      BY <1>15 DEF EasySend, ElSend
    <2>3. ToSet(txq') = ToSet(txq) \cup {p}
      BY <1>1, <2>1, Added DEF AllPages
    <2> QED BY <1>1, <2>1, <2>2, <2>3 DEF PlaceOK
  <1>16. CASE CsSent \/ EasySent \/ (EasySend /\ pc' # "wait")
    <2>1. /\ UNCHANGED <<board, free, rxq, txq, discarding, asked, got, pn>> /\ pc' = "loop"
      BY <1>16 DEF CsSent, EasySent, EasySend, Return
    <2> QED BY <1>1, <2>1 DEF PlaceOK
  <1>17. CASE ElSend /\ done # 0
    <2>1. /\ board = "3c589" /\ UNCHANGED <<board, rxq, discarding, asked, got, pn, pc>>
          /\ UNCHANGED <<free, txq>> \/ (txq' = <<>> /\ free' = free \cup ToSet(txq))
      BY <1>17 DEF ElSend
    <2> QED BY <1>1, <2>1, EmptyQueue DEF PlaceOK
  <1> QED BY <1>2, <1>3, <1>4, <1>5, <1>6, <1>7, <1>8, <1>9, <1>10, <1>11, <1>12, <1>13, <1>14,
             <1>15, <1>16, <1>17 DEF Next, Receives, Sends

(* It holds at first. *)
LEMMA InitPlaces ==
    ASSUME Init
    PROVE  PlaceInv
  <1>1. /\ <<>> \in Seq(Pages) /\ <<>> \in Seq(AllPages) /\ <<>> \in Seq(Nat)
        /\ ToSet(<<>>) = {} /\ Distinct(<<>>)
    BY EmptyQueue, EmptySeq
  <1>2. None \in AnyFrame
    BY DEF None, AnyFrame
  <1>3. StateOK
    BY <1>1, <1>2 DEF Init, StateOK, AllPages
  <1>4. Nowhere \notin AllPages
    BY EthernetAssumption DEF AllPages
  <1>5. PlaceOK
    BY <1>1, <1>4 DEF Init, PlaceOK, AllPages
  <1> QED BY <1>3, <1>5 DEF PlaceInv

-----------------------------------------------------------------------------
(* The pages of the SMC91111. *)

(* Pages that are lost when one more may be. *)
LEMMA Counted ==
    ASSUME NEW L \in SUBSET Pages, NEW M \in SUBSET Pages, NEW x
    PROVE  /\ Cardinality(L) \in Nat /\ Cardinality(M) \in Nat
           /\ M \subseteq L => Cardinality(M) <= Cardinality(L)
           /\ M \subseteq L \cup {x} => Cardinality(M) <= Cardinality(L) + 1
  <1>1. IsFiniteSet(L) /\ IsFiniteSet(M)
    BY EthernetAssumption, FS_Subset
  <1>2. IsFiniteSet(L \cup {x}) /\ Cardinality(L \cup {x}) <= Cardinality(L) + 1
    BY <1>1, FS_AddElement, FS_CardinalityType
  <1>3. M \subseteq L \cup {x} => Cardinality(M) <= Cardinality(L \cup {x})
    BY <1>2, FS_Subset
  <1>4. M \subseteq L => Cardinality(M) <= Cardinality(L)
    BY <1>1, FS_Subset
  <1>5. Cardinality(L) \in Nat /\ Cardinality(M) \in Nat /\ Cardinality(L \cup {x}) \in Nat
    BY <1>1, <1>2, FS_CardinalityType
  <1> QED BY <1>2, <1>3, <1>4, <1>5

(* Numbers of pages. *)
LEMMA Sums ==
    ASSUME NEW c \in Nat, NEW d \in Nat, NEW o \in Nat, NEW n \in Nat, NEW g \in Nat, d <= c
    PROVE  /\ c + o <= g /\ n <= o => d + n <= g
           /\ c <= g /\ n <= 1 => d + n <= g + 1
  OBVIOUS

(* A page that is lost belongs to a request that was given up. *)
LEMMA NextLost ==
    ASSUME PlaceInv, LostOK, [Next]_vars
    PROVE  LostOK'
  <1> DEFINE c == Cardinality(Lost)
             d == Cardinality(Lost')
  <1>1. /\ StateOK /\ PlaceOK /\ StateOK' /\ PlaceOK'
        /\ ToSet(rxq) \subseteq Pages /\ Nowhere \notin Pages
        /\ gaveUp \in Nat /\ asked \in BOOLEAN /\ asked' \in BOOLEAN
    BY NextTypes, NextPlaces, Elements, EthernetAssumption DEF PlaceInv, StateOK
  <1>2. /\ c \in Nat /\ d \in Nat
        /\ Lost' \subseteq Lost => d <= c
        /\ \A x : Lost' \subseteq Lost \cup {x} => d <= c + 1
    <2>1. Lost \in SUBSET Pages /\ Lost' \in SUBSET Pages
      BY DEF Lost
    <2> QED BY <2>1, Counted
  <1>3. /\ Owed \in Nat /\ Owed' \in Nat /\ Owed <= 1 /\ Owed' <= 1
        /\ Owed \in {0, 1} /\ Owed' \in {0, 1}
    BY DEF Owed
  <1> HIDE DEF c, d
  <1>4. board' = board
    BY DEF Next, vars, Arrive, Transmit, Stick, Allocate, Discard, NetLoopStart, NetLoopReturn,
       TimeHandler, Receives, SmcRead, SmcRelease, CsRead, EasyRead, ElRead, NetReceive, Sends,
       SmcAlloc, SmcEnqueue, SmcNoMemory, SmcSent, SmcTimeout, CsSend, CsRetry, CsSent, EasySend,
       EasySent, ElSend
  <1> SUFFICES ASSUME board = "smc91111"
               PROVE  LostOK'
    BY <1>4 DEF LostOK
  <1>5. c + Owed <= gaveUp
    BY DEF LostOK, c
  <1>6. ASSUME Lost' \subseteq Lost, Owed' <= Owed, gaveUp' = gaveUp
        PROVE  LostOK'
    <2>1. d + Owed' <= gaveUp
      <3>1. d <= c /\ c \in Nat /\ d \in Nat /\ gaveUp \in Nat
        BY <1>1, <1>2, <1>6
      <3>2. c + Owed <= gaveUp /\ Owed' <= Owed /\ Owed \in Nat /\ Owed' \in Nat
        BY <1>3, <1>5, <1>6
      <3> QED BY <3>1, <3>2, Sums
    <2> QED BY <1>6, <2>1 DEF LostOK, d
  <1>7. ASSUME NEW good \in BOOLEAN, Arrive(good)
        PROVE  LostOK'
    <2>1. CASE rxOn /\ free \cap Pages # {}
      <3> DEFINE p == Min(free \cap Pages)
      <3>1. p \in free \cap Pages
        BY <1>1, <2>1, NextPage
      <3>2. free' = free \ {p} /\ rxq' = Append(rxq, p)
        BY <1>7, <2>1 DEF Arrive
      <3> HIDE DEF p
      <3>3. ToSet(rxq') = ToSet(rxq) \cup {p}
        BY <1>1, <3>1, <3>2, Added DEF StateOK
      <3>4. UNCHANGED <<got, pc, pn, asked, gaveUp>>
        BY <1>7 DEF Arrive
      <3> QED BY <1>3, <1>6, <3>1, <3>2, <3>3, <3>4 DEF Lost, Owed
    <2>2. CASE ~(rxOn /\ free \cap Pages # {})
      BY <1>3, <1>6, <1>7, <2>2 DEF Arrive, Lost, Owed
    <2> QED BY <2>1, <2>2
  <1>8. CASE Transmit \/ Stick \/ UNCHANGED vars
    BY <1>3, <1>6, <1>8 DEF Transmit, Stick, vars, controller, history, Lost, Owed
  <1>9. CASE Allocate
    <2>1. /\ got' \in free \cap Pages /\ free' = free \ {got'} /\ ~asked' /\ asked
          /\ UNCHANGED <<pc, rxq, pn, gaveUp>>
      BY <1>1, <1>9, NextPage DEF Allocate, history
    <2>2. Lost' \subseteq Lost
      <3>1. got \notin Pages
        BY <1>1, <2>1 DEF PlaceOK
      <3> QED BY <2>1, <3>1 DEF Lost
    <2>3. Owed' <= Owed
      BY <1>3, <2>1 DEF Owed
    <2> QED BY <1>6, <2>1, <2>2, <2>3
  <1>10. CASE NetLoopStart
    <2>1. /\ free' = AllPages /\ ~asked' /\ got' = Nowhere /\ gaveUp' = 0 /\ pc' = "loop"
      BY <1>10 DEF NetLoopStart, EthInit, ControllerReset, AllPages
    <2>2. Lost' = {} /\ Owed' = 0
      BY <2>1 DEF Lost, Owed, AllPages
    <2>3. d = 0
      BY <2>2, FS_EmptySet DEF d
    <2> QED BY <2>1, <2>2, <2>3 DEF LostOK, d
  <1>11. CASE NetLoopReturn \/ TimeHandler \/ SmcRead \/ NetReceive
    BY <1>3, <1>6, <1>11
       DEF NetLoopReturn, TimeHandler, SmcRead, NetReceive, controller, history, Lost, Owed
  <1>12. CASE SmcRelease
    <2>1. /\ rxq # <<>> /\ rxq' = Tail(rxq) /\ free' = free \cup {Head(rxq)}
          /\ pc = "release" /\ pc' \in {"loop", "receive"}
          /\ UNCHANGED <<asked, got, pn, gaveUp>>
      BY <1>1, <1>12 DEF SmcRelease, PlaceOK, history
    <2>2. ToSet(rxq) = ToSet(Tail(rxq)) \cup {Head(rxq)}
      BY <1>1, <2>1, Taken DEF StateOK
    <2>3. Owed' <= Owed
      BY <1>3, <2>1 DEF Owed
    <2>4. Lost' \subseteq Lost
      BY <2>1, <2>2 DEF Lost
    <2> QED BY <1>6, <2>1, <2>3, <2>4
  <1>13. CASE SmcAlloc
    <2>1. /\ pc = "send" /\ pc' = "alloc" /\ got' = Nowhere /\ asked' = TRUE
          /\ UNCHANGED <<free, rxq, gaveUp>>
      BY <1>13 DEF SmcAlloc, history
    <2>2. Owed' = 0
      BY <2>1 DEF Owed
    <2>3. CASE got = Nowhere
      <3>1. Lost' \subseteq Lost
        BY <1>1, <2>1, <2>3 DEF Lost
      <3>2. Owed' <= Owed
        BY <1>3, <2>2
      <3> QED BY <1>6, <2>1, <3>1, <3>2
    <2>4. CASE got # Nowhere
      <3>1. Owed = 1
        BY <2>1, <2>4 DEF Owed
      <3>2. Lost' \subseteq Lost \cup {got}
        BY <1>1, <2>1 DEF Lost
      <3>3. d + Owed' <= gaveUp'
        BY <1>1, <1>2, <1>5, <2>1, <2>2, <3>1, <3>2
      <3> QED BY <3>3 DEF LostOK, d
    <2> QED BY <2>3, <2>4
  <1>14. CASE SmcEnqueue
    <2>1. /\ pc = "alloc" /\ pc' = "wait" /\ pn' = got /\ UNCHANGED <<free, rxq, gaveUp>>
      BY <1>14 DEF SmcEnqueue, history
    <2>2. Lost' \subseteq Lost
      BY <2>1 DEF Lost
    <2>3. Owed' <= Owed
      BY <1>3, <2>1 DEF Owed
    <2> QED BY <1>6, <2>1, <2>2, <2>3
  <1>15. CASE SmcNoMemory
    <2>1. Lost' \subseteq Lost
      BY <1>15 DEF SmcNoMemory, Return, controller, Lost
    <2>2. CASE gaveUp' = gaveUp
      <3>1. Owed' <= Owed
        BY <1>1, <1>3, <1>15, <2>2 DEF SmcNoMemory, Return, controller, Owed
      <3> QED BY <1>6, <2>1, <2>2, <3>1
    <2>3. CASE gaveUp' = gaveUp + 1
      <3>1. d + Owed' <= gaveUp'
        <4>1. d <= c /\ c \in Nat /\ d \in Nat /\ gaveUp \in Nat
          BY <1>1, <1>2, <2>1
        <4>2. c <= gaveUp
          BY <1>3, <1>5, <4>1
        <4>3. Owed' \in Nat /\ Owed' <= 1
          BY <1>3
        <4> QED BY <2>3, <4>1, <4>2, <4>3, Sums
      <3> QED BY <3>1 DEF LostOK, d
    <2> QED BY <1>15, <2>2, <2>3 DEF SmcNoMemory
  <1>16. CASE SmcSent \/ SmcTimeout
    <2>1. /\ pc = "wait" /\ pc' = "loop" /\ free' = free \cup {pn} /\ ~asked /\ got = Nowhere
          /\ UNCHANGED <<rxq, asked, got, pn, gaveUp>>
      BY <1>1, <1>16 DEF SmcSent, SmcTimeout, Return, PlaceOK
    <2>2. Lost' \subseteq Lost
      BY <2>1 DEF Lost
    <2>3. Owed' <= Owed
      BY <1>3, <2>1 DEF Owed
    <2> QED BY <1>6, <2>1, <2>2, <2>3
  <1>17. ~Discard /\ ~CsRead /\ ~EasyRead /\ ~ElRead /\ ~CsSend /\ ~CsRetry /\ ~CsSent /\ ~EasySend
            /\ ~EasySent /\ ~ElSend
    BY <1>1 DEF PlaceOK, Discard, CsRead, EasyRead, ElRead, CsSend, CsRetry, CsSent, EasySend,
                EasySent, ElSend
  <1> QED BY <1>7, <1>8, <1>9, <1>10, <1>11, <1>12, <1>13, <1>14, <1>15, <1>16, <1>17
          DEF Next, Receives, Sends

-----------------------------------------------------------------------------
(* Completions. *)

(* Nothing happens to the frame that is on its way. *)
LEMMA SameQueue ==
    ASSUME QueueOK, UNCHANGED <<board, said, late, done, txq>>, finished \subseteq finished',
           pc' = "wait" <=> pc = "wait",
           pc = "wait" => /\ out' = out
                          /\ \A p \in AllPages \ free : mem'[p] = mem[p] /\ p \notin free'
    PROVE  QueueOK'
  <1>1. CASE pc = "wait"
    <2>1. ASSUME NEW p \in AllPages, txq = <<p>>, mem[p] = out, p \notin free
          PROVE  txq' = <<p>> /\ mem'[p] = out' /\ p \notin free'
      BY <1>1, <2>1
    <2> QED BY <1>1, <2>1 DEF QueueOK
  <1>2. CASE pc # "wait"
    BY <1>2 DEF QueueOK
  <1> QED BY <1>1, <1>2

(* A completion belongs to the frame that is waited for. *)
LEMMA NextQueue ==
    ASSUME PlaceInv, QueueOK, [Next]_vars
    PROVE  QueueOK'
  <1>1. /\ StateOK /\ PlaceOK /\ late \in BOOLEAN /\ txq \in Seq(AllPages)
        /\ mem \in [AllPages -> AnyFrame] /\ done \in Nat
        /\ board \in {"smc91111", "cs8900", "easynet", "3c589"}
    BY EthernetAssumption DEF PlaceInv, StateOK
  <1>2. ASSUME NEW good \in BOOLEAN, Arrive(good)
        PROVE  QueueOK'
    <2>1. CASE rxOn /\ free \cap Pages # {}
      <3> DEFINE p == Min(free \cap Pages)
      <3>1. p \in free \cap Pages
        BY <1>1, <2>1, NextPage
      <3>2. free' = free \ {p} /\ mem' = [mem EXCEPT ![p] = In(arrived', good)]
        BY <1>2, <2>1 DEF Arrive
      <3> HIDE DEF p
      <3>3. \A q \in AllPages \ free : mem'[q] = mem[q] /\ q \notin free'
        BY <1>1, <3>1, <3>2
      <3> QED BY <1>2, <3>3, SameQueue DEF Arrive
    <2>2. CASE ~(rxOn /\ free \cap Pages # {})
      BY <1>2, <2>2, SameQueue DEF Arrive
    <2> QED BY <2>1, <2>2
  <1>3. CASE Stick \/ NetLoopReturn \/ TimeHandler \/ SmcRead \/ SmcRelease \/ CsRead \/ ElRead
               \/ NetReceive \/ SmcAlloc \/ UNCHANGED vars
    BY <1>1, <1>3, SameQueue
       DEF Stick, NetLoopReturn, TimeHandler, SmcRead, SmcRelease, CsRead, ElRead, NetReceive,
           SmcAlloc, vars, controller, history
  <1>4. CASE Allocate
    <2>1. UNCHANGED <<board, said, late, done, txq, finished, pc, out, mem>> /\ free' \subseteq free
      BY <1>4 DEF Allocate, history
    <2> QED BY <2>1, SameQueue
  <1>5. CASE Discard \/ CsSend \/ CsRetry \/ CsSent \/ ElSend
    <2>1. board \in {"cs8900", "3c589"} /\ board' = board
      BY <1>1, <1>5 DEF Discard, CsSend, CsRetry, CsSent, ElSend, PlaceOK
    <2>2. said = None /\ said' = None
      BY <1>5, <2>1 DEF Discard, CsSend, CsRetry, CsSent, ElSend, QueueOK, Return, history
    <2> QED BY <2>1, <2>2 DEF QueueOK
  <1>6. CASE Transmit
    <2>1. /\ txq # <<>> /\ finished' = finished \cup {mem[Head(txq)]}
          /\ txq' = Tail(txq) /\ done' = done + 1
          /\ UNCHANGED <<board, pc, mem, out, said, late>>
      BY <1>6 DEF Transmit
    <2>2. CASE board \in {"smc91111", "easynet"} /\ ~late
      <3>1. PICK p \in AllPages : txq = <<p>> /\ mem[p] = out /\ done = 0 /\ pc = "wait"
        BY <2>1, <2>2 DEF QueueOK
      <3>2. Head(txq) = p /\ Tail(txq) = <<>>
        BY <3>1
      <3>3. done' = 1 /\ txq' = <<>> /\ out' \in finished' /\ pc' = "wait"
        BY <2>1, <3>1, <3>2
      <3> QED BY <2>1, <2>2, <3>3 DEF QueueOK
    <2>3. CASE ~(board \in {"smc91111", "easynet"} /\ ~late)
      BY <2>1, <2>3 DEF QueueOK
    <2> QED BY <2>2, <2>3
  <1>7. CASE NetLoopStart
    <2>1. said' = None /\ late' = FALSE /\ txq' = <<>> /\ done' = 0 /\ pc' = "loop"
      BY <1>7 DEF NetLoopStart, EthInit, ControllerReset
    <2> QED BY <2>1 DEF QueueOK
  <1>8. CASE EasyRead
    <2>1. /\ done' = 0 /\ pc = "loop" /\ pc' # "wait" /\ board = "easynet"
          /\ UNCHANGED <<board, said, late, finished, txq>>
      BY <1>8 DEF EasyRead, history
    <2> QED BY <2>1 DEF QueueOK
  <1>9. CASE SmcEnqueue
    <2>1. /\ pc = "alloc" /\ pc' = "wait" /\ got \in Pages /\ got \notin free
          /\ mem' = [mem EXCEPT ![got] = out] /\ txq' = Append(txq, got)
          /\ UNCHANGED <<board, said, late, finished, done, out, free>> /\ board = "smc91111"
      BY <1>1, <1>9 DEF SmcEnqueue, Enqueue, history, PlaceOK, StateOK
    <2>2. txq = <<>> => txq' = <<got>>
      BY <2>1
    <2>3. got \in AllPages /\ mem'[got] = out'
      BY <1>1, <2>1 DEF AllPages
    <2> QED BY <2>1, <2>2, <2>3 DEF QueueOK
  <1>10. CASE SmcNoMemory
    <2>1. /\ said' \in {said, None} /\ pc = "alloc" /\ pc' # "wait"
          /\ UNCHANGED <<board, late, finished, txq, done>>
      BY <1>10 DEF SmcNoMemory, Return, controller
    <2> QED BY <2>1 DEF QueueOK
  <1>11. CASE SmcSent \/ EasySent
    <2>1. /\ pc = "wait" /\ pc' = "loop" /\ said' = out /\ done > 0
          /\ done' = 0 \/ done' = done - 1
          /\ board \in {"smc91111", "easynet"}
          /\ UNCHANGED <<board, late, finished, txq>>
      BY <1>11 DEF SmcSent, EasySent, Return
    <2>2. ~late => done = 1 /\ txq = <<>> /\ out \in finished
      BY <1>1, <2>1 DEF QueueOK
    <2>3. ~late => done' = 0
      BY <2>1, <2>2
    <2> QED BY <2>1, <2>2, <2>3 DEF QueueOK
  <1>12. CASE SmcTimeout
    BY <1>12 DEF SmcTimeout, Return, QueueOK
  <1>13. CASE EasySend
    <2>1. /\ pc = "send" /\ board = "easynet"
          /\ UNCHANGED <<board, late, finished, done, out>>
      BY <1>13 DEF EasySend
    <2>2. CASE stuck
      BY <1>13, <2>1, <2>2 DEF EasySend, QueueOK, Return
    <2>3. CASE ~stuck
      <3>1. PICK p \in free \cap Fifo :
              /\ mem' = [mem EXCEPT ![p] = out] /\ txq' = Append(txq, p) /\ free' = free \ {p}
        BY <1>13, <2>3 DEF EasySend, Enqueue
      <3>2. txq = <<>> => txq' = <<p>>
        BY <3>1
      <3>3. p \in AllPages /\ mem'[p] = out' /\ p \notin free'
        BY <1>1, <2>1, <3>1 DEF AllPages
      <3>4. pc' = "wait" /\ said' = said
        BY <1>13, <2>3 DEF EasySend
      <3> QED BY <2>1, <3>2, <3>3, <3>4 DEF QueueOK
    <2> QED BY <2>2, <2>3
  <1> QED BY <1>2, <1>3, <1>4, <1>5, <1>6, <1>7, <1>8, <1>9, <1>10, <1>11, <1>12, <1>13
          DEF Next, Receives, Sends

-----------------------------------------------------------------------------
(* Delivery. *)

(* A later frame is queued; the frames before are not touched. *)
LEMMA RisingAdded ==
    ASSUME NEW s \in Seq(Pages), NEW m, NEW t, NEW x \in Pages, Rising(s, m),
           \A p \in ToSet(s) : t[p] = m[p] /\ m[p].no < t[x].no
    PROVE  Rising(Append(s, x), t)
  <1> DEFINE n == Len(s)
             u == Append(s, x)
  <1>1. /\ n \in Nat /\ \A i \in 1..n : u[i] = s[i] /\ s[i] \in ToSet(s)
        /\ u[n + 1] = x /\ Len(u) = n + 1 /\ u \in Seq(Pages)
    BY AppendProperties, Elements
  <1>2. DOMAIN s = 1..n
    BY Elements
  <1> HIDE DEF u
  <1>3. DOMAIN u = 1..(n + 1)
    BY <1>1, Elements
  <1> HIDE DEF n
  <1>4. ASSUME NEW i \in 1..(n + 1), NEW j \in 1..(n + 1), i < j
        PROVE  t[u[i]].no < t[u[j]].no
    <2>1. i \in 1..n /\ (j \in 1..n \/ j = n + 1)
      BY <1>1, <1>4
    <2>2. u[i] = s[i] /\ t[u[i]] = m[s[i]]
      BY <1>1, <2>1
    <2>3. CASE j \in 1..n
      <3>1. t[u[j]] = m[s[j]] /\ m[s[i]].no < m[s[j]].no
        BY <1>1, <1>2, <1>4, <2>1, <2>3 DEF Rising
      <3> QED BY <2>2, <3>1
    <2>4. CASE j = n + 1
      BY <1>1, <2>1, <2>2, <2>4
    <2> QED BY <2>1, <2>3, <2>4
  <1> QED BY <1>3, <1>4 DEF Rising, u

(* The first frame goes; it is earlier than the others. *)
LEMMA RisingTaken ==
    ASSUME NEW s \in Seq(Pages), NEW m, s # <<>>, Rising(s, m)
    PROVE  /\ Rising(Tail(s), m)
           /\ \A p \in ToSet(Tail(s)) : m[Head(s)].no < m[p].no
  <1> DEFINE n == Len(s)
             u == Tail(s)
  <1>1. /\ n \in Nat \ {0} /\ Len(u) = n - 1 /\ u \in Seq(Pages)
        /\ \A i \in 1..(n - 1) : u[i] = s[i + 1]
    BY HeadTailProperties, Elements
  <1>2. DOMAIN s = 1..n /\ Head(s) = s[1]
    BY Elements
  <1> HIDE DEF u
  <1>3. DOMAIN u = 1..(n - 1) /\ ToSet(u) = {u[i] : i \in 1..(n - 1)}
    BY <1>1, Elements
  <1> HIDE DEF n
  <1>4. \A i, j \in 1..n : i < j => m[s[i]].no < m[s[j]].no
    BY <1>2 DEF Rising
  <1>5. \A i \in 1..(n - 1) : i + 1 \in 1..n /\ 1 < i + 1 /\ 1 \in 1..n
    BY <1>1
  <1>6. ASSUME NEW i \in 1..(n - 1), NEW j \in 1..(n - 1), i < j
        PROVE  m[u[i]].no < m[u[j]].no
    <2>1. i + 1 < j + 1
      BY <1>6
    <2> QED BY <1>1, <1>4, <1>5, <2>1
  <1>7. ASSUME NEW i \in 1..(n - 1)
        PROVE  m[s[1]].no < m[u[i]].no
    BY <1>1, <1>4, <1>5
  <1> QED BY <1>2, <1>3, <1>6, <1>7 DEF Rising, u

(* A later frame is delivered. *)
LEMMA ClimbingAdded ==
    ASSUME NEW s \in Seq(Nat), NEW x \in Nat, Climbing(s), \A d \in ToSet(s) : d < x
    PROVE  Climbing(Append(s, x))
  <1> DEFINE n == Len(s)
             u == Append(s, x)
  <1>1. /\ n \in Nat /\ \A i \in 1..n : u[i] = s[i] /\ s[i] < x
        /\ u[n + 1] = x /\ Len(u) = n + 1 /\ u \in Seq(Nat)
    BY AppendProperties, Elements
  <1>2. DOMAIN s = 1..n
    BY Elements
  <1> HIDE DEF u
  <1>3. DOMAIN u = 1..(n + 1)
    BY <1>1, Elements
  <1> HIDE DEF n
  <1>4. ASSUME NEW i \in 1..(n + 1), NEW j \in 1..(n + 1), i < j
        PROVE  u[i] < u[j]
    <2>1. i \in 1..n /\ (j \in 1..n \/ j = n + 1)
      BY <1>1, <1>4
    <2>2. CASE j \in 1..n
      BY <1>1, <1>2, <1>4, <2>1, <2>2 DEF Climbing
    <2>3. CASE j = n + 1
      BY <1>1, <2>1, <2>3
    <2> QED BY <2>1, <2>2, <2>3
  <1> QED BY <1>3, <1>4 DEF Climbing, u

(* Nothing happens to received frames. *)
LEMMA SameRx ==
    ASSUME PlaceInv, RxOK, UNCHANGED <<rxq, delivered, in, arrived, accepted, discarding>>,
           \A p \in ToSet(rxq) : mem'[p] = mem[p],
           pc' = "release" <=> pc = "release", pc' = "receive" <=> pc = "receive"
    PROVE  RxOK'
  <1>1. /\ rxq \in Seq(Pages) /\ DOMAIN rxq = 1..Len(rxq)
        /\ \A i \in DOMAIN rxq : rxq[i] \in ToSet(rxq)
    BY Elements DEF PlaceInv, StateOK
  <1>2. Rising(rxq', mem')
    BY <1>1 DEF RxOK, Rising
  <1>3. rxq # <<>> => First' = First
    <2>1. rxq # <<>> => Head(rxq) \in ToSet(rxq)
      BY <1>1, Taken
    <2> QED BY <2>1 DEF First
  <1>4. Unread' = Unread /\ Unread \subseteq ToSet(rxq)
    BY DEF Unread
  <1>5. {mem'[p].no : p \in ToSet(rxq)} = {mem[p].no : p \in ToSet(rxq)}
    OBVIOUS
  <1>6. pc = "release" \/ discarding => rxq # <<>>
    BY DEF PlaceInv, PlaceOK
  <1> QED BY <1>2, <1>3, <1>4, <1>5, <1>6 DEF RxOK

(* What is known of the first frame in the controller. *)
LEMMA FirstFrame ==
    ASSUME PlaceInv, RxOK, rxq # <<>>
    PROVE  /\ rxq \in Seq(Pages) /\ Head(rxq) \in ToSet(rxq)
           /\ ToSet(rxq) = ToSet(Tail(rxq)) \cup {Head(rxq)}
           /\ Head(rxq) \notin ToSet(Tail(rxq))
           /\ First.no \in 1..arrived /\ (~First.good => First.no \notin accepted)
           /\ \A p \in ToSet(Tail(rxq)) : First.no < mem[p].no
           /\ Rising(Tail(rxq), mem) /\ First # None
  <1>1. rxq \in Seq(Pages) /\ Distinct(rxq) /\ Rising(rxq, mem)
    BY DEF PlaceInv, StateOK, PlaceOK, RxOK
  <1>2. /\ Head(rxq) \in ToSet(rxq) /\ Head(rxq) \notin ToSet(Tail(rxq))
        /\ ToSet(rxq) = ToSet(Tail(rxq)) \cup {Head(rxq)}
    BY <1>1, Taken
  <1>3. Rising(Tail(rxq), mem) /\ \A p \in ToSet(Tail(rxq)) : First.no < mem[p].no
    BY <1>1, RisingTaken DEF First
  <1>4. First.no \in 1..arrived /\ (~First.good => First.no \notin accepted)
    BY <1>2 DEF RxOK, First
  <1>5. First # None
    BY <1>4 DEF None
  <1> QED BY <1>1, <1>2, <1>3, <1>4, <1>5

(* A frame is copied, and its page given back or not yet. *)
LEMMA ReadRx ==
    ASSUME PlaceInv, RxOK, pc = "loop", ~discarding, rxq # <<>>,
           UNCHANGED <<mem, arrived, accepted, delivered>>,
           in' = First \/ (in' = None /\ ~First.good),
           \/ /\ rxq' = Tail(rxq) /\ ~discarding'
              /\ pc' = IF in' = None THEN "loop" ELSE "receive"
           \/ rxq' = rxq /\ pc' = "release" /\ ~discarding'
           \/ /\ rxq' = rxq /\ discarding'
              /\ pc' = IF in' = None THEN "loop" ELSE "receive"
    PROVE  RxOK'
  <1>1. /\ rxq \in Seq(Pages) /\ Head(rxq) \in ToSet(rxq)
        /\ ToSet(rxq) = ToSet(Tail(rxq)) \cup {Head(rxq)}
        /\ Head(rxq) \notin ToSet(Tail(rxq))
        /\ First.no \in 1..arrived /\ (~First.good => First.no \notin accepted)
        /\ \A p \in ToSet(Tail(rxq)) : First.no < mem[p].no
        /\ Rising(Tail(rxq), mem) /\ First # None
    BY FirstFrame
  <1>2. in = None /\ None.no = 0 /\ accepted \subseteq 1..arrived /\ arrived \in Nat
    BY DEF RxOK, None, PlaceInv, StateOK
  <1>3. Unread = ToSet(rxq) /\ Unread' = ToSet(Tail(rxq)) /\ ToSet(rxq') \subseteq ToSet(rxq)
    BY <1>1 DEF Unread
  <1>4. Rising(rxq', mem')
    BY <1>1 DEF RxOK
  <1>5. in'.no \in 0..arrived /\ (in'.no # 0 => in' = First)
    BY <1>1, <1>2
  <1>6. \A d \in ToSet(delivered) : d < First.no
    BY <1>1, <1>3 DEF RxOK, First
  <1>7. /\ \A p \in ToSet(rxq') : /\ mem'[p].no \in 1..arrived'
                                  /\ ~mem'[p].good => mem'[p].no \notin accepted'
        /\ ToSet(delivered') \subseteq 1..arrived' /\ Climbing(delivered')
    BY <1>3 DEF RxOK
  <1>8. \A p \in Unread' : in'.no < mem'[p].no /\ \A d \in ToSet(delivered') : d < mem'[p].no
    <2>1. ASSUME NEW p \in ToSet(Tail(rxq)) PROVE in'.no < mem[p].no
      <3>1. First.no < mem[p].no /\ mem[p].no \in 1..arrived
        BY <1>1, <2>1 DEF RxOK
      <3> QED BY <1>2, <1>5, <3>1
    <2>2. \A p \in ToSet(Tail(rxq)) : \A d \in ToSet(delivered) : d < mem[p].no
      BY <1>1, <1>3 DEF RxOK
    <2> QED BY <1>3, <2>1, <2>2
  <1>9. accepted' \subseteq ToSet(delivered') \cup {in'.no} \cup {mem'[p].no : p \in ToSet(rxq')}
    <2>1. ASSUME NEW n \in accepted
          PROVE  n \in ToSet(delivered) \cup {in'.no} \cup {mem[p].no : p \in ToSet(Tail(rxq))}
      <3>1. n \in ToSet(delivered) \/ n = 0 \/ \E p \in ToSet(rxq) : n = mem[p].no
        BY <1>2 DEF RxOK
      <3>2. n # 0
        BY <1>2
      <3>3. ASSUME NEW p \in ToSet(rxq), n = mem[p].no, p \notin ToSet(Tail(rxq))
            PROVE  n = in'.no
        <4>1. n = First.no
          BY <1>1, <3>3 DEF First
        <4> QED BY <1>1, <4>1
      <3> QED BY <3>1, <3>2, <3>3
    <2>2. ToSet(Tail(rxq)) \subseteq ToSet(rxq')
      BY <1>1
    <2> QED BY <2>1, <2>2
  <1>10. /\ pc' \notin {"release", "receive"} => in' = None
         /\ pc' = "receive" => in'.no # 0
    BY <1>1, <1>2
  <1>11. /\ pc' = "release" => in' = First' \/ (in' = None /\ ~First'.good)
         /\ discarding' => (First'.good => First'.no \in ToSet(delivered') \cup {in'.no})
    BY DEF First
  <1> QED BY <1>4, <1>5, <1>6, <1>7, <1>8, <1>9, <1>10, <1>11 DEF RxOK

(* The page of a frame that was copied is given back. *)
LEMMA DropRx ==
    ASSUME PlaceInv, RxOK, rxq # <<>>, pc = "release" \/ discarding,
           UNCHANGED <<mem, arrived, accepted, delivered, in>>, rxq' = Tail(rxq),
           First.good => First.no \in ToSet(delivered) \cup {in.no},
           pc' # "release", ~discarding',
           pc' # "receive" => in = None, pc' = "receive" => in.no # 0
    PROVE  RxOK'
  <1>1. /\ ToSet(rxq) = ToSet(Tail(rxq)) \cup {Head(rxq)}
        /\ Head(rxq) \notin ToSet(Tail(rxq))
        /\ ~First.good => First.no \notin accepted
        /\ Rising(Tail(rxq), mem)
    BY FirstFrame
  <1>2. Unread' = Unread
    BY <1>1 DEF Unread
  <1>3. accepted \subseteq ToSet(delivered) \cup {in.no} \cup {mem[p].no : p \in ToSet(Tail(rxq))}
    BY <1>1 DEF RxOK, First
  <1> QED BY <1>1, <1>2, <1>3 DEF RxOK

(* NetReceive gets the frame. *)
LEMMA DeliverRx ==
    ASSUME PlaceInv, RxOK, NetReceive
    PROVE  RxOK'
  <1>1. /\ pc = "receive" /\ pc' \notin {"release", "receive"} /\ in' = None
        /\ delivered' = Append(delivered, in.no)
        /\ UNCHANGED <<mem, rxq, arrived, accepted, discarding>>
    BY DEF NetReceive, controller
  <1>2. in.no # 0 /\ in.no \in 1..arrived /\ in.no \in Nat /\ delivered \in Seq(Nat)
    BY <1>1 DEF RxOK, PlaceInv, StateOK
  <1>3. ToSet(delivered') = ToSet(delivered) \cup {in.no}
    BY <1>1, <1>2, Added
  <1>4. Climbing(delivered')
    BY <1>1, <1>2, ClimbingAdded DEF RxOK
  <1>5. Unread' = Unread
    BY <1>1 DEF Unread
  <1>6. None.no = 0 /\ First' = First
    BY <1>1 DEF None, First
  <1>7. \A p \in Unread' : in'.no < mem'[p].no /\ \A d \in ToSet(delivered') : d < mem'[p].no
    <2>1. ASSUME NEW p \in Unread PROVE 0 < mem[p].no
      <3>1. mem[p].no \in 1..arrived
        BY DEF RxOK, Unread
      <3> QED BY <3>1
    <2>2. \A p \in Unread : in.no < mem[p].no /\ \A d \in ToSet(delivered) : d < mem[p].no
      BY DEF RxOK
    <2> QED BY <1>1, <1>3, <1>5, <1>6, <2>1, <2>2
  <1>8. /\ in'.no \in 0..arrived' /\ ToSet(delivered') \subseteq 1..arrived'
    <2>1. arrived \in Nat
      BY DEF PlaceInv, StateOK
    <2> QED BY <1>1, <1>2, <1>3, <1>6, <2>1 DEF RxOK
  <1>9. accepted' \subseteq ToSet(delivered') \cup {in'.no} \cup {mem'[p].no : p \in ToSet(rxq')}
    BY <1>1, <1>3 DEF RxOK
  <1>10. discarding' => (First'.good => First'.no \in ToSet(delivered') \cup {in'.no})
    BY <1>1, <1>3, <1>6 DEF RxOK
  <1>11. /\ \A p \in ToSet(rxq') : /\ mem'[p].no \in 1..arrived'
                                   /\ ~mem'[p].good => mem'[p].no \notin accepted'
         /\ Rising(rxq', mem')
    BY <1>1 DEF RxOK
  <1> QED BY <1>1, <1>4, <1>6, <1>7, <1>8, <1>9, <1>10, <1>11 DEF RxOK

(* A frame arrives: it is numbered after all the others. *)
LEMMA ArriveRx ==
    ASSUME PlaceInv, RxOK, NEW good \in BOOLEAN, Arrive(good)
    PROVE  RxOK'
  <1> DEFINE n == arrived + 1
  <1>1. /\ rxq \in Seq(Pages) /\ arrived \in Nat /\ n \in Nat /\ n \notin 1..arrived
        /\ 1..arrived \subseteq 1..n /\ 0..arrived \subseteq 0..n
        /\ n \in 1..n /\ \A i \in 0..arrived : i < n
        /\ \A i \in 1..arrived : i \in 0..arrived
        /\ mem \in [AllPages -> AnyFrame] /\ accepted \subseteq 1..arrived
    BY DEF PlaceInv, StateOK
  <1>2. /\ arrived' = n /\ UNCHANGED <<pc, in, delivered, discarding>>
    BY DEF Arrive
  <1>3. pc = "release" \/ discarding => rxq # <<>>
    BY DEF PlaceInv, PlaceOK
  <1>4. DOMAIN rxq = 1..Len(rxq) /\ (rxq # <<>> => Head(rxq) \in ToSet(rxq))
    BY <1>1, Elements, Taken
  <1> HIDE DEF n
  <1>5. CASE rxOn /\ free \cap Pages # {}
    <2> DEFINE p == Min(free \cap Pages)
    <2>1. p \in free \cap Pages /\ p \in AllPages
      BY <1>5, NextPage DEF PlaceInv, AllPages
    <2>2. /\ mem' = [mem EXCEPT ![p] = In(arrived', good)] /\ rxq' = Append(rxq, p)
          /\ accepted' = IF good THEN accepted \cup {arrived'} ELSE accepted
      BY <1>5 DEF Arrive
    <2> HIDE DEF p
    <2>3. p \notin ToSet(rxq) /\ mem'[p].no = n /\ mem'[p].good = good
          /\ \A q \in ToSet(rxq) : mem'[q] = mem[q]
      <3>1. p \notin ToSet(rxq)
        BY <2>1 DEF PlaceInv, PlaceOK
      <3>2. mem'[p] = In(n, good)
        BY <1>1, <1>2, <2>1, <2>2
      <3>3. \A q \in ToSet(rxq) : mem'[q] = mem[q]
        <4>1. ToSet(rxq) \subseteq AllPages
          BY <1>1, Elements DEF AllPages
        <4> QED BY <1>1, <2>2, <3>1, <4>1
      <3> QED BY <3>1, <3>2, <3>3 DEF In
    <2>4. /\ ToSet(rxq') = ToSet(rxq) \cup {p} /\ (rxq # <<>> => Head(rxq') = Head(rxq))
      BY <1>1, <2>1, <2>2, Added
    <2>5. \A q \in ToSet(rxq) : /\ mem[q].no \in 1..arrived
                                /\ ~mem[q].good => mem[q].no \notin accepted
      BY DEF RxOK
    <2>6. Rising(rxq', mem')
      <3>1. \A q \in ToSet(rxq) : mem'[q] = mem[q] /\ mem[q].no < mem'[p].no
        BY <1>1, <2>3, <2>5
      <3>2. Rising(rxq, mem) /\ p \in Pages
        BY <2>1 DEF RxOK
      <3>3. ASSUME NEW t, t = mem', NEW u, u = rxq'
            PROVE  Rising(u, t)
        BY <1>1, <2>2, <3>1, <3>2, <3>3, RisingAdded
      <3> QED BY <3>3
    <2>7. rxq # <<>> => First' = First
      BY <1>4, <2>3, <2>4 DEF First
    <2>8. Unread' \subseteq Unread \cup {p} /\ Unread \subseteq ToSet(rxq)
      BY <1>2, <1>3, <2>4 DEF Unread
    <2>9. /\ in.no \in 0..arrived /\ ToSet(delivered) \subseteq 1..arrived
      BY DEF RxOK
    <2>10. \A q \in Unread' : in'.no < mem'[q].no /\ \A d \in ToSet(delivered') : d < mem'[q].no
      <3>1. \A q \in Unread : in.no < mem[q].no /\ \A d \in ToSet(delivered) : d < mem[q].no
        BY DEF RxOK
      <3>2. in.no < n /\ \A d \in ToSet(delivered) : d < n
        BY <1>1, <2>9
      <3> QED BY <1>2, <2>3, <2>8, <3>1, <3>2
    <2>11. \A q \in ToSet(rxq') : /\ mem'[q].no \in 1..arrived'
                                  /\ ~mem'[q].good => mem'[q].no \notin accepted'
      <3>1. ASSUME NEW q \in ToSet(rxq)
            PROVE  mem'[q].no \in 1..n /\ (~mem'[q].good => mem'[q].no \notin accepted')
        BY <1>1, <1>2, <2>2, <2>3, <2>5
      <3>2. mem'[p].no \in 1..n /\ (~mem'[p].good => mem'[p].no \notin accepted')
        BY <1>1, <2>2, <2>3
      <3> QED BY <1>2, <2>4, <3>1, <3>2
    <2>12. accepted' \subseteq ToSet(delivered') \cup {in'.no} \cup {mem'[q].no : q \in ToSet(rxq')}
      <3>1. accepted \subseteq ToSet(delivered) \cup {in.no} \cup {mem[q].no : q \in ToSet(rxq)}
        BY DEF RxOK
      <3>2. accepted' \subseteq accepted \cup {n}
        BY <1>2, <2>2
      <3>3. {mem[q].no : q \in ToSet(rxq)} \subseteq {mem'[q].no : q \in ToSet(rxq')}
        BY <2>3, <2>4
      <3>4. n \in {mem'[q].no : q \in ToSet(rxq')}
        BY <2>3, <2>4
      <3> QED BY <1>2, <3>1, <3>2, <3>3, <3>4
    <2>13. /\ in'.no \in 0..arrived' /\ ToSet(delivered') \subseteq 1..arrived'
           /\ Climbing(delivered')
           /\ in'.no # 0 => \A d \in ToSet(delivered') : d < in'.no
      BY <1>1, <1>2, <2>9 DEF RxOK
    <2>14. /\ pc' \notin {"release", "receive"} => in' = None
           /\ pc' = "receive" => in'.no # 0
           /\ pc' = "release" => in' = First' \/ (in' = None /\ ~First'.good)
           /\ discarding' => (First'.good => First'.no \in ToSet(delivered') \cup {in'.no})
      BY <1>2, <1>3, <2>7 DEF RxOK
    <2> QED BY <2>6, <2>10, <2>11, <2>12, <2>13, <2>14 DEF RxOK
  <1>6. CASE ~(rxOn /\ free \cap Pages # {})
    <2>1. UNCHANGED <<mem, rxq, accepted>>
      BY <1>6 DEF Arrive
    <2>2. First' = First /\ Unread' = Unread /\ Rising(rxq', mem')
      BY <1>2, <2>1 DEF First, Unread, RxOK
    <2> QED BY <1>1, <1>2, <2>1, <2>2 DEF RxOK
  <1> QED BY <1>5, <1>6

(* A reset leaves nothing behind. *)
LEMMA ResetRx ==
    ASSUME PlaceInv, RxOK, ControllerReset, pc' \notin {"release", "receive"}, in' = None,
           arrived' = arrived
    PROVE  RxOK'
  <1>1. rxq' = <<>> /\ delivered' = <<>> /\ accepted' = {} /\ ~discarding'
    BY DEF ControllerReset
  <1>2. ToSet(<<>>) = {} /\ DOMAIN <<>> = {}
    <2>1. <<>> \in Seq(Nat) /\ Len(<<>>) = 0
      BY EmptySeq
    <2> QED BY <2>1, EmptyQueue, Elements
  <1>3. Rising(rxq', mem') /\ Climbing(delivered') /\ Unread' = {}
    BY <1>1, <1>2 DEF Rising, Climbing, Unread
  <1>4. in'.no \in 0..arrived' /\ in'.no = 0
    BY DEF None, PlaceInv, StateOK
  <1> QED BY <1>1, <1>2, <1>3, <1>4 DEF RxOK

(* No step loses a frame, delivers one again, or out of order. *)
LEMMA NextRx ==
    ASSUME PlaceInv, RxOK, [Next]_vars
    PROVE  RxOK'
  <1>1. /\ StateOK /\ PlaceOK /\ ToSet(rxq) \subseteq Pages /\ Pages \cap Fifo = {}
        /\ ToSet(rxq) \cap free = {} /\ mem \in [AllPages -> AnyFrame]
    BY Elements, EthernetAssumption DEF PlaceInv, PlaceOK, StateOK
  <1>2. ASSUME NEW good \in BOOLEAN, Arrive(good)
        PROVE  RxOK'
    BY <1>2, ArriveRx
  <1>3. CASE Transmit \/ Stick \/ Allocate \/ SmcAlloc \/ SmcNoMemory \/ SmcSent \/ SmcTimeout
               \/ CsSent \/ EasySent \/ UNCHANGED vars
    BY <1>3, SameRx
       DEF Transmit, Stick, Allocate, SmcAlloc, SmcNoMemory, SmcSent, SmcTimeout, CsSent, EasySent,
           vars, Return, controller, history
  <1>4. CASE NetLoopReturn \/ TimeHandler
    BY <1>4, SameRx DEF NetLoopReturn, TimeHandler, controller, history
  <1>5. CASE Discard
    <2>1. /\ discarding /\ discarding' = FALSE /\ rxq # <<>> /\ rxq' = Tail(rxq) /\ pc # "release"
          /\ UNCHANGED <<pc, mem, arrived, accepted, delivered, in>>
      BY <1>1, <1>5 DEF Discard, PlaceOK, history
    <2> QED BY <2>1, DropRx DEF RxOK
  <1>6. CASE NetLoopStart \/ CsRetry
    <2>1. /\ ControllerReset
          /\ pc \notin {"release", "receive"} /\ pc' \notin {"release", "receive"}
          /\ UNCHANGED <<in, arrived>>
      BY <1>6 DEF NetLoopStart, CsRetry, EthInit
    <2>2. in' = None
      BY <2>1 DEF RxOK
    <2> QED BY <2>1, <2>2, ResetRx
  <1>7. CASE SmcRead
    <2>1. /\ pc = "loop" /\ ~discarding /\ rxq # <<>> /\ pc' = "release"
          /\ in' = IF First.good THEN First ELSE None
          /\ UNCHANGED <<mem, arrived, accepted, delivered, rxq, discarding>>
      BY <1>1, <1>7 DEF SmcRead, controller, history, PlaceOK
    <2> QED BY <2>1, ReadRx
  <1>8. CASE SmcRelease
    <2>1. /\ pc = "release" /\ rxq # <<>> /\ rxq' = Tail(rxq) /\ ~discarding'
          /\ pc' = IF in = None THEN "loop" ELSE "receive"
          /\ UNCHANGED <<mem, arrived, accepted, delivered, in>>
      BY <1>1, <1>8 DEF SmcRelease, history, PlaceOK
    <2>2. First.no \in 1..arrived
      BY <2>1, FirstFrame
    <2>3. in = First \/ (in = None /\ ~First.good)
      BY <2>1 DEF RxOK
    <2>4. First.no # 0
      BY <2>2
    <2> QED BY <2>1, <2>3, <2>4, DropRx
  <1>9. CASE CsRead
    <2>1. /\ pc = "loop" /\ ~discarding /\ ~discarding' /\ rxq # <<>> /\ rxq' = Tail(rxq)
          /\ in' = First /\ pc' = "receive"
          /\ UNCHANGED <<mem, arrived, accepted, delivered>>
      BY <1>1, <1>9 DEF CsRead, history, PlaceOK
    <2>2. First # None
      BY <2>1, FirstFrame
    <2> QED BY <2>1, <2>2, ReadRx
  <1>10. CASE EasyRead
    <2>1. CASE rxq = <<>>
      BY <1>10, <2>1, SameRx DEF EasyRead, history
    <2>2. CASE rxq # <<>>
      <3>1. /\ pc = "loop" /\ ~discarding /\ ~discarding' /\ rxq' = Tail(rxq)
            /\ IF First.good THEN in' = First /\ pc' = "receive" ELSE UNCHANGED <<in, pc>>
            /\ UNCHANGED <<mem, arrived, accepted, delivered>>
        BY <1>1, <1>10, <2>2 DEF EasyRead, history, PlaceOK
      <3>2. First # None /\ in = None
        BY <2>2, <3>1, FirstFrame DEF RxOK
      <3> QED BY <2>2, <3>1, <3>2, ReadRx
    <2> QED BY <2>1, <2>2
  <1>11. CASE ElRead
    <2>1. /\ pc = "loop" /\ ~discarding /\ discarding' /\ rxq # <<>> /\ rxq' = rxq
          /\ IF First.good THEN in' = First /\ pc' = "receive" ELSE UNCHANGED <<in, pc>>
          /\ UNCHANGED <<mem, arrived, accepted, delivered>>
      BY <1>11 DEF ElRead, history
    <2>2. First # None /\ in = None
      BY <2>1, FirstFrame DEF RxOK
    <2> QED BY <2>1, <2>2, ReadRx
  <1>12. CASE NetReceive
    BY <1>12, DeliverRx
  <1>13. ASSUME NEW p \in AllPages \ ToSet(rxq), mem' = [mem EXCEPT ![p] = out]
         PROVE  \A q \in ToSet(rxq) : mem'[q] = mem[q]
    BY <1>1, <1>13
  <1>14. CASE SmcEnqueue
    <2>1. /\ got \in AllPages \ ToSet(rxq) /\ mem' = [mem EXCEPT ![got] = out]
          /\ pc = "alloc" /\ pc' = "wait"
          /\ UNCHANGED <<rxq, delivered, in, arrived, accepted, discarding>>
      BY <1>1, <1>14 DEF SmcEnqueue, Enqueue, history, PlaceOK, StateOK, AllPages
    <2> QED BY <1>13, <2>1, SameRx
  <1>15. CASE CsSend \/ EasySend \/ ElSend
    <2>1. /\ pc \notin {"release", "receive"} /\ pc' \notin {"release", "receive"}
          /\ UNCHANGED <<rxq, delivered, in, arrived, accepted, discarding>>
      BY <1>15 DEF CsSend, EasySend, ElSend, Return, history
    <2>2. mem' = mem \/ \E p \in free : mem' = [mem EXCEPT ![p] = out]
      <3>1. CASE CsSend
        BY <3>1 DEF CsSend, Enqueue
      <3>2. CASE EasySend
        BY <3>2 DEF EasySend, Enqueue
      <3>3. CASE ElSend
        BY <3>3 DEF ElSend, Enqueue
      <3> QED BY <1>15, <3>1, <3>2, <3>3
    <2>3. \A q \in ToSet(rxq) : mem'[q] = mem[q]
      <3>1. free \subseteq AllPages \ ToSet(rxq)
        BY <1>1 DEF StateOK
      <3> QED BY <1>13, <2>2, <3>1
    <2> QED BY <2>1, <2>3, SameRx
  <1> QED BY <1>2, <1>3, <1>4, <1>5, <1>6, <1>7, <1>8, <1>9, <1>10, <1>11, <1>12, <1>14, <1>15
          DEF Next, Receives, Sends

-----------------------------------------------------------------------------
(* The theorems. *)

EthernetInv == PlaceInv /\ RxOK /\ QueueOK /\ LostOK

(* What was said of pages, frames and completions holds in every state. *)
LEMMA Invariant == Spec => []EthernetInv
  <1>1. ASSUME Init
        PROVE  EthernetInv
    <2>1. PlaceInv
      BY <1>1, InitPlaces
    <2>2. RxOK
      <3>1. /\ rxq = <<>> /\ delivered = <<>> /\ accepted = {} /\ ~discarding /\ in = None
            /\ pc = "off" /\ arrived = 0
        BY <1>1 DEF Init
      <3>2. ToSet(<<>>) = {} /\ DOMAIN <<>> = {}
        <4>1. <<>> \in Seq(Nat) /\ Len(<<>>) = 0
          BY EmptySeq
        <4> QED BY <4>1, EmptyQueue, Elements
      <3>3. Rising(rxq, mem) /\ Climbing(delivered) /\ Unread = {}
        BY <3>1, <3>2 DEF Rising, Climbing, Unread
      <3>4. in.no \in 0..arrived /\ in.no = 0
        BY <3>1 DEF None
      <3> QED BY <3>1, <3>2, <3>3, <3>4 DEF RxOK
    <2>3. QueueOK
      BY <1>1 DEF Init, QueueOK
    <2>4. LostOK
      <3>1. Lost = {} /\ Owed = 0 /\ gaveUp = 0
        BY <1>1 DEF Init, Lost, Owed
      <3>2. Cardinality(Lost) = 0
        BY <3>1, FS_EmptySet
      <3> QED BY <3>1, <3>2 DEF LostOK
    <2> QED BY <2>1, <2>2, <2>3, <2>4 DEF EthernetInv
  <1>2. ASSUME EthernetInv, [Next]_vars
        PROVE  EthernetInv'
    <2>1. PlaceInv /\ RxOK /\ QueueOK /\ LostOK
      BY <1>2 DEF EthernetInv
    <2>2. PlaceInv'
      BY <1>2, <2>1, NextTypes, NextPlaces DEF PlaceInv
    <2> QED BY <1>2, <2>1, <2>2, NextRx, NextQueue, NextLost DEF EthernetInv
  <1> QED BY <1>1, <1>2, PTL DEF Spec

(* Each good frame that a controller took in since its last reset is         *)
(* delivered once and in order, or still there: eth_rx of every driver, the  *)
(* page reused while NetReceive runs, eth_send from a handler in between,    *)
(* and the frame that the 3c589 drops later than it is told to.              *)
THEOREM DeliveredHolds == Spec => []DeliveredOnce
  <1>1. EthernetInv => DeliveredOnce
    BY DEF EthernetInv, RxOK, Climbing, DeliveredOnce
  <1> QED BY <1>1, Invariant, PTL

(* What eth_send reports as sent is a frame the controller has finished      *)
(* with, as long as no wait for a completion was given up.                   *)
THEOREM SentHolds == Spec => []SentMeansSent
  <1>1. EthernetInv => SentMeansSent
    BY DEF EthernetInv, QueueOK, SentMeansSent
  <1> QED BY <1>1, Invariant, PTL

(* Between two calls of smc_rcv and smc_send_packet as many pages of the     *)
(* SMC91111 are lost as allocations were given up, at most.                  *)
THEOREM PagesHold == Spec => []PagesReturned
  <1>1. EthernetInv => PagesReturned
    <2> DEFINE M == Pages \ (free \cup ToSet(rxq) \cup ToSet(txq))
    <2> SUFFICES ASSUME EthernetInv, board = "smc91111", pc \in {"off", "loop"}
                 PROVE  Cardinality(M) <= gaveUp
      BY DEF PagesReturned
    <2>1. Cardinality(Lost) + Owed <= gaveUp /\ gaveUp \in Nat
      BY DEF EthernetInv, LostOK, PlaceInv, StateOK
    <2>2. Lost \in SUBSET Pages /\ M \in SUBSET Pages
      BY DEF Lost
    <2>3. Owed = IF asked \/ got # Nowhere THEN 1 ELSE 0
      BY DEF Owed
    <2>4. /\ got = Nowhere => M \subseteq Lost
          /\ M \subseteq Lost \cup {got}
      <3>1. Nowhere \notin Pages
        BY EthernetAssumption
      <3>2. Lost = Pages \ (free \cup ToSet(rxq) \cup {got})
        BY DEF Lost
      <3> QED BY <3>1, <3>2
    <2> HIDE DEF M
    <2>5. /\ Cardinality(Lost) \in Nat /\ Cardinality(M) \in Nat
          /\ M \subseteq Lost => Cardinality(M) <= Cardinality(Lost)
          /\ M \subseteq Lost \cup {got} => Cardinality(M) <= Cardinality(Lost) + 1
      BY <2>2, Counted
    <2>6. CASE got = Nowhere
      <3>1. Owed \in {0, 1}
        BY <2>3
      <3>2. Cardinality(M) <= Cardinality(Lost)
        BY <2>4, <2>5, <2>6
      <3> QED BY <2>1, <2>5, <3>1, <3>2
    <2>7. CASE got # Nowhere
      <3>1. Owed = 1
        BY <2>3, <2>7
      <3>2. Cardinality(M) <= Cardinality(Lost) + 1
        BY <2>4, <2>5
      <3> QED BY <2>1, <2>5, <3>1, <3>2
    <2> QED BY <2>6, <2>7
  <1> QED BY <1>1, Invariant, PTL
==============================================================================

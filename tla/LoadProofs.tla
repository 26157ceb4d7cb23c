----------------------------- MODULE LoadProofs -----------------------------
(***************************************************************************)
(* Proofs about the two ways to load a file: TftpLoad and Kermit.          *)
(*                                                                         *)
(* tftpboot, for every file, every number of sessions and ports, and every *)
(* order in which packets and timeouts may come.  The client takes any     *)
(* block but the one it took last, so that it takes the right one has to   *)
(* come from the server, which sends a block when the one before is        *)
(* acknowledged: no packet or session is ahead of what is in memory.  This *)
(* outlives a restart of the transfer, though packets of the attempt       *)
(* before are still on their way, as the memory does.                      *)
(*                                                                         *)
(* loadb, for every file that fits and every line that damages and loses   *)
(* what it carries.  The receiver writes a packet to memory before it      *)
(* knows that it is good; what it falls back to is the state the packet    *)
(* before left behind, and as the characters of any packet are stored from *)
(* there on, they never reach what has been acknowledged.  What a packet's *)
(* characters do is computed by recursion, so this part begins with a      *)
(* principle of induction.                                                 *)
(***************************************************************************)
EXTENDS TftpLoad, Kermit, TLAPS, FiniteSetTheorems, SequenceTheorems


(* A file whose blocks can be told apart by their numbers, 32 MB less one   *)
(* block; and whose size is one of 32 bits.                                 *)
SmallFile == Blocks < BlockMod /\ FileSize < Word

(* The handlers of TFTP are installed with a port and a new count of        *)
(* timeouts; the server's port is known after its first packet.             *)
HandlersOK ==
    /\ timeHandler = "tftp" => packetHandler = "tftp"
    /\ packetHandler = "tftp" =>
          /\ TftpTimeoutCount < TIMEOUT_COUNT
          /\ TftpOurPort \in Ports
          /\ TftpState = "DATA" => TftpServerPort \in Tids

TypeInv == TypeOK /\ HandlersOK

(* Nobody is ahead of the memory: a block is on its way, or its             *)
(* acknowledgement, only when those before it, or it, are stored.           *)
StoredTo(k) == \A b \in 1..k : Stored(b)

LoadInv ==
    /\ \A p \in net : p.type = "DATA" => StoredTo(p.block - 1)
    /\ \A p \in net : p.type = "ACK" => StoredTo(p.number)
    /\ \A t \in Tids : StoredTo(session[t].block - 1)
    /\ packetHandler = "tftp" /\ TftpState = "DATA" =>
          StoredTo(TftpBlock) /\ TftpLastBlock = TftpBlock
    /\ XferSize <= FileSize
    /\ WholeThing

-----------------------------------------------------------------------------
(* Packets and block numbers. *)

(* The constants, one by one. *)
LEMMA Constants ==
    /\ Blocks \in Nat \ {0} /\ Full \in Nat \ {0} /\ BlockMod \in Nat \ {0}
    /\ Word \in Nat \ {0} /\ TIMEOUT_COUNT \in Nat \ {0}
    /\ LastLen \in Nat /\ LastLen < Full
    /\ MaxFaults \in Nat
  BY TftpAssumption

(* The fields of the packets that have some. *)
LEMMA PacketFields ==
    ASSUME NEW p \in Packet
    PROVE  /\ p.type = "RRQ" => p.port \in Ports
           /\ p.type = "ACK" => p.tid \in Tids /\ p.number \in 0..BlockMod - 1
           /\ p.type = "DATA" => p.tid \in Tids /\ p.port \in Ports /\ p.block \in 1..Blocks
           /\ p.type = "ERROR" => p.tid \in Tids /\ p.port \in Ports
  BY DEF Packet

(* A number has 16 bits and is not above its block; it is its block where   *)
(* the file is small.                                                       *)
LEMMA NumberType ==
    ASSUME NEW b \in 1..Blocks
    PROVE  /\ Number(b) \in 0..BlockMod - 1 /\ Number(b) \in 0..Blocks
           /\ SmallFile => Number(b) = b
  <1>1. /\ b \in Nat /\ BlockMod \in Nat \ {0} /\ Blocks \in Nat /\ b <= Blocks
    BY Constants
  <1>2. b % BlockMod \in 0..BlockMod - 1
    BY <1>1
  <1>3. b < BlockMod => b % BlockMod = b
    BY <1>1
  <1>4. b % BlockMod <= b
    BY <1>1, <1>2, <1>3
  <1> QED BY <1>1, <1>2, <1>3, <1>4 DEF Number, SmallFile

(* What a step does to the network: nothing is there that was not there or  *)
(* sent.                                                                    *)
LEMMA TakesEffect ==
    ASSUME TypeOK, NEW used, NEW sent, Takes(used, sent)
    PROVE  net' \subseteq net \cup sent /\ faults' \in 0..MaxFaults
  BY Constants DEF Takes, TypeOK

(* TftpSend puts a request or an acknowledgement together. *)
LEMMA SentPacket ==
    ASSUME NEW state \in {"RRQ", "DATA"}, NEW number \in 0..BlockMod - 1, NEW port \in Ports,
           NEW to, state = "DATA" => to \in Tids
    PROVE  /\ TftpPacket(state, number, to, port) \subseteq Packet
           /\ \A p \in TftpPacket(state, number, to, port) :
                 p.type # "DATA" /\ (p.type = "ACK" => state = "DATA" /\ p.number = number)
  <1>1. CASE state = "RRQ"
    BY <1>1 DEF TftpPacket, Packet
  <1>2. CASE state = "DATA"
    BY <1>2 DEF TftpPacket, Packet
  <1> QED BY <1>1, <1>2

-----------------------------------------------------------------------------
(* Types. *)

(* The first state: no packet but the ARP request is on its way. *)
LEMMA InitType == Init => TypeInv
  <1> SUFFICES ASSUME Init PROVE TypeInv
    OBVIOUS
  <1>1. net \subseteq Packet
    BY DEF Init, NetLoopInit, ArpPacket, Packet
  <1>2. session \in [Tids -> {NoSession} \cup [port : Ports, block : 1..Blocks + 1]]
    BY DEF Init
  <1>3. mem \in [0..Blocks -> 0..Blocks]
    BY Constants DEF Init
  <1>4. TypeOK
    BY <1>1, <1>2, <1>3, Constants DEF Init, NetLoopInit, TypeOK
  <1> QED BY <1>4 DEF Init, NetLoopInit, TypeInv, HandlersOK

(* The transfer starts. *)
LEMMA StartType ==
    ASSUME TypeInv, NEW used, TftpStart(used), UNCHANGED <<result, session>>,
           serverEther' \in {"broadcast", "server"}
    PROVE  TypeInv'
  <1>1. TftpOurPort' \in Ports /\ TftpPacket("RRQ", 0, 0, TftpOurPort') \subseteq Packet
    BY SentPacket, Constants DEF TftpStart
  <1>2. net' \subseteq Packet /\ faults' \in 0..MaxFaults
    BY <1>1, TakesEffect DEF TftpStart, TypeInv, TypeOK
  <1>3. TypeOK'
    BY <1>1, <1>2, Constants DEF TypeInv, TypeOK, TftpStart, loaded
  <1>4. HandlersOK'
    BY <1>1, Constants DEF HandlersOK, TftpStart
  <1> QED BY <1>3, <1>4 DEF TypeInv

(* A packet that is not for the client of now. *)
LEMMA QuietType ==
    ASSUME TypeInv, NEW used, Takes(used, {}),
           UNCHANGED <<NetState, packetHandler, timeHandler, tftp, loaded, result, session>>,
           serverEther' \in {"broadcast", "server"}
    PROVE  TypeInv'
  <1>1. net' \subseteq Packet /\ faults' \in 0..MaxFaults
    BY TakesEffect DEF TypeInv, TypeOK
  <1>2. TypeOK'
    BY <1>1 DEF TypeInv, TypeOK, tftp, loaded
  <1> QED BY <1>2 DEF TypeInv, HandlersOK, tftp

(* ArpHandler, or a TFTP handler that is called without a packet. *)
LEMMA ArpReplyType == ASSUME TypeInv, ArpReply PROVE TypeInv'
  <1>1. serverEther' \in {"broadcast", "server"} /\ UNCHANGED <<result, session>>
    BY DEF ArpReply
  <1> QED BY <1>1, StartType, QuietType DEF ArpReply

(* A block that is taken. *)
LEMMA TakeBlockType ==
    ASSUME TypeInv, NEW p \in net, p.type = "DATA", Accepted(p),
           NEW last \in 0..BlockMod - 1, TakeBlock(p, Number(p.block), last),
           UNCHANGED <<serverEther, result, session, TftpOurPort, TftpTimeoutCount>>
    PROVE  TypeInv'
  <1> DEFINE number == Number(p.block)
  <1>1. /\ p.tid \in Tids /\ p.block \in 1..Blocks /\ number \in 0..BlockMod - 1
        /\ number \in 0..Blocks /\ TftpOurPort' \in Ports
        /\ packetHandler = "tftp" /\ packetHandler' = "tftp" /\ TftpTimeoutCount < TIMEOUT_COUNT
    BY PacketFields, NumberType DEF TypeInv, TypeOK, HandlersOK, Accepted, TakeBlock
  <1> HIDE DEF number
  <1>2. mem' \in [0..Blocks -> 0..Blocks] /\ XferSize' \in 0..Word - 1
    <2>1. CASE number = last
      BY <2>1 DEF TakeBlock, loaded, TypeInv, TypeOK, number
    <2>2. CASE number # last
      <3>1. StoreBlock(number, p)
        BY <2>2 DEF TakeBlock, number
      <3>2. ((number - 1) * Full + LengthOf(p.block)) % Word \in 0..Word - 1
        BY <1>1, Constants DEF LengthOf
      <3>3. mem' \in [0..Blocks -> 0..Blocks]
        <4>1. mem' = mem \/ mem' = [mem EXCEPT ![number] = p.block]
          BY <3>1 DEF StoreBlock
        <4>2. p.block \in 0..Blocks /\ mem \in [0..Blocks -> 0..Blocks]
          BY <1>1, Constants DEF TypeInv, TypeOK
        <4> QED BY <1>1, <4>1, <4>2
      <3> QED BY <3>1, <3>2, <3>3 DEF StoreBlock, TypeInv, TypeOK
    <2> QED BY <2>1, <2>2
  <1>3. net' \subseteq Packet /\ faults' \in 0..MaxFaults
    <2>1. Takes({p}, {}) \/ Takes({p}, TftpPacket("DATA", number, p.tid, TftpOurPort))
      BY DEF TakeBlock, number
    <2>2. TftpPacket("DATA", number, p.tid, TftpOurPort) \subseteq Packet
      BY <1>1, SentPacket
    <2> QED BY <2>1, <2>2, TakesEffect DEF TypeInv, TypeOK
  <1>4. /\ NetState' \in {"continue", "restart", "success"}
        /\ timeHandler' \in {"none", "arp", "tftp", "again"}
        /\ TftpState' = "DATA" /\ TftpServerPort' = p.tid
        /\ TftpBlock' = number /\ TftpLastBlock' = number
    BY DEF TakeBlock, TypeInv, TypeOK, number
  <1>5. TypeOK'
    BY <1>1, <1>2, <1>3, <1>4 DEF TypeInv, TypeOK
  <1> QED BY <1>1, <1>4, <1>5 DEF TypeInv, HandlersOK

(* A first packet that is refused, an error, or a block that is taken. *)
LEMMA ReceiveDataType == ASSUME TypeInv, ReceiveData PROVE TypeInv'
  <1>1. PICK p \in net :
            LET number == Number(p.block)
                first == TftpState = "RRQ"
            IN  /\ Polling /\ p.type = "DATA"
                /\ UNCHANGED <<serverEther, result, session>>
                /\ IF packetHandler = "arp" THEN TftpStart({p})
                   ELSE IF ~Accepted(p) THEN Ignore(p)
                   ELSE /\ IF first /\ ~FirstBlock(number)
                             THEN RefuseBlock(p, number)
                             ELSE TakeBlock(p, number, IF first THEN 0 ELSE TftpLastBlock)
                        /\ UNCHANGED <<TftpOurPort, TftpTimeoutCount>>
    BY DEF ReceiveData
  <1>2. /\ p.tid \in Tids /\ p.block \in 1..Blocks /\ Number(p.block) \in 0..BlockMod - 1
        /\ serverEther' \in {"broadcast", "server"}
    BY <1>1, PacketFields, NumberType DEF TypeInv, TypeOK
  <1>3. CASE packetHandler = "arp"
    BY <1>1, <1>2, <1>3, StartType
  <1>4. CASE packetHandler # "arp" /\ ~Accepted(p)
    BY <1>1, <1>2, <1>4, QuietType DEF Ignore
  <1>5. CASE /\ packetHandler # "arp" /\ Accepted(p)
             /\ TftpState = "RRQ" /\ ~FirstBlock(Number(p.block))
    <2>1. RefuseBlock(p, Number(p.block)) /\ UNCHANGED <<TftpOurPort, TftpTimeoutCount>>
      BY <1>1, <1>5
    <2>2. net' \subseteq Packet /\ faults' \in 0..MaxFaults
      BY <2>1, TakesEffect DEF RefuseBlock, TypeInv, TypeOK
    <2> DEFINE number == Number(p.block)
    <2>3. /\ TftpState' = "DATA" /\ TftpServerPort' = p.tid /\ TftpBlock' = number
          /\ TftpLastBlock' = 0 /\ packetHandler' = "again" /\ timeHandler' = "again"
          /\ UNCHANGED <<NetState, serverEther, TftpOurPort, TftpTimeoutCount, mem, XferSize,
                         result, session>>
          /\ number \in 0..BlockMod - 1 /\ 0 \in 0..BlockMod - 1
      BY <1>1, <1>2, <2>1, Constants DEF RefuseBlock, NetStartAgain, loaded
    <2> HIDE DEF number
    <2>4. TypeOK'
      BY <1>2, <2>2, <2>3 DEF TypeInv, TypeOK
    <2> QED BY <2>3, <2>4 DEF TypeInv, HandlersOK
  <1>6. CASE /\ packetHandler # "arp" /\ Accepted(p)
             /\ ~(TftpState = "RRQ" /\ ~FirstBlock(Number(p.block)))
    <2> DEFINE last == IF TftpState = "RRQ" THEN 0 ELSE TftpLastBlock
    <2>1. last \in 0..BlockMod - 1
      BY Constants DEF TypeInv, TypeOK
    <2>2. /\ TakeBlock(p, Number(p.block), last)
          /\ UNCHANGED <<serverEther, result, session, TftpOurPort, TftpTimeoutCount>>
      BY <1>1, <1>6
    <2> HIDE DEF last
    <2> QED BY <1>1, <1>6, <2>1, <2>2, TakeBlockType
  <1> QED BY <1>3, <1>4, <1>5, <1>6

(* An error packet of the server. *)
LEMMA ReceiveErrorType == ASSUME TypeInv, ReceiveError PROVE TypeInv'
  <1>1. PICK p \in net :
            /\ UNCHANGED <<serverEther, result, session>>
            /\ IF packetHandler = "arp" THEN TftpStart({p})
               ELSE IF ~Accepted(p) THEN Ignore(p)
               ELSE /\ NetStartAgain
                    /\ Takes({p}, {})
                    /\ UNCHANGED <<NetState, tftp, loaded>>
    BY DEF ReceiveError
  <1>2. serverEther' \in {"broadcast", "server"}
    BY <1>1 DEF TypeInv, TypeOK
  <1>3. CASE packetHandler = "arp"
    BY <1>1, <1>2, <1>3, StartType
  <1>4. CASE packetHandler # "arp" /\ ~Accepted(p)
    BY <1>1, <1>2, <1>4, QuietType DEF Ignore
  <1>5. CASE packetHandler # "arp" /\ Accepted(p)
    <2>1. net' \subseteq Packet /\ faults' \in 0..MaxFaults
      BY <1>1, <1>5, TakesEffect DEF TypeInv, TypeOK
    <2>2. TypeOK'
      BY <1>1, <1>5, <2>1 DEF NetStartAgain, tftp, loaded, TypeInv, TypeOK
    <2> QED BY <1>1, <1>5, <2>2 DEF NetStartAgain, TypeInv, HandlersOK
  <1> QED BY <1>3, <1>4, <1>5

(* A timer handler is served. *)
LEMMA TimeoutType == ASSUME TypeInv, Timeout PROVE TypeInv'
  <1>1. faults' \in 0..MaxFaults
    BY Constants DEF Timeout, ArpTimeout, TftpTimeout, StartAgainTimeout, TimerFires,
       TypeInv, TypeOK
  <1>2. CASE ArpTimeout
    <2>1. net' \subseteq Packet
      BY <1>2 DEF ArpTimeout, ArpPacket, Packet, TypeInv, TypeOK
    <2>2. TypeOK'
      BY <1>1, <1>2, <2>1 DEF ArpTimeout, TimerFires, InstallArp, loaded, TypeInv, TypeOK
    <2> QED BY <1>2, <2>2 DEF ArpTimeout, InstallArp, TypeInv, HandlersOK
  <1>3. CASE TftpTimeout
    <2>1. /\ packetHandler = "tftp" /\ TftpTimeoutCount < TIMEOUT_COUNT /\ TftpOurPort \in Ports
          /\ TftpState = "DATA" => TftpServerPort \in Tids
      BY <1>3 DEF TftpTimeout, TypeInv, HandlersOK
    <2>2. TftpPacket(TftpState, TftpBlock, TftpServerPort, TftpOurPort) \subseteq Packet
      BY <2>1, SentPacket DEF TypeInv, TypeOK
    <2>3. net' \subseteq Packet
      BY <1>3, <2>2 DEF TftpTimeout, TypeInv, TypeOK
    <2>4. TftpTimeoutCount' \in 0..TIMEOUT_COUNT
      BY <1>3, <2>1, Constants DEF TftpTimeout, TypeInv, TypeOK
    <2>5. /\ packetHandler' \in {"arp", "tftp", "again"}
          /\ timeHandler' \in {"none", "arp", "tftp", "again"}
      BY <1>3 DEF TftpTimeout, NetStartAgain, TypeInv, TypeOK
    <2>6. TypeOK'
      BY <1>1, <1>3, <2>3, <2>4, <2>5 DEF TftpTimeout, TimerFires, loaded, TypeInv, TypeOK
    <2>7. HandlersOK'
      <3>1. CASE RetriesExceeded
        BY <1>3, <3>1 DEF TftpTimeout, NetStartAgain, HandlersOK
      <3>2. CASE ~RetriesExceeded
        <4>1. TftpTimeoutCount' < TIMEOUT_COUNT
          BY <2>4, <3>2, Constants DEF RetriesExceeded
        <4> QED BY <1>3, <2>1, <3>2, <4>1 DEF TftpTimeout, TimerFires, HandlersOK
      <3> QED BY <3>1, <3>2
    <2> QED BY <2>6, <2>7 DEF TypeInv
  <1>4. CASE StartAgainTimeout
    <2>1. TypeOK'
      BY <1>1, <1>4 DEF StartAgainTimeout, TimerFires, loaded, TypeInv, TypeOK
    <2> QED BY <1>4, <2>1 DEF StartAgainTimeout, TimerFires, TypeInv, HandlersOK
  <1> QED BY <1>2, <1>3, <1>4 DEF Timeout

(* What the server sends has the type of a packet, and the sessions theirs. *)
Session == [port : Ports, block : 1..Blocks + 1]

(* A session that is open has a block and a port. *)
LEMMA OpenSession ==
    ASSUME TypeOK, NEW t \in Tids, session[t].block \in 1..Blocks + 1
    PROVE  session[t] \in Session
  <1>1. session[t] \in {NoSession} \cup [port : Ports, block : 1..Blocks + 1]
    BY DEF TypeOK
  <1>2. session[t] # NoSession
    BY DEF NoSession
  <1> QED BY <1>1, <1>2 DEF Session

(* The block a session sends. *)
LEMMA SentData ==
    ASSUME NEW t \in Tids, NEW b \in Nat \ {0}, session'[t].port \in Ports
    PROVE  /\ DataPacket(t, b) \subseteq Packet
           /\ \A p \in DataPacket(t, b) : p.type = "DATA" /\ p.block = b
  BY Constants DEF DataPacket, Packet

(* The server's steps. *)
LEMMA ServeType == ASSUME TypeInv, Serve PROVE TypeInv'
  <1>1. UNCHANGED client
    BY DEF Serve, ServeArp, ServeRequest, ServerBusy, ServeAck
  <1>2. /\ net' \subseteq Packet /\ faults' \in 0..MaxFaults
        /\ session' \in [Tids -> {NoSession} \cup [port : Ports, block : 1..Blocks + 1]]
    <2>1. CASE ServeArp
      <3>1. {[type |-> "arp_reply"]} \subseteq Packet
        BY DEF Packet
      <3> QED BY <2>1, <3>1, TakesEffect DEF ServeArp, TypeInv, TypeOK
    <2>2. CASE ServerBusy
      BY <2>2, TakesEffect DEF ServerBusy, TypeInv, TypeOK
    <2>3. CASE ServeRequest
      <3>1. PICK p \in net, t \in Tids :
              /\ p.type = "RRQ"
              /\ \/ /\ session' = [session EXCEPT ![t] = [port |-> p.port, block |-> 1]]
                    /\ Takes({p}, DataPacket(t, 1))
                 \/ /\ faults < MaxFaults /\ faults' = faults + 1
                    /\ net' = (net \ {p})
                                \cup {[type |-> "ERROR", tid |-> t, port |-> p.port]}
                    /\ UNCHANGED session
        BY <2>3 DEF ServeRequest
      <3>2. p.port \in Ports
        BY <3>1, PacketFields DEF TypeInv, TypeOK
      <3>3. CASE /\ session' = [session EXCEPT ![t] = [port |-> p.port, block |-> 1]]
                 /\ Takes({p}, DataPacket(t, 1))
        <4>1. session'[t].port = p.port
          BY <3>3 DEF TypeInv, TypeOK
        <4>2. DataPacket(t, 1) \subseteq Packet
          BY <3>2, <4>1, SentData
        <4>3. [port |-> p.port, block |-> 1] \in [port : Ports, block : 1..Blocks + 1]
          BY <3>2, Constants
        <4> QED BY <3>3, <4>2, <4>3, TakesEffect DEF TypeInv, TypeOK
      <3>4. CASE /\ faults < MaxFaults /\ faults' = faults + 1
                 /\ net' = (net \ {p})
                             \cup {[type |-> "ERROR", tid |-> t, port |-> p.port]}
                 /\ UNCHANGED session
        <4>1. [type |-> "ERROR", tid |-> t, port |-> p.port] \in Packet
          BY <3>2 DEF Packet
        <4> QED BY <3>4, <4>1, Constants DEF TypeInv, TypeOK
      <3> QED BY <3>1, <3>3, <3>4
    <2>4. CASE ServeAck
      <3>1. PICK p \in net :
              /\ p.type = "ACK"
              /\ \/ /\ session[p.tid].block \in 1..Blocks
                    /\ session' = [session EXCEPT ![p.tid].block = @ + 1]
                    /\ Takes({p}, DataPacket(p.tid, session[p.tid].block + 1))
                 \/ Takes({p}, {}) /\ UNCHANGED session
        BY <2>4 DEF ServeAck
      <3>2. p.tid \in Tids
        BY <3>1, PacketFields DEF TypeInv, TypeOK
      <3>3. CASE /\ session[p.tid].block \in 1..Blocks
                 /\ session' = [session EXCEPT ![p.tid].block = @ + 1]
                 /\ Takes({p}, DataPacket(p.tid, session[p.tid].block + 1))
        <4>1. session[p.tid] \in Session
          BY <3>2, <3>3, OpenSession, Constants DEF TypeInv
        <4>2. /\ [session[p.tid] EXCEPT !.block = @ + 1] \in Session
              /\ [session[p.tid] EXCEPT !.block = @ + 1].port \in Ports
              /\ session[p.tid].block + 1 \in Nat \ {0}
          BY <3>3, <4>1, Constants DEF Session
        <4>3. session'[p.tid] = [session[p.tid] EXCEPT !.block = @ + 1]
          BY <3>2, <3>3 DEF TypeInv, TypeOK
        <4>4. DataPacket(p.tid, session[p.tid].block + 1) \subseteq Packet
          BY <3>2, <4>2, <4>3, SentData
        <4>5. session' \in [Tids -> {NoSession} \cup Session]
          BY <3>2, <3>3, <4>2 DEF TypeInv, TypeOK, Session
        <4> QED BY <3>3, <4>4, <4>5, TakesEffect DEF TypeInv, TypeOK, Session
      <3>4. CASE Takes({p}, {}) /\ UNCHANGED session
        BY <3>4, TakesEffect DEF TypeInv, TypeOK
      <3> QED BY <3>1, <3>3, <3>4
    <2> QED BY <2>1, <2>2, <2>3, <2>4 DEF Serve
  <1>3. TypeOK'
    BY <1>1, <1>2 DEF client, TypeInv, TypeOK
  <1> QED BY <1>1, <1>3 DEF client, TypeInv, HandlersOK

(* Every step keeps the types. *)
LEMMA NextType == ASSUME TypeInv, [Next]_vars PROVE TypeInv'
  <1>1. CASE Restart
    <2>1. net' \subseteq Packet /\ faults' \in 0..MaxFaults
      <3>1. ArpPacket \subseteq Packet
        BY DEF ArpPacket, Packet
      <3> QED BY <1>1, <3>1, TakesEffect DEF Restart, TypeInv, TypeOK
    <2>2. TypeOK'
      BY <1>1, <2>1, Constants DEF Restart, InstallArp, tftp, TypeInv, TypeOK
    <2> QED BY <1>1, <2>2 DEF Restart, InstallArp, TypeInv, HandlersOK
  <1>2. CASE Receive
    BY <1>2, ArpReplyType, ReceiveDataType, ReceiveErrorType DEF Receive
  <1>3. CASE OtherPacket
    <2>1. /\ serverEther' \in {"broadcast", "server"} /\ UNCHANGED <<result, session>>
          /\ TftpStart({})
      BY <1>3 DEF OtherPacket, TypeInv, TypeOK
    <2> QED BY <2>1, StartType
  <1>4. CASE Timeout
    BY <1>4, TimeoutType
  <1>5. CASE CtrlC \/ Return
    <2>1. TypeOK'
      BY <1>5 DEF CtrlC, Return, tftp, loaded, TypeInv, TypeOK
    <2> QED BY <1>5, <2>1 DEF CtrlC, Return, tftp, TypeInv, HandlersOK
  <1>6. CASE Serve
    BY <1>6, ServeType
  <1>7. CASE Lose \/ UNCHANGED vars
    <2>1. UNCHANGED <<client, session>>
      BY <1>7 DEF Lose, vars, client
    <2>2. net' \subseteq Packet /\ faults' \in 0..MaxFaults
      BY <1>7, Constants DEF Lose, vars, TypeInv, TypeOK
    <2>3. TypeOK'
      BY <2>1, <2>2 DEF client, TypeInv, TypeOK
    <2> QED BY <2>1, <2>3 DEF client, TypeInv, HandlersOK
  <1>8. ASSUME NEW t \in Tids, Resend(t) \/ GiveUp(t) PROVE TypeInv'
    <2>1. UNCHANGED <<client, faults>>
      BY <1>8 DEF Resend, GiveUp
    <2>2. net' \subseteq Packet
      <3>1. CASE Resend(t)
        <4>1. session[t] \in Session /\ session' = session
          BY <1>8, <3>1, OpenSession, Constants DEF Resend, TypeInv
        <4>2. session'[t].port \in Ports /\ session[t].block \in Nat \ {0}
          BY <4>1, Constants DEF Session
        <4> QED BY <1>8, <3>1, <4>2, SentData DEF Resend
      <3>2. CASE GiveUp(t)
        BY <3>2 DEF GiveUp, TypeInv, TypeOK
      <3> QED BY <1>8, <3>1, <3>2
    <2>3. session' \in [Tids -> {NoSession} \cup [port : Ports, block : 1..Blocks + 1]]
      BY <1>8 DEF Resend, GiveUp, TypeInv, TypeOK
    <2>4. TypeOK'
      BY <2>1, <2>2, <2>3 DEF client, TypeInv, TypeOK
    <2> QED BY <2>1, <2>4 DEF client, TypeInv, HandlersOK
  <1> QED BY <1>1, <1>2, <1>3, <1>4, <1>5, <1>6, <1>7, <1>8 DEF Next

-----------------------------------------------------------------------------
(* What is stored. *)

(* What has come to memory stays there, under the right number. *)
LEMMA MemoryKept ==
    ASSUME SmallFile, TypeInv, NEW p \in net, p.type = "DATA",
           StoreBlock(Number(p.block), p)
    PROVE  /\ \A b \in Nat : Stored(b) => Stored(b)'
           /\ Stored(p.block)'
           /\ XferSize <= FileSize => XferSize' <= FileSize
           /\ XferSize <= FileSize /\ EndsFile(p) => p.block = Blocks /\ XferSize' = FileSize
  <1>1. /\ p.block \in 1..Blocks /\ Number(p.block) = p.block /\ p.block \in 0..Blocks
        /\ mem \in [0..Blocks -> 0..Blocks] /\ XferSize \in Nat /\ FileSize < Word
    BY PacketFields, NumberType, Constants DEF TypeInv, TypeOK, SmallFile
  <1>2. mem' = IF LengthOf(p.block) = 0 THEN mem ELSE [mem EXCEPT ![p.block] = p.block]
    BY <1>1 DEF StoreBlock
  <1> DEFINE size == (p.block - 1) * Full + LengthOf(p.block)
  <1>3. size \in Nat /\ size <= FileSize /\ (EndsFile(p) => p.block = Blocks /\ size = FileSize)
    <2>1. CASE p.block = Blocks
      BY <1>1, <2>1, Constants DEF LengthOf, FileSize, EndsFile
    <2>2. CASE p.block # Blocks
      <3>1. size = p.block * Full /\ ~EndsFile(p)
        BY <1>1, <2>2, Constants DEF LengthOf, EndsFile
      <3>2. p.block <= Blocks - 1 /\ p.block \in Nat /\ Blocks - 1 \in Nat /\ Full \in Nat
        BY <1>1, <2>2, Constants
      <3>3. p.block * Full <= (Blocks - 1) * Full /\ p.block * Full \in Nat
            /\ (Blocks - 1) * Full \in Nat
        BY <3>2
      <3> QED BY <3>1, <3>3, Constants DEF FileSize
    <2> QED BY <2>1, <2>2
  <1>4. FileSize \in Nat
    BY Constants DEF FileSize
  <1>5. size % Word = size
    <2>1. \A s \in Nat : s < Word => s % Word = s
      BY Constants
    <2>2. size < Word
      BY <1>1, <1>3, <1>4, Constants
    <2> QED BY <1>3, <2>1, <2>2
  <1>6. XferSize' = IF XferSize < size THEN size ELSE XferSize
    BY <1>1, <1>5 DEF StoreBlock
  <1> HIDE DEF size
  <1>7. \A b \in Nat : Stored(b) => Stored(b)'
    BY <1>1, <1>2 DEF Stored
  <1>8. Stored(p.block)'
    BY <1>1, <1>2 DEF Stored
  <1> QED BY <1>1, <1>3, <1>4, <1>6, <1>7, <1>8

(* The same for all blocks up to one. *)
LEMMA StoredToKept ==
    ASSUME \A b \in Nat : Stored(b) => Stored(b)', NEW k \in Int, StoredTo(k)
    PROVE  StoredTo(k)'
  BY DEF StoredTo

(* The part of the invariant that is about the network and the server: all  *)
(* that a step adds is not ahead of the memory.                             *)
Behind(p) ==
    /\ p.type = "DATA" => StoredTo(p.block - 1)
    /\ p.type = "ACK" => StoredTo(p.number)

NetInv ==
    /\ \A p \in net : Behind(p)
    /\ \A t \in Tids : StoredTo(session[t].block - 1)

(* A packet has one number or the other. *)
LEMMA BehindKept ==
    ASSUME \A b \in Nat : Stored(b) => Stored(b)', NEW p \in Packet, Behind(p)
    PROVE  Behind(p)'
  BY PacketFields, Constants, StoredToKept DEF Behind

(* The network after a step. *)
LEMMA NetKept ==
    ASSUME TypeInv, NetInv, \A b \in Nat : Stored(b) => Stored(b)', session' = session,
           NEW sent, net' \subseteq net \cup sent, \A p \in sent : Behind(p)'
    PROVE  NetInv'
  <1>1. \A p \in net' : Behind(p)'
    BY BehindKept DEF NetInv, TypeInv, TypeOK
  <1>2. ASSUME NEW t \in Tids PROVE StoredTo(session[t].block - 1)'
    <2>1. session[t].block - 1 \in Int
      BY Constants DEF TypeInv, TypeOK, NoSession
    <2> QED BY <2>1, StoredToKept DEF NetInv
  <1> QED BY <1>1, <1>2 DEF NetInv

(* What leaves the wire, or is lost, takes nothing with it.                 *)
LEMMA NothingSent ==
    ASSUME TypeInv, NetInv, \A b \in Nat : Stored(b) => Stored(b)', UNCHANGED session,
           net' \subseteq net
    PROVE  NetInv'
  <1> DEFINE sent == net' \ net
  <1>1. net' \subseteq net \cup sent /\ \A p \in sent : Behind(p)'
    OBVIOUS
  <1> HIDE DEF sent
  <1> QED BY <1>1, NetKept

(* The part about the client. *)
ClientInv ==
    /\ packetHandler = "tftp" /\ TftpState = "DATA" =>
          StoredTo(TftpBlock) /\ TftpLastBlock = TftpBlock
    /\ XferSize <= FileSize
    /\ WholeThing

(* The parts make the whole. *)
LEMMA LoadParts == LoadInv <=> NetInv /\ ClientInv
  BY DEF LoadInv, NetInv, ClientInv, Behind

(* Where the client's state stays, so does what is said of it. *)
LEMMA ClientKept ==
    ASSUME ClientInv, UNCHANGED <<NetState, packetHandler, TftpState, TftpBlock, TftpLastBlock,
                                  mem, XferSize>>
    PROVE  ClientInv' /\ \A b \in Nat : Stored(b) => Stored(b)'
  BY DEF ClientInv, StoredTo, Stored, WholeThing

(* What the server sends is not ahead of the memory. *)
LEMMA ServeLoad ==
    ASSUME SmallFile, TypeInv, NetInv, ClientInv, Serve
    PROVE  NetInv' /\ ClientInv'
  <1>1. UNCHANGED client
    BY DEF Serve, ServeArp, ServeRequest, ServerBusy, ServeAck
  <1>2. ClientInv' /\ \A b \in Nat : Stored(b) => Stored(b)'
    BY <1>1, ClientKept DEF client
  <1>3. CASE ServeArp
    <2>1. \A p \in {[type |-> "arp_reply"]} : Behind(p)'
      BY DEF Behind
    <2> QED BY <1>2, <1>3, <2>1, NetKept, TakesEffect DEF ServeArp, TypeInv
  <1>4. CASE ServerBusy
    BY <1>2, <1>4, NetKept, TakesEffect DEF ServerBusy, TypeInv
  <1>5. CASE ServeRequest
    <2>1. PICK p \in net, t \in Tids :
            /\ p.type = "RRQ"
            /\ \/ /\ session' = [session EXCEPT ![t] = [port |-> p.port, block |-> 1]]
                  /\ Takes({p}, DataPacket(t, 1))
               \/ /\ net' = (net \ {p})
                              \cup {[type |-> "ERROR", tid |-> t, port |-> p.port]}
                  /\ UNCHANGED session
      BY <1>5 DEF ServeRequest
    <2>2. CASE /\ session' = [session EXCEPT ![t] = [port |-> p.port, block |-> 1]]
               /\ Takes({p}, DataPacket(t, 1))
      <3>1. session'[t] = [port |-> p.port, block |-> 1] /\ p.port \in Ports
        BY <2>1, <2>2, PacketFields DEF TypeInv, TypeOK
      <3>2. \A q \in DataPacket(t, 1) : Behind(q)'
        BY <3>1, SentData DEF Behind, StoredTo
      <3>3. \A q \in net' : Behind(q)'
        BY <1>2, <2>2, <3>2, TakesEffect, BehindKept DEF NetInv, TypeInv, TypeOK
      <3>4. ASSUME NEW u \in Tids PROVE StoredTo(session[u].block - 1)'
        <4>1. CASE u = t
          BY <3>1, <4>1 DEF StoredTo
        <4>2. CASE u # t
          <5>1. session'[u] = session[u] /\ session[u].block - 1 \in Int
            BY <2>2, <4>2, Constants DEF TypeInv, TypeOK, NoSession
          <5>2. StoredTo(session[u].block - 1)
            BY DEF NetInv
          <5> QED BY <1>2, <5>1, <5>2 DEF StoredTo
        <4> QED BY <4>1, <4>2
      <3> QED BY <1>2, <3>3, <3>4 DEF NetInv
    <2>3. CASE /\ net' = (net \ {p}) \cup {[type |-> "ERROR", tid |-> t, port |-> p.port]}
               /\ UNCHANGED session
      <3> DEFINE sent == {[type |-> "ERROR", tid |-> t, port |-> p.port]}
      <3>1. \A q \in sent : Behind(q)'
        BY DEF Behind
      <3>2. net' \subseteq net \cup sent
        BY <2>3
      <3> HIDE DEF sent
      <3> QED BY <1>2, <2>3, <3>1, <3>2, NetKept
    <2> QED BY <2>1, <2>2, <2>3
  <1>6. CASE ServeAck
    <2>1. PICK p \in net :
            /\ p.type = "ACK"
            /\ \/ /\ session[p.tid].block \in 1..Blocks
                  /\ Number(session[p.tid].block) = p.number
                  /\ session' = [session EXCEPT ![p.tid].block = @ + 1]
                  /\ Takes({p}, DataPacket(p.tid, session[p.tid].block + 1))
               \/ Takes({p}, {}) /\ UNCHANGED session
      BY <1>6 DEF ServeAck
    <2>2. p.tid \in Tids
      BY <2>1, PacketFields DEF TypeInv, TypeOK
    <2>3. CASE /\ session[p.tid].block \in 1..Blocks
               /\ Number(session[p.tid].block) = p.number
               /\ session' = [session EXCEPT ![p.tid].block = @ + 1]
               /\ Takes({p}, DataPacket(p.tid, session[p.tid].block + 1))
      <3> DEFINE last == session[p.tid].block
      <3>1. session[p.tid] \in Session
        BY <2>2, <2>3, OpenSession, Constants DEF TypeInv
      <3>2. session'[p.tid] = [session[p.tid] EXCEPT !.block = @ + 1]
        BY <2>2, <2>3 DEF TypeInv, TypeOK
      <3>3. /\ session'[p.tid].block = last + 1 /\ session'[p.tid].port \in Ports
            /\ last \in Nat \ {0} /\ last + 1 \in Nat \ {0} /\ last + 1 - 1 = last
        BY <3>1, <3>2, Constants DEF Session
      <3> HIDE DEF last
      <3>4. \A c \in 1..last : Stored(c)'
        <4>1. StoredTo(last)
          BY <2>1, <2>3, NumberType DEF NetInv, Behind, last
        <4> QED BY <1>2, <3>3, <4>1 DEF StoredTo
      <3>7. \A q \in DataPacket(p.tid, last + 1) : Behind(q)'
        BY <2>2, <3>3, <3>4, SentData DEF Behind, StoredTo
      <3>5. \A q \in net' : Behind(q)'
        BY <1>2, <2>3, <3>7, TakesEffect, BehindKept DEF NetInv, TypeInv, TypeOK, last
      <3>6. ASSUME NEW u \in Tids PROVE StoredTo(session[u].block - 1)'
        <4>1. CASE u = p.tid
          BY <3>3, <3>4, <4>1 DEF StoredTo
        <4>2. CASE u # p.tid
          <5>1. session'[u] = session[u] /\ session[u].block - 1 \in Int
            BY <2>3, <4>2, Constants DEF TypeInv, TypeOK, NoSession
          <5>2. StoredTo(session[u].block - 1)
            BY DEF NetInv
          <5> QED BY <1>2, <5>1, <5>2 DEF StoredTo
        <4> QED BY <4>1, <4>2
      <3> QED BY <1>2, <3>5, <3>6 DEF NetInv
    <2>4. CASE Takes({p}, {}) /\ UNCHANGED session
      BY <1>2, <2>4, NetKept, TakesEffect DEF TypeInv
    <2> QED BY <2>1, <2>3, <2>4
  <1> QED BY <1>2, <1>3, <1>4, <1>5, <1>6 DEF Serve

(* The transfer starts; memory stays as the attempt before left it. *)
LEMMA StartLoad ==
    ASSUME TypeInv, NetInv, ClientInv, NEW used, TftpStart(used), UNCHANGED session
    PROVE  NetInv' /\ ClientInv'
  <1>1. /\ TftpState' = "RRQ" /\ TftpOurPort' \in Ports
        /\ UNCHANGED <<NetState, mem, XferSize>>
        /\ Takes(used, TftpPacket("RRQ", 0, 0, TftpOurPort'))
    BY DEF TftpStart, loaded
  <1>2. ClientInv' /\ \A b \in Nat : Stored(b) => Stored(b)'
    BY <1>1 DEF ClientInv, WholeThing, Stored
  <1> DEFINE sent == TftpPacket("RRQ", 0, 0, TftpOurPort')
  <1>3. 0 \in 0..BlockMod - 1
    BY Constants
  <1>4. \A p \in sent : p.type # "DATA" /\ p.type # "ACK"
    BY <1>1, <1>3, SentPacket
  <1>5. net' \subseteq net \cup sent
    BY <1>1, TakesEffect DEF TypeInv
  <1> HIDE DEF sent
  <1>6. \A p \in net' : Behind(p)'
    BY <1>2, <1>4, <1>5, BehindKept DEF NetInv, TypeInv, TypeOK, Behind
  <1>7. ASSUME NEW t \in Tids PROVE StoredTo(session[t].block - 1)'
    <2>1. session[t].block - 1 \in Int
      BY Constants DEF TypeInv, TypeOK, NoSession
    <2> QED BY <1>2, <2>1, StoredToKept DEF NetInv
  <1> QED BY <1>2, <1>6, <1>7 DEF NetInv

(* A packet that is not for the client of now, or lost. *)
LEMMA QuietLoad ==
    ASSUME TypeInv, NetInv, ClientInv, net' \subseteq net,
           UNCHANGED <<NetState, packetHandler, TftpState, TftpBlock, TftpLastBlock,
                       mem, XferSize, session>>
    PROVE  NetInv' /\ ClientInv'
  <1>1. ClientInv' /\ \A b \in Nat : Stored(b) => Stored(b)'
    BY ClientKept
  <1> QED BY <1>1, NothingSent

(* The handlers are gone: nothing is said of the state they left. *)
LEMMA AgainLoad ==
    ASSUME TypeInv, NetInv, ClientInv, net' \subseteq net, packetHandler' # "tftp",
           UNCHANGED <<NetState, mem, XferSize, session>>
    PROVE  NetInv' /\ ClientInv'
  <1>1. ClientInv' /\ \A b \in Nat : Stored(b) => Stored(b)'
    BY DEF ClientInv, WholeThing, Stored
  <1> QED BY <1>1, NothingSent

(* A block is taken: those before it are stored, since it is on its way.    *)
LEMMA TakeBlockLoad ==
    ASSUME SmallFile, TypeInv, NetInv, ClientInv, NEW p \in net, p.type = "DATA",
           Accepted(p), NetState = "continue",
           NEW last, last = IF TftpState = "RRQ" THEN 0 ELSE TftpLastBlock,
           TakeBlock(p, Number(p.block), last),
           UNCHANGED <<session, TftpOurPort>>
    PROVE  NetInv' /\ ClientInv'
  <1>1. /\ p.block \in 1..Blocks /\ p.block \in Nat /\ p.tid \in Tids
        /\ Number(p.block) = p.block /\ p.block \in 0..BlockMod - 1
        /\ packetHandler = "tftp" /\ TftpOurPort \in Ports
    BY PacketFields, NumberType DEF TypeInv, TypeOK, Accepted, HandlersOK
  <1>2. /\ TftpState' = "DATA" /\ TftpBlock' = p.block /\ TftpLastBlock' = p.block
        /\ packetHandler' = "tftp"
    BY <1>1 DEF TakeBlock
  <1>3. \A b \in 1..p.block - 1 : Stored(b)
    BY DEF NetInv, Behind, StoredTo
  <1>4. CASE p.block = last
    <2>1. /\ UNCHANGED <<NetState, mem, XferSize>> /\ net' \subseteq net
      BY <1>1, <1>4, TakesEffect DEF TakeBlock, loaded, TypeInv
    <2>2. TftpState # "RRQ" /\ TftpLastBlock = p.block
      BY <1>1, <1>4
    <2>3. TftpState = "DATA"
      BY <2>2 DEF TypeInv, TypeOK
    <2> QED BY <1>1, <1>2, <2>1, <2>2, <2>3, QuietLoad DEF ClientInv
  <1>5. CASE p.block # last
    <2>1. /\ StoreBlock(Number(p.block), p)
          /\ Takes({p}, TftpPacket("DATA", p.block, p.tid, TftpOurPort))
          /\ NetState' = IF EndsFile(p) THEN "success" ELSE NetState
      BY <1>1, <1>5 DEF TakeBlock
    <2>2. /\ \A b \in Nat : Stored(b) => Stored(b)'
          /\ Stored(p.block)' /\ XferSize' <= FileSize
          /\ EndsFile(p) => p.block = Blocks /\ XferSize' = FileSize
      BY <2>1, MemoryKept DEF ClientInv
    <2>3. \A b \in 1..p.block : Stored(b)'
      BY <1>1, <1>3, <2>2
    <2>4. ClientInv'
      <3>1. StoredTo(TftpBlock)' /\ TftpLastBlock' = TftpBlock'
        BY <1>2, <2>3 DEF StoredTo
      <3>2. WholeThing'
        BY <2>1, <2>2, <2>3 DEF WholeThing
      <3> QED BY <2>2, <3>1, <3>2 DEF ClientInv
    <2> DEFINE sent == TftpPacket("DATA", p.block, p.tid, TftpOurPort)
    <2>5. net' \subseteq net \cup sent
      BY <2>1, TakesEffect DEF TypeInv
    <2>6. \A q \in sent : q.type # "DATA" /\ (q.type = "ACK" => q.number = p.block)
      BY <1>1, SentPacket
    <2> HIDE DEF sent
    <2>7. \A q \in sent : Behind(q)'
      BY <2>3, <2>6 DEF Behind, StoredTo
    <2>8. NetInv'
      BY <2>2, <2>5, <2>7, NetKept
    <2> QED BY <2>4, <2>8
  <1> QED BY <1>4, <1>5

(* A DATA packet comes. *)
LEMMA ReceiveDataLoad ==
    ASSUME SmallFile, TypeInv, NetInv, ClientInv, ReceiveData
    PROVE  NetInv' /\ ClientInv'
  <1>1. PICK p \in net :
            LET number == Number(p.block)
                first == TftpState = "RRQ"
            IN  /\ Polling /\ p.type = "DATA"
                /\ UNCHANGED <<serverEther, result, session>>
                /\ IF packetHandler = "arp" THEN TftpStart({p})
                   ELSE IF ~Accepted(p) THEN Ignore(p)
                   ELSE /\ IF first /\ ~FirstBlock(number)
                             THEN RefuseBlock(p, number)
                             ELSE TakeBlock(p, number, IF first THEN 0 ELSE TftpLastBlock)
                        /\ UNCHANGED <<TftpOurPort, TftpTimeoutCount>>
    BY DEF ReceiveData
  <1>2. CASE packetHandler = "arp"
    BY <1>1, <1>2, StartLoad
  <1>3. CASE packetHandler # "arp" /\ ~Accepted(p)
    <2>1. /\ Takes({p}, {})
          /\ UNCHANGED <<NetState, packetHandler, TftpState, TftpBlock, TftpLastBlock,
                         mem, XferSize, session>>
      BY <1>1, <1>3 DEF Ignore, tftp, loaded
    <2>2. net' \subseteq net
      BY <2>1, TakesEffect DEF TypeInv
    <2> QED BY <2>1, <2>2, QuietLoad
  <1>4. CASE /\ packetHandler # "arp" /\ Accepted(p)
             /\ TftpState = "RRQ" /\ ~FirstBlock(Number(p.block))
    <2>1. RefuseBlock(p, Number(p.block)) /\ UNCHANGED session
      BY <1>1, <1>4
    <2>2. net' \subseteq net
      BY <2>1, TakesEffect DEF RefuseBlock, TypeInv
    <2> QED BY <2>1, <2>2, AgainLoad DEF RefuseBlock, NetStartAgain, loaded
  <1>5. CASE /\ packetHandler # "arp" /\ Accepted(p)
             /\ ~(TftpState = "RRQ" /\ ~FirstBlock(Number(p.block)))
    <2> DEFINE last == IF TftpState = "RRQ" THEN 0 ELSE TftpLastBlock
    <2>1. /\ TakeBlock(p, Number(p.block), last) /\ NetState = "continue"
          /\ UNCHANGED <<session, TftpOurPort>> /\ p.type = "DATA"
      BY <1>1, <1>5 DEF Polling
    <2>2. last = IF TftpState = "RRQ" THEN 0 ELSE TftpLastBlock
      OBVIOUS
    <2> HIDE DEF last
    <2> QED BY <1>5, <2>1, <2>2, TakeBlockLoad
  <1> QED BY <1>2, <1>3, <1>4, <1>5

(* An ERROR packet comes. *)
LEMMA ReceiveErrorLoad ==
    ASSUME TypeInv, NetInv, ClientInv, ReceiveError
    PROVE  NetInv' /\ ClientInv'
  <1>1. PICK p \in net :
            /\ UNCHANGED <<serverEther, result, session>>
            /\ IF packetHandler = "arp" THEN TftpStart({p})
               ELSE IF ~Accepted(p) THEN Ignore(p)
               ELSE /\ NetStartAgain
                    /\ Takes({p}, {})
                    /\ UNCHANGED <<NetState, tftp, loaded>>
    BY DEF ReceiveError
  <1>2. CASE packetHandler = "arp"
    BY <1>1, <1>2, StartLoad
  <1>3. CASE packetHandler # "arp" /\ ~Accepted(p)
    <2>1. /\ Takes({p}, {})
          /\ UNCHANGED <<NetState, packetHandler, TftpState, TftpBlock, TftpLastBlock,
                         mem, XferSize, session>>
      BY <1>1, <1>3 DEF Ignore, tftp, loaded
    <2>2. net' \subseteq net
      BY <2>1, TakesEffect DEF TypeInv
    <2> QED BY <2>1, <2>2, QuietLoad
  <1>4. CASE packetHandler # "arp" /\ Accepted(p)
    <2>1. net' \subseteq net
      BY <1>1, <1>4, TakesEffect DEF TypeInv
    <2> QED BY <1>1, <1>4, <2>1, AgainLoad DEF NetStartAgain, loaded
  <1> QED BY <1>2, <1>3, <1>4

(* A timer handler acknowledges the block it has once more. *)
LEMMA TimeoutLoad ==
    ASSUME TypeInv, NetInv, ClientInv, Timeout
    PROVE  NetInv' /\ ClientInv'
  <1>1. UNCHANGED <<mem, XferSize, session, TftpState, TftpBlock, TftpLastBlock>>
    BY DEF Timeout, ArpTimeout, TftpTimeout, StartAgainTimeout, TimerFires, loaded
  <1>2. \A b \in Nat : Stored(b) => Stored(b)'
    BY <1>1 DEF Stored
  <1>3. CASE ArpTimeout
    <2>1. ClientInv'
      BY <1>1, <1>3 DEF ArpTimeout, InstallArp, ClientInv, WholeThing, Stored
    <2>2. \A p \in ArpPacket : Behind(p)'
      BY DEF ArpPacket, Behind
    <2> QED BY <1>1, <1>2, <1>3, <2>1, <2>2, NetKept DEF ArpTimeout
  <1>4. CASE TftpTimeout
    <2>1. /\ packetHandler = "tftp" /\ TftpOurPort \in Ports /\ NetState' = NetState
          /\ TftpState = "DATA" => TftpServerPort \in Tids
      BY <1>4 DEF TftpTimeout, TypeInv, HandlersOK
    <2>2. CASE RetriesExceeded
      <3>1. net' \subseteq net
        BY <1>4, <2>2 DEF TftpTimeout
      <3> QED BY <1>1, <1>4, <2>1, <2>2, <3>1, AgainLoad DEF TftpTimeout, NetStartAgain
    <2>3. CASE ~RetriesExceeded
      <3> DEFINE sent == TftpPacket(TftpState, TftpBlock, TftpServerPort, TftpOurPort)
      <3>1. net' \subseteq net \cup sent /\ UNCHANGED packetHandler
        BY <1>4, <2>3 DEF TftpTimeout
      <3>2. ASSUME NEW p \in sent
            PROVE  /\ p.type # "DATA"
                   /\ p.type = "ACK" => TftpState = "DATA" /\ p.number = TftpBlock
        BY <2>1, SentPacket DEF TypeInv, TypeOK
      <3> HIDE DEF sent
      <3>3. ClientInv'
        BY <1>1, <2>1, <3>1, ClientKept
      <3>4. TftpState = "DATA" => \A b \in 1..TftpBlock : Stored(b)'
        BY <1>2, <2>1 DEF ClientInv, StoredTo
      <3>5. ASSUME NEW p \in sent PROVE Behind(p)'
        <4>1. p.type # "DATA"
          BY <3>2
        <4>2. p.type = "ACK" => StoredTo(p.number)'
          BY <3>2, <3>4 DEF StoredTo
        <4> QED BY <4>1, <4>2 DEF Behind
      <3> QED BY <1>1, <1>2, <3>1, <3>3, <3>5, NetKept
    <2> QED BY <2>2, <2>3
  <1>5. CASE StartAgainTimeout
    <2>1. ClientInv'
      BY <1>1, <1>5 DEF StartAgainTimeout, ClientInv, WholeThing, StoredTo, Stored
    <2>2. net' \subseteq net
      BY <1>5 DEF StartAgainTimeout
    <2> QED BY <1>1, <1>2, <2>1, <2>2, NothingSent
  <1> QED BY <1>3, <1>4, <1>5 DEF Timeout

(* Every step keeps it. *)
LEMMA NextLoad ==
    ASSUME SmallFile, TypeInv, NetInv, ClientInv, [Next]_vars
    PROVE  NetInv' /\ ClientInv'
  <1>1. CASE Restart
    <2>1. /\ UNCHANGED <<mem, session>> /\ XferSize' = 0 /\ NetState' = "continue"
          /\ packetHandler' = "arp" /\ Takes({}, ArpPacket)
      BY <1>1 DEF Restart, InstallArp
    <2>2. 0 <= FileSize
      BY Constants DEF FileSize
    <2>3. ClientInv' /\ \A b \in Nat : Stored(b) => Stored(b)'
      BY <2>1, <2>2 DEF ClientInv, WholeThing, Stored
    <2>4. \A p \in ArpPacket : Behind(p)'
      BY DEF ArpPacket, Behind
    <2>5. net' \subseteq net \cup ArpPacket
      BY <2>1, TakesEffect DEF TypeInv
    <2> QED BY <2>1, <2>3, <2>4, <2>5, NetKept
  <1>2. CASE ArpReply
    <2>1. CASE packetHandler = "arp"
      BY <1>2, <2>1, StartLoad DEF ArpReply
    <2>2. CASE packetHandler # "arp"
      <3>1. /\ Takes({[type |-> "arp_reply"]}, {})
            /\ UNCHANGED <<NetState, packetHandler, TftpState, TftpBlock, TftpLastBlock,
                           mem, XferSize, session>>
        BY <1>2, <2>2 DEF ArpReply, tftp, loaded
      <3>2. net' \subseteq net
        BY <3>1, TakesEffect DEF TypeInv
      <3> QED BY <3>1, <3>2, QuietLoad
    <2> QED BY <2>1, <2>2
  <1>3. CASE ReceiveData
    BY <1>3, ReceiveDataLoad
  <1>4. CASE ReceiveError
    BY <1>4, ReceiveErrorLoad
  <1>5. CASE OtherPacket
    BY <1>5, StartLoad DEF OtherPacket
  <1>6. CASE Timeout
    BY <1>6, TimeoutLoad
  <1>7. CASE CtrlC \/ Return \/ Lose \/ UNCHANGED vars
    <2>1. net' \subseteq net /\
          UNCHANGED <<NetState, packetHandler, TftpState, TftpBlock, TftpLastBlock,
                      mem, XferSize, session>>
      BY <1>7 DEF CtrlC, Return, Lose, vars, client, tftp, loaded
    <2> QED BY <2>1, QuietLoad
  <1>8. CASE Serve
    BY <1>8, ServeLoad
  <1>9. ASSUME NEW t \in Tids, Resend(t) PROVE NetInv' /\ ClientInv'
    <2>1. UNCHANGED <<client, session>> /\ net' = DataPacket(t, session[t].block)
          /\ session[t].block \in 1..Blocks
      BY <1>9 DEF Resend
    <2>2. ClientInv' /\ \A b \in Nat : Stored(b) => Stored(b)'
      BY <2>1, ClientKept DEF client
    <2>3. session[t] \in Session
      BY <2>1, OpenSession, Constants DEF TypeInv
    <2>4. \A q \in net' : q.type = "DATA" /\ q.block = session[t].block
      <3>1. session'[t].port \in Ports /\ session[t].block \in Nat \ {0}
        BY <2>1, <2>3, Constants DEF Session
      <3> QED BY <2>1, <3>1, SentData
    <2>5. \A b \in 1..session[t].block - 1 : Stored(b)'
      BY <2>1, <2>2, Constants DEF NetInv, StoredTo
    <2>6. \A q \in net' : Behind(q)'
      BY <2>4, <2>5 DEF Behind, StoredTo
    <2>7. ASSUME NEW u \in Tids PROVE StoredTo(session[u].block - 1)'
      <3>1. session[u].block - 1 \in Int
        BY Constants DEF TypeInv, TypeOK, NoSession
      <3> QED BY <2>1, <2>2, <3>1, StoredToKept DEF NetInv
    <2> QED BY <2>2, <2>6, <2>7 DEF NetInv
  <1>10. ASSUME NEW t \in Tids, GiveUp(t) PROVE NetInv' /\ ClientInv'
    <2>1. /\ UNCHANGED <<client, net>> /\ net = {}
          /\ session' = [session EXCEPT ![t] = NoSession]
      BY <1>10 DEF GiveUp
    <2>2. ClientInv' /\ \A b \in Nat : Stored(b) => Stored(b)'
      BY <2>1, ClientKept DEF client
    <2>3. ASSUME NEW u \in Tids PROVE StoredTo(session[u].block - 1)'
      <3>1. CASE u = t
        <4>1. session'[u].block = 0
          BY <2>1, <3>1 DEF TypeInv, TypeOK, NoSession
        <4> QED BY <4>1 DEF StoredTo
      <3>2. CASE u # t
        <4>1. session'[u] = session[u] /\ session[u].block - 1 \in Int
          <5>1. session'[u] = session[u]
            BY <2>1, <3>2
          <5>2. session[u].block - 1 \in Int
            BY Constants DEF TypeInv, TypeOK, NoSession
          <5> QED BY <5>1, <5>2
        <4>2. StoredTo(session[u].block - 1)
          BY DEF NetInv
        <4> QED BY <2>2, <4>1, <4>2 DEF StoredTo
      <3> QED BY <3>1, <3>2
    <2> QED BY <2>1, <2>2, <2>3 DEF NetInv
  <1> QED BY <1>1, <1>2, <1>3, <1>4, <1>5, <1>6, <1>7, <1>8, <1>9, <1>10 DEF Next, Receive

(* Nothing is stored and nobody has asked. *)
LEMMA InitLoad == Init => NetInv /\ ClientInv
  <1> SUFFICES ASSUME Init PROVE NetInv /\ ClientInv
    OBVIOUS
  <1>1. \A p \in net : Behind(p)
    BY DEF Init, NetLoopInit, ArpPacket, Behind
  <1>2. \A t \in Tids : StoredTo(session[t].block - 1)
    BY DEF Init, NoSession, StoredTo
  <1>3. ClientInv
    <2>1. 0 <= FileSize
      BY Constants DEF FileSize
    <2> QED BY <2>1 DEF Init, NetLoopInit, ClientInv, WholeThing
  <1> QED BY <1>1, <1>2, <1>3 DEF NetInv

-----------------------------------------------------------------------------
(* Every variable has its type: the retry counter stays within its bound,   *)
(* block numbers within 16 bits, and no block goes outside the file's place *)
(* in memory, whatever number a packet carries.                             *)
THEOREM TypeCorrect == Spec => []TypeOK
  <1>1. TypeInv => TypeOK
    BY DEF TypeInv
  <1> QED BY <1>1, InitType, NextType, PTL DEF Spec

(* "We received the whole thing": TftpHandler takes any block but the last  *)
(* one, also of a session of an attempt before, and still NetLoop reports   *)
(* success only when every block of the file is at its place and the size   *)
(* is that of the file.                                                     *)
THEOREM WholeThingHolds == ASSUME SmallFile PROVE Spec => []WholeThing
  <1>1. ASSUME TypeInv, NetInv, ClientInv, [Next]_vars PROVE NetInv' /\ ClientInv'
    BY <1>1, NextLoad
  <1>2. ClientInv => WholeThing
    BY DEF ClientInv
  <1> QED BY <1>1, <1>2, InitType, NextType, InitLoad, PTL DEF Spec
-----------------------------------------------------------------------------
(* Induction over the natural numbers, about sets. *)

(* A set of numbers that is not empty has a least element. *)
LEMMA Least ==
  ASSUME NEW S \in SUBSET Nat, NEW k \in S
  PROVE  \E m \in S : \A j \in S : m <= j
  <1> DEFINE F == {0..m : m \in S \cap 0..k}
  <1>1. IsFiniteSet(0..k)
    BY FS_Interval
  <1>2. F \subseteq FiniteSubsetsOf(0..k)
    <2>1. \A m \in S \cap 0..k : 0..m \subseteq 0..k
      OBVIOUS
    <2> QED BY <1>1, <2>1, FS_Subset DEF FiniteSubsetsOf
  <1>3. 0..k \in F
    OBVIOUS
  <1>4. IsWellFoundedOn(StrictSubsetOrdering(0..k), FiniteSubsetsOf(0..k))
    BY FS_StrictSubsetOrderingWellFounded
  <1>5. PICK x \in F : \A y \in F : <<y, x>> \notin StrictSubsetOrdering(0..k)
    <2> HIDE DEF F
    <2> QED BY <1>2, <1>3, <1>4, WFMin
  <1>6. PICK m \in S \cap 0..k : x = 0..m
    BY <1>5
  <1>7. ASSUME NEW j \in S, j < m  PROVE FALSE
    <2>1. 0..j \in F /\ 0..j \subseteq 0..k /\ 0..m \subseteq 0..k
      BY <1>7
    <2>2. 0..j \subseteq 0..m /\ 0..j # 0..m
      <3>1. m \in 0..m /\ m \notin 0..j
        BY <1>7
      <3> QED BY <1>7, <3>1
    <2>3. <<0..j, 0..m>> \in StrictSubsetOrdering(0..k)
      BY <2>1, <2>2 DEF StrictSubsetOrdering
    <2> QED BY <1>5, <1>6, <2>1, <2>3
  <1> QED BY <1>7

(* What holds of 0, and of the next number each time, holds of all up to L. *)
LEMMA Induct ==
  ASSUME NEW L \in Nat, NEW S, 0 \in S, \A i \in 0..L - 1 : i \in S => i + 1 \in S
  PROVE  0..L \subseteq S
  <1> DEFINE T == (0..L) \ S
  <1>1. ASSUME NEW k \in T  PROVE FALSE
    <2>1. T \in SUBSET Nat
      OBVIOUS
    <2>2. PICK m \in T : \A j \in T : m <= j
      <3> HIDE DEF T
      <3> QED BY <1>1, <2>1, Least
    <2>3. m # 0 /\ m - 1 \in 0..L - 1 /\ m - 1 \notin T
      BY <2>2
    <2> QED BY <2>3
  <1> QED BY <1>1

(* What takes an element of S to another one, in L steps. *)
Steps(L, S) == [1..L -> [S -> S]]

(* g goes these steps, from s on. *)
Goes(g, L, s, F) == g[0] = s /\ \A i \in 1..L : g[i] = F[i][g[i - 1]]

(* A recursive function over an interval exists. *)
LEMMA Recursion ==
  ASSUME NEW L \in Nat, NEW S, NEW s \in S, NEW F \in Steps(L, S)
  PROVE  \E g \in [0..L -> S] : Goes(g, L, s, F)
  <1> DEFINE Solves(g, m) == g[0] = s /\ \A i \in 1..m : g[i] = F[i][g[i - 1]]
             T == {m \in 0..L : \E g \in [0..m -> S] : Solves(g, m)}
  <1>1. 0 \in T
    <2> DEFINE g == [i \in 0..0 |-> s]
    <2>1. g \in [0..0 -> S] /\ Solves(g, 0)
      OBVIOUS
    <2> HIDE DEF g, Solves
    <2> QED BY <2>1
  <1>2. ASSUME NEW m \in 0..L - 1, m \in T  PROVE m + 1 \in T
    <2>1. PICK g \in [0..m -> S] : Solves(g, m)
      BY <1>2
    <2> DEFINE h == [i \in 0..m + 1 |-> IF i <= m THEN g[i] ELSE F[m + 1][g[m]]]
    <2>2. F[m + 1][g[m]] \in S
      BY DEF Steps
    <2>3. h \in [0..m + 1 -> S]
      BY <2>2
    <2>4. h[0] = s
      BY <2>1
    <2>5. ASSUME NEW i \in 1..m + 1
          PROVE  h[i] = F[i][h[i - 1]]
      <3>1. CASE i \in 1..m
        <4>1. h[i] = g[i] /\ h[i - 1] = g[i - 1]
          BY <3>1
        <4>2. g[i] = F[i][g[i - 1]]
          BY <2>1, <3>1
        <4> QED BY <4>1, <4>2
      <3>2. CASE i = m + 1
        <4>1. h[i] = F[m + 1][g[m]] /\ h[i - 1] = g[m]
          BY <3>2
        <4> QED BY <3>2, <4>1
      <3> QED BY <3>1, <3>2
    <2>6. Solves(h, m + 1)
      <3> HIDE DEF h
      <3> QED BY <2>4, <2>5
    <2> HIDE DEF h, Solves
    <2> QED BY <2>3, <2>6
  <1>3. 0..L \subseteq T
    <2> HIDE DEF T
    <2> QED BY <1>1, <1>2, Induct
  <1>4. L \in T
    <2> HIDE DEF T
    <2> QED BY <1>3
  <1> QED BY <1>4 DEF Goes

-----------------------------------------------------------------------------
(* What k_recv makes of the characters of a packet. *)

Cell == Byte \cup {Blank}
Cells == 0..Room - 1
FeedState == [memory : [Cells -> Cell], addr : Nat, escape : BOOLEAN]

(* Where s has not been yet, and nowhere else, z may differ from it. *)
Keeps(s, z) ==
    /\ z \in FeedState /\ s.addr <= z.addr
    /\ \A a \in Cells : a < s.addr => z.memory[a] = s.memory[a]

(* One byte is stored. *)
LEMMA StoreEffect ==
  ASSUME NEW s \in FeedState, NEW b \in Byte
  PROVE  LET z == Store(s, b)
         IN  /\ Keeps(s, z) /\ z.addr = s.addr + 1 /\ z.escape = FALSE
             /\ s.addr < Room => z.memory[s.addr] = b
  <1> DEFINE m == [s.memory EXCEPT ![s.addr] = b]
  <1>1. s.memory \in [Cells -> Cell] /\ s.addr \in Nat /\ b \in Cell /\ Room \in Nat
    BY KermitAssumption DEF FeedState, Cell
  <1>2. Store(s, b) = [memory |-> m, addr |-> s.addr + 1, escape |-> FALSE]
    BY DEF Store
  <1>3. m \in [Cells -> Cell]
    BY <1>1
  <1>4. \A a \in Cells : a < s.addr => m[a] = s.memory[a]
    BY <1>1 DEF Cells
  <1>5. s.addr < Room => m[s.addr] = b
    BY <1>1 DEF Cells
  <1> HIDE DEF m
  <1>6. Keeps(s, Store(s, b))
    BY <1>1, <1>2, <1>3, <1>4 DEF Keeps, FeedState
  <1> QED BY <1>2, <1>5, <1>6

(* One character is taken. *)
LEMMA CharEffect ==
  ASSUME NEW s \in FeedState, NEW c \in Char
  PROVE  /\ Keeps(s, KDataChar(s, c))
         /\ s.escape => KDataChar(s, c) = Store(s, Ktrans[c])
         /\ ~s.escape /\ c # his_quote => KDataChar(s, c) = Store(s, c)
         /\ ~s.escape /\ c = his_quote => KDataChar(s, c) = [s EXCEPT !.escape = TRUE]
  <1>1. c \in Byte /\ Ktrans[c] \in Byte /\ s.escape \in BOOLEAN
    BY KermitAssumption DEF FeedState
  <1>2. CASE s.escape
    <2>1. KDataChar(s, c) = Store(s, Ktrans[c])
      BY <1>2 DEF KDataChar
    <2> QED BY <1>1, <1>2, <2>1, StoreEffect
  <1>3. CASE ~s.escape /\ c = his_quote
    <2>1. KDataChar(s, c) = [s EXCEPT !.escape = TRUE]
      BY <1>3 DEF KDataChar
    <2>2. [s EXCEPT !.escape = TRUE] \in FeedState
      BY DEF FeedState
    <2>3. [s EXCEPT !.escape = TRUE].addr = s.addr /\ [s EXCEPT !.escape = TRUE].memory = s.memory
      BY DEF FeedState
    <2>4. s.addr \in Nat
      BY DEF FeedState
    <2>5. Keeps(s, [s EXCEPT !.escape = TRUE])
      BY <2>2, <2>3, <2>4 DEF Keeps
    <2> QED BY <1>3, <2>1, <2>5
  <1>4. CASE ~s.escape /\ c # his_quote
    <2>1. KDataChar(s, c) = Store(s, c)
      BY <1>4 DEF KDataChar
    <2> QED BY <1>1, <1>4, <2>1, StoreEffect
  <1> QED BY <1>2, <1>3, <1>4

(* Feed goes from state to state. *)
LEMMA FeedSteps ==
  ASSUME NEW s \in FeedState, NEW chars \in Seq(Char)
  PROVE  \E g \in [0..Len(chars) -> FeedState] :
            /\ g[0] = s
            /\ \A i \in 1..Len(chars) : g[i] = KDataChar(g[i - 1], chars[i])
            /\ Feed(s, chars) = g[Len(chars)]
  <1> DEFINE L == Len(chars)
             F == [i \in 1..L |-> [x \in FeedState |-> KDataChar(x, chars[i])]]
             Is(g) == g = [i \in 0..L |-> IF i = 0 THEN s ELSE KDataChar(g[i - 1], chars[i])]
             after == CHOOSE g : Is(g)
  <1>1. L \in Nat /\ \A i \in 1..L : chars[i] \in Char
    OBVIOUS
  <1>2. F \in Steps(L, FeedState)
    <2>1. \A i \in 1..L : \A x \in FeedState : KDataChar(x, chars[i]) \in FeedState
      BY <1>1, CharEffect DEF Keeps
    <2> QED BY <2>1 DEF Steps
  <1>3. PICK g \in [0..L -> FeedState] : Goes(g, L, s, F)
    <2>1. L \in Nat
      BY <1>1
    <2> HIDE DEF F, L, Is, after
    <2> QED BY <1>2, <2>1, Recursion
  <1>4. Is(g)
    <2>1. ASSUME NEW i \in 1..L  PROVE F[i][g[i - 1]] = KDataChar(g[i - 1], chars[i])
      <3>1. i - 1 \in 0..L
        BY <1>1
      <3> QED BY <3>1
    <2>2. \A i \in 0..L : g[i] = IF i = 0 THEN s ELSE KDataChar(g[i - 1], chars[i])
      <3>1. \A i \in 0..L : i # 0 => i \in 1..L
        BY <1>1
      <3> HIDE DEF F, L, Is, after
      <3> QED BY <1>3, <2>1, <3>1 DEF Goes
    <2>3. g = [i \in 0..L |-> g[i]]
      OBVIOUS
    <2> QED BY <2>2, <2>3
  <1>5. Is(after)
    <2> HIDE DEF Is
    <2> QED BY <1>4
  <1>6. Feed(s, chars) = after[L]
    BY DEF Feed
  <1>7. after \in [0..L -> FeedState]
    <2> DEFINE T == {i \in 0..L : after[i] \in FeedState}
    <2> HIDE DEF after
    <2>1. 0 \in T
      BY <1>1, <1>5
    <2>2. ASSUME NEW i \in 0..L - 1, i \in T  PROVE i + 1 \in T
      <3>1. i + 1 \in 1..L /\ (i + 1) - 1 = i
        BY <1>1
      <3>2. after[i + 1] = KDataChar(after[i], chars[i + 1])
        BY <1>5, <3>1
      <3>3. after[i] \in FeedState /\ chars[i + 1] \in Char
        BY <1>1, <2>2, <3>1
      <3>4. KDataChar(after[i], chars[i + 1]) \in FeedState
        <4> HIDE DEF F, Is, L, T
        <4> QED BY <3>3, CharEffect DEF Keeps
      <3>5. i + 1 \in 0..L
        BY <1>1
      <3> QED BY <3>2, <3>4, <3>5
    <2>3. 0..L \subseteq T
      <3> HIDE DEF T, L
      <3> QED BY <1>1, <2>1, <2>2, Induct
    <2> QED BY <1>5, <2>3
  <1>8. after[0] = s /\ \A i \in 1..L : after[i] = KDataChar(after[i - 1], chars[i])
    <2> HIDE DEF after
    <2> QED BY <1>1, <1>5
  <1> HIDE DEF after
  <1> QED BY <1>6, <1>7, <1>8

(* Whatever arrives, what is in memory before the address stays. *)
LEMMA FeedKeeps ==
  ASSUME NEW s \in FeedState, NEW chars \in Seq(Char)
  PROVE  Keeps(s, Feed(s, chars))
  <1> DEFINE L == Len(chars)
  <1>1. PICK g \in [0..L -> FeedState] :
            /\ g[0] = s
            /\ \A i \in 1..L : g[i] = KDataChar(g[i - 1], chars[i])
            /\ Feed(s, chars) = g[L]
    BY FeedSteps
  <1> DEFINE T == {i \in 0..L : Keeps(s, g[i])}
  <1>2. 0 \in T
    BY <1>1 DEF Keeps, FeedState
  <1>3. ASSUME NEW i \in 0..L - 1, i \in T  PROVE i + 1 \in T
    <2>1. i + 1 \in 1..L /\ (i + 1) - 1 = i /\ chars[i + 1] \in Char
      OBVIOUS
    <2>2. Keeps(g[i], g[i + 1])
      BY <1>1, <2>1, CharEffect
    <2>3. s.addr \in Nat /\ g[i].addr \in Nat /\ g[i + 1].addr \in Nat
      BY <2>1 DEF FeedState
    <2>4. Keeps(s, g[i])
      BY <1>3
    <2>5. Keeps(s, g[i + 1])
      BY <2>2, <2>3, <2>4 DEF Keeps, Cells
    <2> QED BY <2>1, <2>5
  <1>4. L \in 0..L
    OBVIOUS
  <1>5. 0..L \subseteq T
    <2>1. L \in Nat
      OBVIOUS
    <2> HIDE DEF T, L
    <2> QED BY <1>2, <1>3, <2>1, Induct
  <1> QED BY <1>1, <1>4, <1>5

(* No character changes nothing; one more is taken last. *)
LEMMA FeedAppend ==
  ASSUME NEW s \in FeedState, NEW chars \in Seq(Char), NEW c \in Char
  PROVE  /\ Feed(s, <<>>) = s
         /\ Feed(s, Append(chars, c)) = KDataChar(Feed(s, chars), c)
  <1> DEFINE L == Len(chars)
             more == Append(chars, c)
  <1>1. Feed(s, <<>>) = s
    <2>1. <<>> \in Seq(Char) /\ Len(<<>>) = 0
      OBVIOUS
    <2> QED BY <2>1, FeedSteps
  <1>2. more \in Seq(Char) /\ Len(more) = L + 1 /\ more[L + 1] = c
        /\ \A i \in 1..L : more[i] = chars[i]
    OBVIOUS
  <1>3. PICK g \in [0..L -> FeedState] :
            /\ g[0] = s
            /\ \A i \in 1..L : g[i] = KDataChar(g[i - 1], chars[i])
            /\ Feed(s, chars) = g[L]
    BY FeedSteps
  <1> HIDE DEF more
  <1>4. PICK h \in [0..L + 1 -> FeedState] :
            /\ h[0] = s
            /\ \A i \in 1..L + 1 : h[i] = KDataChar(h[i - 1], more[i])
            /\ Feed(s, more) = h[L + 1]
    <2>1. PICK h \in [0..Len(more) -> FeedState] :
              /\ h[0] = s
              /\ \A i \in 1..Len(more) : h[i] = KDataChar(h[i - 1], more[i])
              /\ Feed(s, more) = h[Len(more)]
      <3>1. more \in Seq(Char)
        BY <1>2
      <3> HIDE DEF L
      <3> QED BY <3>1, FeedSteps
    <2>2. Len(more) = L + 1
      BY <1>2
    <2> HIDE DEF L
    <2> QED BY <2>1, <2>2
  <1> DEFINE T == {i \in 0..L : h[i] = g[i]}
  <1>5. 0 \in T
    BY <1>3, <1>4
  <1>6. ASSUME NEW i \in 0..L - 1, i \in T  PROVE i + 1 \in T
    <2>1. i + 1 \in 1..L /\ i + 1 \in 1..L + 1 /\ (i + 1) - 1 = i
      OBVIOUS
    <2>2. h[i + 1] = KDataChar(h[i], chars[i + 1]) /\ g[i + 1] = KDataChar(g[i], chars[i + 1])
      BY <1>2, <1>3, <1>4, <2>1
    <2> QED BY <1>6, <2>1, <2>2
  <1>7. L \in 0..L /\ L + 1 \in 1..L + 1 /\ (L + 1) - 1 = L
    OBVIOUS
  <1>8. 0..L \subseteq T
    <2>1. L \in Nat
      OBVIOUS
    <2> HIDE DEF T, L
    <2> QED BY <1>5, <1>6, <2>1, Induct
  <1>9. Feed(s, more) = KDataChar(g[L], c)
    BY <1>2, <1>4, <1>7, <1>8
  <1> QED BY <1>1, <1>3, <1>9 DEF more

(* How the sender writes a byte: as the receiver reads it. *)
LEMMA EncodeType ==
  ASSUME NEW b \in Byte
  PROVE  /\ Encode[b] \in Seq(Char)
         /\ \/ b \in Char /\ b # Quote /\ Encode[b] = <<b>>
            \/ \E c \in Char : Encode[b] = <<Quote, c>> /\ Ktrans[c] = b
  <1>1. CASE b \in Char /\ b # Quote /\ Encode[b] = <<b>>
    BY <1>1
  <1>2. CASE \E c \in Char : Encode[b] = <<Quote, c>> /\ Ktrans[c] = b
    <2>1. Quote \in Char
      BY KermitAssumption
    <2> QED BY <1>2, <2>1
  <1> QED BY <1>1, <1>2, KermitAssumption

(* The payload of a chunk is written one byte after the other. *)
LEMMA PayloadSteps ==
  ASSUME NEW chunk \in Seq(Byte)
  PROVE  \E w \in [0..Len(chunk) -> Seq(Char)] :
            /\ w[0] = <<>>
            /\ \A i \in 1..Len(chunk) : w[i] = w[i - 1] \o Encode[chunk[i]]
            /\ Payload(chunk) = w[Len(chunk)]
  <1> DEFINE L == Len(chunk)
             S == Seq(Char)
             F == [i \in 1..L |-> [x \in S |-> x \o Encode[chunk[i]]]]
             Is(g) == g = [i \in 0..L |-> IF i = 0 THEN <<>> ELSE g[i - 1] \o Encode[chunk[i]]]
             written == CHOOSE g : Is(g)
  <1>1. L \in Nat /\ <<>> \in S /\ \A i \in 1..L : chunk[i] \in Byte
    OBVIOUS
  <1>2. F \in Steps(L, S)
    <2>1. \A i \in 1..L : \A x \in S : x \o Encode[chunk[i]] \in S
      BY <1>1, EncodeType
    <2> QED BY <2>1 DEF Steps
  <1>3. PICK g \in [0..L -> S] : Goes(g, L, <<>>, F)
    <2> HIDE DEF F, L, S, Is, written
    <2> QED BY <1>1, <1>2, Recursion
  <1>4. Is(g)
    <2>1. ASSUME NEW i \in 1..L  PROVE F[i][g[i - 1]] = g[i - 1] \o Encode[chunk[i]]
      <3>1. i - 1 \in 0..L
        BY <1>1
      <3> QED BY <3>1
    <2>2. \A i \in 0..L : g[i] = IF i = 0 THEN <<>> ELSE g[i - 1] \o Encode[chunk[i]]
      <3>1. \A i \in 0..L : i # 0 => i \in 1..L
        BY <1>1
      <3> HIDE DEF F, L, S, Is, written
      <3> QED BY <1>3, <2>1, <3>1 DEF Goes
    <2>3. g = [i \in 0..L |-> g[i]]
      OBVIOUS
    <2> QED BY <2>2, <2>3
  <1>5. Is(written)
    <2> HIDE DEF Is
    <2> QED BY <1>4
  <1>6. Payload(chunk) = written[L]
    BY DEF Payload
  <1>7. written \in [0..L -> S]
    <2> DEFINE T == {i \in 0..L : written[i] \in S}
    <2> HIDE DEF written
    <2>1. 0 \in T
      BY <1>1, <1>5
    <2>2. ASSUME NEW i \in 0..L - 1, i \in T  PROVE i + 1 \in T
      <3>1. i + 1 \in 1..L /\ (i + 1) - 1 = i
        BY <1>1
      <3>2. written[i + 1] = written[i] \o Encode[chunk[i + 1]]
        <4>1. i + 1 \in 0..L /\ i + 1 # 0
          BY <3>1
        <4>2. written[i + 1] = written[(i + 1) - 1] \o Encode[chunk[i + 1]]
          BY <1>5, <4>1
        <4> QED BY <3>1, <4>2
      <3>3. Encode[chunk[i + 1]] \in S /\ written[i] \in S
        BY <1>1, <2>2, <3>1, EncodeType
      <3>4. written[i + 1] \in S
        BY <3>2, <3>3
      <3> QED BY <3>1, <3>4
    <2>3. 0..L \subseteq T
      <3> HIDE DEF T, L
      <3> QED BY <1>1, <2>1, <2>2, Induct
    <2> QED BY <1>5, <2>3
  <1>8. written[0] = <<>> /\ \A i \in 1..L : written[i] = written[i - 1] \o Encode[chunk[i]]
    <2>1. 0 \in 0..L /\ \A i \in 1..L : i \in 0..L /\ i # 0
      BY <1>1
    <2> HIDE DEF written, L
    <2> QED BY <1>5, <2>1
  <1> HIDE DEF written
  <1> QED BY <1>6, <1>7, <1>8

(* The characters of one more byte store that byte. *)
LEMMA ByteStored ==
  ASSUME his_quote = Quote,
         NEW s \in FeedState, NEW chars \in Seq(Char), NEW b \in Byte,
         Feed(s, chars).escape = FALSE
  PROVE  Feed(s, chars \o Encode[b]) = Store(Feed(s, chars), b)
  <1> DEFINE z == Feed(s, chars)
  <1>1. z \in FeedState
    BY FeedKeeps DEF Keeps
  <1>2. CASE b \in Char /\ b # Quote /\ Encode[b] = <<b>>
    <2>1. chars \o Encode[b] = Append(chars, b)
      BY <1>2
    <2>2. Feed(s, Append(chars, b)) = KDataChar(z, b)
      BY <1>2, FeedAppend
    <2>3. z.escape = FALSE
      OBVIOUS
    <2> HIDE DEF z
    <2>4. KDataChar(z, b) = Store(z, b)
      BY <1>1, <1>2, <2>3, CharEffect
    <2> QED BY <2>1, <2>2, <2>4 DEF z
  <1>3. ASSUME NEW c \in Char, Encode[b] = <<Quote, c>>, Ktrans[c] = b
        PROVE  Feed(s, chars \o Encode[b]) = Store(z, b)
    <2>1. Quote \in Char
      BY KermitAssumption
    <2>2. chars \o Encode[b] = Append(Append(chars, Quote), c) /\ Append(chars, Quote) \in Seq(Char)
      BY <1>3, <2>1
    <2>3. Feed(s, Append(Append(chars, Quote), c)) = KDataChar(KDataChar(z, Quote), c)
      <3>1. Feed(s, Append(chars, Quote)) = KDataChar(z, Quote)
        BY <2>1, FeedAppend
      <3>2. \A t \in Seq(Char) : Feed(s, Append(t, c)) = KDataChar(Feed(s, t), c)
        BY FeedAppend
      <3> QED BY <2>2, <3>1, <3>2
    <2>4. KDataChar(z, Quote) = [z EXCEPT !.escape = TRUE] /\ KDataChar(z, Quote) \in FeedState
      <3> HIDE DEF z
      <3> QED BY <1>1, <2>1, CharEffect DEF z, Keeps
    <2>5. [z EXCEPT !.escape = TRUE].escape
      <3> HIDE DEF z
      <3> QED BY <1>1 DEF FeedState
    <2>6. KDataChar(KDataChar(z, Quote), c) = Store([z EXCEPT !.escape = TRUE], b)
      <3> DEFINE y == [z EXCEPT !.escape = TRUE]
      <3>1. y \in FeedState /\ y.escape /\ KDataChar(z, Quote) = y
        BY <2>4, <2>5
      <3> HIDE DEF y, z
      <3>2. KDataChar(y, c) = Store(y, Ktrans[c])
        BY <3>1, CharEffect
      <3>3. KDataChar(KDataChar(z, Quote), c) = Store(y, b)
        BY <1>3, <3>1, <3>2
      <3> QED BY <3>3 DEF y
    <2>7. Store([z EXCEPT !.escape = TRUE], b) = Store(z, b)
      <3> HIDE DEF z
      <3> QED BY <1>1 DEF Store, FeedState
    <2> QED BY <2>2, <2>3, <2>6, <2>7
  <1> QED BY <1>2, <1>3, EncodeType

(* An undamaged data packet stores its bytes where the one before it ended. *)
LEMMA ChunkStored ==
  ASSUME his_quote = Quote,
         NEW s \in FeedState, s.escape = FALSE,
         NEW chunk \in Seq(Byte), s.addr + Len(chunk) <= Room
  PROVE  LET z == Feed(s, Payload(chunk))
         IN  /\ Keeps(s, z) /\ z.addr = s.addr + Len(chunk) /\ z.escape = FALSE
             /\ \A j \in 1..Len(chunk) : z.memory[s.addr + j - 1] = chunk[j]
  <1> DEFINE L == Len(chunk)
  <1>1. PICK w \in [0..L -> Seq(Char)] :
            /\ w[0] = <<>>
            /\ \A i \in 1..L : w[i] = w[i - 1] \o Encode[chunk[i]]
            /\ Payload(chunk) = w[L]
    BY PayloadSteps
  <1>2. L \in Nat /\ s.addr \in Nat /\ Room \in Nat
    BY KermitAssumption DEF FeedState
  <1> DEFINE T == {i \in 0..L :
                     LET z == Feed(s, w[i])
                     IN  /\ Keeps(s, z) /\ z.addr = s.addr + i /\ z.escape = FALSE
                         /\ \A j \in 1..i : z.memory[s.addr + j - 1] = chunk[j]}
  <1>3. 0 \in T
    <2>1. Feed(s, w[0]) = s
      <3>1. \E c \in Char : TRUE
        BY KermitAssumption
      <3> QED BY <1>1, <3>1, FeedAppend
    <2>2. Keeps(s, s) /\ s.addr = s.addr + 0 /\ 0 \in 0..L /\ 1..0 = {}
      BY <1>2 DEF Keeps
    <2> QED BY <2>1, <2>2
  <1>4. ASSUME NEW i \in 0..L - 1, i \in T  PROVE i + 1 \in T
    <2> DEFINE y == Feed(s, w[i])
               z == Feed(s, w[i + 1])
               b == chunk[i + 1]
    <2>1. i + 1 \in 1..L /\ (i + 1) - 1 = i /\ b \in Byte /\ w[i] \in Seq(Char)
      <3>1. i + 1 \in 1..L /\ (i + 1) - 1 = i /\ i \in 0..L
        BY <1>2
      <3>2. w[i] \in Seq(Char)
        BY <3>1
      <3>3. b \in Byte
        BY <3>1
      <3> QED BY <3>1, <3>2, <3>3
    <2>2. Keeps(s, y) /\ y.addr = s.addr + i /\ y.escape = FALSE
          /\ \A j \in 1..i : y.memory[s.addr + j - 1] = chunk[j]
      BY <1>4
    <2>3. w[i + 1] = w[i] \o Encode[b]
      BY <1>1, <2>1
    <2>4. z = Store(y, b)
      <3>1. \A t \in Seq(Char), v \in Byte :
               Feed(s, t).escape = FALSE => Feed(s, t \o Encode[v]) = Store(Feed(s, t), v)
        BY ByteStored
      <3>2. Feed(s, w[i] \o Encode[b]) = Store(Feed(s, w[i]), b)
        <4> HIDE DEF b
        <4> QED BY <2>1, <2>2, <3>1
      <3> QED BY <2>3, <3>2
    <2> HIDE DEF y, z, b
    <2>5. y \in FeedState /\ y.addr < Room
      BY <1>2, <2>2 DEF Keeps
    <2>6. Keeps(y, z) /\ z.addr = y.addr + 1 /\ z.escape = FALSE /\ z.memory[y.addr] = b
      BY <2>1, <2>4, <2>5, StoreEffect
    <2>7. Keeps(s, z)
      <3>1. \A a \in Cells : a < s.addr => a < y.addr
        BY <1>2, <2>2 DEF Cells
      <3>2. z.addr >= s.addr
        BY <1>2, <2>2, <2>6
      <3> QED BY <2>2, <2>6, <3>1, <3>2 DEF Keeps
    <2>8. z.addr = s.addr + (i + 1)
      BY <1>2, <2>2, <2>6
    <2>9. ASSUME NEW j \in 1..i + 1
          PROVE  z.memory[s.addr + j - 1] = chunk[j]
      <3>1. CASE j = i + 1
        BY <1>2, <2>2, <2>6, <3>1 DEF b
      <3>2. CASE j \in 1..i
        <4>1. s.addr + j - 1 \in Cells /\ s.addr + j - 1 < y.addr
          BY <1>2, <2>2, <2>5, <3>2 DEF Cells
        <4> QED BY <2>2, <2>6, <3>2, <4>1 DEF Keeps
      <3> QED BY <3>1, <3>2
    <2> QED BY <2>1, <2>6, <2>7, <2>8, <2>9 DEF z
  <1>5. 0..L \subseteq T
    <2> HIDE DEF T, L
    <2> QED BY <1>2, <1>3, <1>4, Induct
  <1>6. L \in T
    <2> HIDE DEF T, L
    <2> QED BY <1>2, <1>5
  <1> QED BY <1>1, <1>6

-----------------------------------------------------------------------------
(* Where the data packets' contents go. *)

(* Length is the function its definition describes. *)
LEMMA LengthSteps ==
  /\ Length \in [0..Len(File) -> Nat] /\ Length[0] = 0
  /\ \A i \in 1..Len(File) : File[i] \in Seq(Byte) /\ Length[i] = Length[i - 1] + Len(File[i])
  <1> DEFINE L == Len(File)
             F == [i \in 1..L |-> [x \in Nat |-> x + Len(File[i])]]
             Is(g) == g = [k \in 0..L |-> IF k = 0 THEN 0 ELSE g[k - 1] + Len(File[k])]
  <1>1. L \in Nat /\ 0 \in Nat /\ \A i \in 1..L : File[i] \in Seq(Byte) /\ Len(File[i]) \in Nat
    BY KermitAssumption
  <1>2. F \in Steps(L, Nat)
    BY <1>1 DEF Steps
  <1>3. PICK g \in [0..L -> Nat] : Goes(g, L, 0, F)
    <2> HIDE DEF F, L, Is
    <2> QED BY <1>1, <1>2, Recursion
  <1>4. Is(g)
    <2>1. ASSUME NEW i \in 1..L  PROVE F[i][g[i - 1]] = g[i - 1] + Len(File[i])
      <3>1. i - 1 \in 0..L
        BY <1>1
      <3> QED BY <3>1
    <2>2. \A i \in 0..L : g[i] = IF i = 0 THEN 0 ELSE g[i - 1] + Len(File[i])
      <3>1. \A i \in 0..L : i # 0 => i \in 1..L
        BY <1>1
      <3> HIDE DEF F, L, Is
      <3> QED BY <1>3, <2>1, <3>1 DEF Goes
    <2>3. g = [i \in 0..L |-> g[i]]
      OBVIOUS
    <2> QED BY <2>2, <2>3
  <1>5. Is(Length)
    <2>1. Length = CHOOSE f : Is(f)
      BY DEF Length
    <2> HIDE DEF Is
    <2> QED BY <1>4, <2>1
  <1>6. Length[0] = 0 /\ \A i \in 1..L : Length[i] = Length[i - 1] + Len(File[i])
    BY <1>1, <1>5
  <1>7. Length \in [0..L -> Nat]
    <2> DEFINE T == {i \in 0..L : Length[i] \in Nat}
    <2>1. 0 \in T
      BY <1>1, <1>6
    <2>2. ASSUME NEW i \in 0..L - 1, i \in T  PROVE i + 1 \in T
      <3>1. i + 1 \in 1..L /\ (i + 1) - 1 = i
        BY <1>1
      <3> QED BY <1>1, <1>6, <2>2, <3>1
    <2>3. 0..L \subseteq T
      <3> HIDE DEF T, L
      <3> QED BY <1>1, <2>1, <2>2, Induct
    <2> QED BY <1>5, <2>3
  <1> QED BY <1>1, <1>6, <1>7

(* Later chunks go behind earlier ones. *)
LEMMA LengthGrows ==
  \A i, j \in 0..Len(File) : i <= j => Length[i] <= Length[j]
  <1> DEFINE L == Len(File)
             T == {j \in 0..L : \A i \in 0..j : Length[i] <= Length[j]}
  <1>1. L \in Nat
    BY KermitAssumption
  <1>2. 0 \in T
    BY <1>1, LengthSteps
  <1>3. ASSUME NEW j \in 0..L - 1, j \in T  PROVE j + 1 \in T
    <2>1. j + 1 \in 1..L /\ (j + 1) - 1 = j /\ j \in 0..L
      BY <1>1
    <2>2. Len(File[j + 1]) \in Nat /\ Length[j + 1] = Length[j] + Len(File[j + 1])
      BY <2>1, LengthSteps
    <2>3. Length[j] \in Nat /\ Length[j + 1] \in Nat
      BY <2>1, LengthSteps
    <2>4. ASSUME NEW i \in 0..j + 1  PROVE Length[i] <= Length[j + 1]
      <3>1. CASE i = j + 1
        BY <2>3, <3>1
      <3>2. CASE i \in 0..j
        <4>1. i \in 0..L /\ Length[i] <= Length[j]
          BY <1>3, <2>1, <3>2
        <4>2. Length[i] \in Nat
          BY <4>1, LengthSteps
        <4> QED BY <2>2, <2>3, <4>1, <4>2
      <3> QED BY <2>1, <3>1, <3>2
    <2> QED BY <2>1, <2>4
  <1>4. 0..L \subseteq T
    <2> HIDE DEF T, L
    <2> QED BY <1>1, <1>2, <1>3, Induct
  <1> QED BY <1>1, <1>4

(* The number of the last packet. *)
Last == Len(File) + 4

(* The packets, one by one. *)
LEMMA PacketsAre ==
  /\ Len(Packets) = Last /\ Last \in Nat
  /\ Packets[1] = <<"S", <<Quote>>>> /\ Packets[2] = <<"F", FileName>>
  /\ \A i \in 1..Len(File) : Packets[i + 2] = <<"D", Payload(File[i])>>
  /\ Packets[Len(File) + 3] = <<"Z", <<>>>> /\ Packets[Last] = <<"B", <<>>>>
  <1> DEFINE L == Len(File)
             head == << <<"S", <<Quote>>>>, <<"F", FileName>> >>
             body == [i \in DOMAIN File |-> <<"D", Payload(File[i])>>]
             tail == << <<"Z", <<>>>>, <<"B", <<>>>> >>
  <1>1. L \in Nat /\ DOMAIN File = 1..L
    BY KermitAssumption
  <1> DEFINE X == {head[1], head[2], tail[1], tail[2]} \cup {body[i] : i \in 1..L}
  <1>2. Packets = (head \o body) \o tail
    BY DEF Packets
  <1>3. head \in Seq(X) /\ Len(head) = 2 /\ tail \in Seq(X) /\ Len(tail) = 2
    OBVIOUS
  <1>4. body \in Seq(X) /\ Len(body) = L /\ \A i \in 1..L : body[i] = <<"D", Payload(File[i])>>
    BY <1>1
  <1>5. head[1] = <<"S", <<Quote>>>> /\ head[2] = <<"F", FileName>>
        /\ tail[1] = <<"Z", <<>>>> /\ tail[2] = <<"B", <<>>>>
    OBVIOUS
  <1> HIDE DEF head, body, tail, X, L
  <1> DEFINE front == head \o body
  <1>6. front \in Seq(X) /\ Len(front) = L + 2 /\ front[1] = head[1] /\ front[2] = head[2]
        /\ \A i \in 1..L : front[i + 2] = body[i]
    <2>1. /\ front \in Seq(X) /\ Len(front) = Len(head) + Len(body)
          /\ \A i \in 1..Len(head) + Len(body) :
                front[i] = IF i <= Len(head) THEN head[i] ELSE body[i - Len(head)]
      BY <1>3, <1>4, ConcatProperties
    <2>2. Len(head) + Len(body) = L + 2
      BY <1>1, <1>3, <1>4
    <2>3. front \in Seq(X) /\ Len(front) = L + 2
      BY <2>1, <2>2
    <2>4. \A i \in 1..L + 2 : front[i] = IF i <= 2 THEN head[i] ELSE body[i - 2]
      <3> HIDE DEF front
      <3> QED BY <1>3, <2>1, <2>2
    <2>5. \A i \in 1..L : i + 2 \in 1..L + 2 /\ ~(i + 2 <= 2) /\ (i + 2) - 2 = i
      BY <1>1
    <2>6. 1 \in 1..L + 2 /\ 2 \in 1..L + 2
      BY <1>1
    <2> HIDE DEF front
    <2> QED BY <2>3, <2>4, <2>5, <2>6
  <1> HIDE DEF front
  <1>7. Len(front \o tail) = L + 4
        /\ (\A i \in 1..L + 2 : (front \o tail)[i] = front[i])
        /\ (front \o tail)[L + 3] = tail[1] /\ (front \o tail)[L + 4] = tail[2]
    <2>1. /\ Len(front \o tail) = Len(front) + Len(tail)
          /\ \A i \in 1..Len(front) + Len(tail) :
                (front \o tail)[i] = IF i <= Len(front) THEN front[i] ELSE tail[i - Len(front)]
      BY <1>3, <1>6, ConcatProperties
    <2>2. Len(front) + Len(tail) = L + 4
      BY <1>1, <1>3, <1>6
    <2>3. Len(front \o tail) = L + 4
          /\ \A i \in 1..L + 4 :
                (front \o tail)[i] = IF i <= L + 2 THEN front[i] ELSE tail[i - (L + 2)]
      BY <1>6, <2>1, <2>2
    <2>4. \A i \in 1..L + 2 : i \in 1..L + 4 /\ i <= L + 2
      BY <1>1
    <2>5. /\ L + 3 \in 1..L + 4 /\ ~(L + 3 <= L + 2) /\ (L + 3) - (L + 2) = 1
          /\ L + 4 \in 1..L + 4 /\ ~(L + 4 <= L + 2) /\ (L + 4) - (L + 2) = 2
      BY <1>1
    <2> QED BY <2>3, <2>4, <2>5
  <1> DEFINE ps == front \o tail
  <1>8. \A i \in 1..L : i + 2 \in 1..L + 2
    BY <1>1
  <1>9. 1 \in 1..L + 2 /\ 2 \in 1..L + 2
    BY <1>1
  <1> HIDE DEF ps
  <1>10. /\ Len(ps) = L + 4 /\ ps[1] = head[1] /\ ps[2] = head[2]
         /\ \A i \in 1..L : ps[i + 2] = body[i]
         /\ ps[L + 3] = tail[1] /\ ps[L + 4] = tail[2]
    BY <1>6, <1>7, <1>8, <1>9 DEF ps
  <1>11. Packets = ps /\ Last = L + 4 /\ Last \in Nat
    BY <1>1, <1>2 DEF Last, L, front, ps
  <1>12. /\ Len(Packets) = Last /\ Packets[1] = head[1] /\ Packets[2] = head[2]
         /\ \A i \in 1..L : Packets[i + 2] = <<"D", Payload(File[i])>>
         /\ Packets[L + 3] = tail[1] /\ Packets[Last] = tail[2]
    BY <1>4, <1>10, <1>11
  <1> QED BY <1>5, <1>11, <1>12 DEF L

-----------------------------------------------------------------------------
(* The invariant. *)

(* The sender waits for the answer to a packet before it sends another, and *)
(* a packet whose sequence number could not be read is lost as a whole.     *)
StopAndWait == ~Impatient /\ Damage \subseteq {"type", "data", "check"}

(* The file fits in memory. *)
Fits == Length[Len(File)] <= Room

(* How many of the first k packets are data packets, and the state of       *)
(* k_data_char between packets k and k + 1.                                 *)
Carried(k) == IF k < 2 THEN 0 ELSE IF k - 2 > Len(File) THEN Len(File) ELSE k - 2
Clean(k) == [addr |-> Length[Carried(k)], escape |-> FALSE]

(* The receiver has taken packet k: its checkpoint is that of packet k. *)
Taken(k) ==
    /\ last_n = Seqno(k) /\ saved = Clean(k - 1) /\ data = Clean(k)
    /\ Holds(Carried(k))
    /\ his_quote = Quote
    /\ done = (k = Last)

(* It waits for packet k.  A copy may have arrived, and been taken back:    *)
(* then the checkpoint is the same.                                         *)
Awaited(k) ==
    /\ \/ last_n = Seqno(k) /\ saved = Clean(k - 1)
       \/ last_n = IF k = 1 THEN -1 ELSE Seqno(k - 1)
    /\ data = Clean(k - 1)
    /\ Holds(Carried(k - 1))
    /\ k > 1 => his_quote = Quote
    /\ done = FALSE

(* A copy of packet k as it arrives, and an answer to it. *)
Copy(p, k) ==
    /\ p \in KermitPacket
    /\ p.n = Seqno(k) /\ p.bad \in {"no", "late"}
    /\ p.bad = "no" => p.type = Packets[k][1] /\ p.payload = Packets[k][2]

AnswerTo(r, k) ==
    /\ r \in [type : {"Y", "N"}, n : 0..63]
    /\ r.n = Seqno(k)
    /\ r.type = "Y" => Taken(k)

(* What is on its way is one packet, or one answer, about packet cur. *)
Quiet == line = <<>> /\ reply = <<>>
OnLine ==
    \/ Quiet
    \/ InFlight > 0 /\ reply = <<>> /\ \E p : line = <<p>> /\ Copy(p, cur)
    \/ InFlight > 0 /\ line = <<>> /\ \E r : reply = <<r>> /\ AnswerTo(r, cur)

(* What has its type whatever the packet. *)
Typed ==
    /\ memory \in [Cells -> Cell]
    /\ saved \in [addr : Offset, escape : BOOLEAN]
    /\ n \in 0..63 /\ his_quote \in Char
    /\ line_faults \in 0..MaxLineFaults

KermitInv ==
    /\ Typed
    /\ \/ cur \in 1..Last /\ (Taken(cur) \/ Awaited(cur)) /\ OnLine
       \/ cur = Last + 1 /\ Taken(Last) /\ Quiet

-----------------------------------------------------------------------------
(* Packets and their numbers. *)

(* The numbers of neighbouring packets differ. *)
LEMMA NumbersDiffer ==
  ASSUME NEW k \in Nat \ {0}
  PROVE  Seqno(k) \in 0..63 /\ Seqno(k + 1) # Seqno(k) /\ (k > 1 => Seqno(k - 1) # Seqno(k))
  BY DEF Seqno

(* What the packets carry. *)
LEMMA PayloadType ==
  ASSUME NEW chunk \in Seq(Byte)
  PROVE  Payload(chunk) \in Seq(Char)
  <1>1. PICK w \in [0..Len(chunk) -> Seq(Char)] : Payload(chunk) = w[Len(chunk)]
    BY PayloadSteps
  <1>2. Len(chunk) \in 0..Len(chunk)
    OBVIOUS
  <1> QED BY <1>1, <1>2

(* The k-th packet: data packets carry the next chunk, others none. *)
LEMMA PacketKinds ==
  ASSUME NEW k \in 1..Last
  PROVE  /\ Carried(k) \in 0..Len(File) /\ Carried(k - 1) \in 0..Len(File)
         /\ Packets[k][1] \in Types /\ Packets[k][2] \in Seq(Char)
         /\ \/ /\ Packets[k][1] = "D" /\ Carried(k) = Carried(k - 1) + 1
               /\ Packets[k][2] = Payload(File[Carried(k)])
            \/ Packets[k][1] # "D" /\ Carried(k) = Carried(k - 1)
         /\ k = 1 => Packets[k][1] = "S" /\ Packets[k][2] = <<Quote>>
         /\ k > 1 => Packets[k][1] # "S"
         /\ Packets[k][1] = "B" <=> k = Last
  <1>1. Len(File) \in Nat /\ Quote \in Char /\ FileName \in Seq(Char) /\ File \in Seq(Seq(Byte))
    BY KermitAssumption
  <1>2. Carried(k) \in 0..Len(File) /\ Carried(k - 1) \in 0..Len(File)
    BY <1>1 DEF Carried, Last
  <1>3. CASE k = 1
    <2>1. Carried(k) = 0 /\ Carried(k - 1) = 0
      BY <1>1, <1>3 DEF Carried
    <2>2. Packets[k][1] = "S" /\ Packets[k][2] = <<Quote>>
      BY <1>3, PacketsAre
    <2> QED BY <1>1, <1>2, <1>3, <2>1, <2>2 DEF Last, Types
  <1>4. CASE k = 2
    <2>1. Carried(k) = 0 /\ Carried(k - 1) = 0
      BY <1>1, <1>4 DEF Carried
    <2>2. Packets[k][1] = "F" /\ Packets[k][2] = FileName
      BY <1>4, PacketsAre
    <2> QED BY <1>1, <1>2, <1>4, <2>1, <2>2 DEF Last, Types
  <1>5. CASE k \in 3..Len(File) + 2
    <2>1. k - 2 \in 1..Len(File) /\ (k - 2) + 2 = k
      BY <1>1, <1>5
    <2>2. Carried(k) = k - 2 /\ Carried(k - 1) + 1 = k - 2
      BY <1>1, <1>5 DEF Carried
    <2>3. Packets[k] = <<"D", Payload(File[k - 2])>>
      BY <2>1, PacketsAre
    <2>4. File[k - 2] \in Seq(Byte)
      BY <1>1, <2>1
    <2>5. Packets[k][1] = "D" /\ Packets[k][2] = Payload(File[k - 2])
      BY <2>3
    <2>6. Packets[k][2] \in Seq(Char)
      BY <2>4, <2>5, PayloadType
    <2>7. k # 1 /\ k # Last
      BY <1>1, <1>5 DEF Last
    <2> QED BY <1>2, <2>2, <2>5, <2>6, <2>7 DEF Types
  <1>6. CASE k = Len(File) + 3
    <2>1. Carried(k) = Len(File) /\ Carried(k - 1) = Len(File)
      BY <1>1, <1>6 DEF Carried
    <2>2. Packets[k][1] = "Z" /\ Packets[k][2] = <<>>
      BY <1>6, PacketsAre
    <2> QED BY <1>1, <1>2, <1>6, <2>1, <2>2 DEF Last, Types
  <1>7. CASE k = Last
    <2>1. Carried(k) = Len(File) /\ Carried(k - 1) = Len(File)
      BY <1>1, <1>7 DEF Carried, Last
    <2>2. Packets[k][1] = "B" /\ Packets[k][2] = <<>>
      BY <1>7, PacketsAre
    <2> QED BY <1>1, <1>2, <1>7, <2>1, <2>2 DEF Last, Types
  <1> QED BY <1>1, <1>3, <1>4, <1>5, <1>6, <1>7 DEF Last

(* What Transmit puts on an empty line is a copy of packet cur'. *)
LEMMA TransmitCopy ==
  ASSUME StopAndWait, NEW CONSTANT k \in 1..Last, cur' = k, line = <<>>,
         NEW CONSTANT cost, Transmit(cost)
  PROVE  line' = <<>> \/ \E p : line' = <<p>> /\ Copy(p, k)
  <1> DEFINE c == [n |-> Seqno(k), type |-> Packets[k][1], payload |-> Packets[k][2], bad |-> "no"]
             late == [c EXCEPT !.bad = "late"]
  <1>1. Current = c
    BY DEF Current
  <1>2. c.payload \in Seq(Char) /\ late.payload = c.payload
        /\ c \in KermitPacket /\ late \in KermitPacket
    <2>1. Seqno(k) \in 0..63
      BY NumbersDiffer, PacketsAre
    <2> QED BY <2>1, PacketKinds DEF KermitPacket
  <1>3. Copy(c, k)
    BY <1>2 DEF Copy
  <1>4. ASSUME NEW p \in Damaged(c)  PROVE Copy(p, k)
    <2>1. \/ p \in {late}
          \/ p \in {[late EXCEPT !.type = t] : t \in Types \ {c.type}}
          \/ p \in {[late EXCEPT !.payload = SubSeq(@, 1, i - 1)] : i \in DOMAIN c.payload}
          \/ p \in {[late EXCEPT !.payload[w[1]] = w[2]] : w \in (DOMAIN c.payload) \X Char}
      <3>1. "header" \notin Damage
        BY DEF StopAndWait
      <3> HIDE DEF c
      <3> QED BY <1>4, <3>1 DEF Damaged
    <2>2. CASE p \in {late}
      BY <1>2, <2>2 DEF Copy
    <2>3. CASE p \in {[late EXCEPT !.type = t] : t \in Types \ {c.type}}
      BY <1>2, <2>3 DEF Copy, KermitPacket
    <2>4. ASSUME NEW i \in DOMAIN c.payload, p = [late EXCEPT !.payload = SubSeq(@, 1, i - 1)]
          PROVE  Copy(p, k)
      <3>1. p.payload = SubSeq(c.payload, 1, i - 1) /\ p.n = Seqno(k) /\ p.bad = "late"
        BY <2>4
      <3>2. SubSeq(c.payload, 1, i - 1) \in Seq(Char)
        BY <1>2
      <3>3. p \in KermitPacket
        BY <1>2, <2>4, <3>2 DEF KermitPacket
      <3> QED BY <3>1, <3>3 DEF Copy
    <2>5. ASSUME NEW w \in (DOMAIN c.payload) \X Char, p = [late EXCEPT !.payload[w[1]] = w[2]]
          PROVE  Copy(p, k)
      <3>1. p.payload = [c.payload EXCEPT ![w[1]] = w[2]] /\ p.n = Seqno(k) /\ p.bad = "late"
        BY <2>5
      <3>2. w[1] \in DOMAIN c.payload /\ w[2] \in Char
        OBVIOUS
      <3>3. [c.payload EXCEPT ![w[1]] = w[2]] \in Seq(Char)
        <4> HIDE DEF c
        <4> QED BY <1>2, <3>2
      <3>4. p \in KermitPacket
        <4> HIDE DEF c
        <4> QED BY <1>2, <2>5, <3>3 DEF KermitPacket
      <3> QED BY <3>1, <3>4 DEF Copy
    <2> QED BY <2>1, <2>2, <2>3, <2>4, <2>5
  <1>5. \/ line' = line
        \/ line' = Append(line, c)
        \/ \E p \in Damaged(c) : line' = Append(line, p)
    BY <1>1 DEF Transmit
  <1>6. \A p : Append(<<>>, p) = <<p>>
    OBVIOUS
  <1> HIDE DEF c
  <1> QED BY <1>3, <1>4, <1>5, <1>6

-----------------------------------------------------------------------------
(* The steps. *)

(* What is in memory before the address the first j chunks end at, is kept. *)
LEMMA HoldsKept ==
  ASSUME Fits, NEW CONSTANT j \in 0..Len(File), Holds(j),
         \A a \in Cells : a < Length[j] => memory'[a] = memory[a]
  PROVE  Holds(j)'
  <1> SUFFICES ASSUME NEW i \in 1..j, NEW m \in DOMAIN File[i]
               PROVE  memory'[Length[i - 1] + m - 1] = File[i][m]
    BY DEF Holds
  <1>1. Len(File) \in Nat /\ Room \in Nat
    BY KermitAssumption
  <1>2. i \in 1..Len(File) /\ i - 1 \in 0..Len(File) /\ i \in 0..Len(File) /\ i <= j
        /\ Len(File) \in 0..Len(File) /\ j <= Len(File)
    BY <1>1
  <1>3. File[i] \in Seq(Byte) /\ Length[i] = Length[i - 1] + Len(File[i])
        /\ Length[i - 1] \in Nat /\ Length[j] \in Nat /\ Length[i] \in Nat
    BY <1>2, LengthSteps
  <1>4. Length[i] <= Length[j] /\ Length[j] <= Length[Len(File)] /\ Length[Len(File)] \in Nat
    BY <1>2, LengthGrows, LengthSteps
  <1>5. m \in 1..Len(File[i]) /\ Len(File[i]) \in Nat
    BY <1>3
  <1>6. Length[i - 1] + m - 1 \in Cells /\ Length[i - 1] + m - 1 < Length[j]
    <2>1. Length[Len(File)] <= Room
      BY DEF Fits
    <2>2. \A low, high, whole, top, size \in Nat :
             m \in 1..size /\ high <= whole /\ whole <= top /\ top <= Room /\ high = low + size =>
                low + m - 1 \in Nat /\ low + m - 1 < Room /\ low + m - 1 < whole
      BY <1>1
    <2>3. /\ Length[i - 1] + m - 1 \in Nat /\ Length[i - 1] + m - 1 < Room
          /\ Length[i - 1] + m - 1 < Length[j]
      BY <1>3, <1>4, <1>5, <2>1, <2>2
    <2> QED BY <1>1, <2>3 DEF Cells
  <1>7. memory[Length[i - 1] + m - 1] = File[i][m]
    BY DEF Holds
  <1> QED BY <1>6, <1>7

(* The checkpoint a copy of packet k is received from is what packet k - 1  *)
(* left behind, whether a copy has arrived already or not.                  *)
LEMMA CheckpointClean ==
  ASSUME NEW CONSTANT k \in 1..Last, NEW p, Copy(p, k), Taken(k) \/ Awaited(k)
  PROVE  Checkpoint(p) = Clean(k - 1) /\ Holds(Carried(k - 1))
  <1>1. Last \in Nat /\ k \in Nat \ {0}
    BY PacketsAre
  <1>2. p.n = Seqno(k) /\ Seqno(k) # -1 /\ (k > 1 => Seqno(k - 1) # Seqno(k))
    <2>1. Seqno(k) \in 0..63 /\ (k > 1 => Seqno(k - 1) # Seqno(k))
      BY <1>1, NumbersDiffer
    <2>2. p.n = Seqno(k)
      BY DEF Copy
    <2> QED BY <2>1, <2>2
  <1>3. CASE Taken(k)
    <2>1. Carried(k) \in Nat /\ Carried(k - 1) \in Nat /\ Carried(k - 1) <= Carried(k)
      <3>1. Carried(k) \in 0..Len(File) /\ Carried(k - 1) \in 0..Len(File)
        BY PacketKinds
      <3>2. Carried(k) = Carried(k - 1) + 1 \/ Carried(k) = Carried(k - 1)
        BY PacketKinds
      <3> QED BY <3>1, <3>2
    <2>2. Holds(Carried(k - 1))
      BY <1>3, <2>1 DEF Taken, Holds
    <2> QED BY <1>2, <1>3, <2>2 DEF Taken, Checkpoint
  <1>4. CASE Awaited(k)
    BY <1>1, <1>2, <1>4 DEF Awaited, Checkpoint
  <1> QED BY <1>3, <1>4

(* The place a packet ends at is in memory, or right behind it. *)
LEMMA CleanType ==
  ASSUME Fits, NEW k, Carried(k) \in 0..Len(File)
  PROVE  Clean(k) \in [addr : Offset, escape : BOOLEAN]
  <1>1. Len(File) \in Nat /\ Len(File) \in 0..Len(File) /\ Room \in Nat
    BY KermitAssumption
  <1>2. Length[Carried(k)] <= Length[Len(File)] /\ Length[Carried(k)] \in Nat
        /\ Length[Len(File)] \in Nat
    BY <1>1, LengthGrows, LengthSteps
  <1>3. Length[Carried(k)] \in Offset
    BY <1>1, <1>2 DEF Fits, Offset
  <1> QED BY <1>3 DEF Clean

(* The receiver takes a copy of packet k, or takes it back. *)
LEMMA TakePacket ==
  ASSUME Fits, NEW CONSTANT k \in 1..Last, NEW p, Copy(p, k), GoodHeader(p),
         ~done, Taken(k) \/ Awaited(k), Typed, line_faults' = line_faults
  PROVE  /\ Typed'
         /\ p.bad = "no" => Taken(k)'
         /\ p.bad # "no" => Awaited(k)'
  <1> DEFINE c == Carried(k - 1)
             from == Checkpoint(p)
             fed == [memory |-> memory, addr |-> from.addr, escape |-> from.escape]
             s == IF p.type = "D" THEN Feed(fed, p.payload) ELSE fed
  <1>1. /\ last_n' = p.n /\ saved' = from /\ memory' = s.memory /\ done' = Ends(p)
        /\ p.bad = "late" => data' = from /\ his_quote' = his_quote
        /\ p.bad # "late" =>
              /\ data' = [addr |-> s.addr, escape |-> s.escape]
              /\ his_quote' = IF p.type = "S" THEN Head(p.payload) ELSE his_quote
    BY DEF GoodHeader
  <1>2. from = Clean(k - 1) /\ Holds(c)
    BY CheckpointClean
  <1>3. c \in 0..Len(File) /\ Carried(k) \in 0..Len(File) /\ c \in Nat /\ Carried(k) \in Nat
        /\ Len(File) \in Nat /\ Room \in Nat
    BY PacketKinds, KermitAssumption
  <1>4. fed \in FeedState /\ fed.addr = Length[c] /\ fed.escape = FALSE /\ fed.memory = memory
    BY <1>2, <1>3, LengthSteps DEF Clean, FeedState, Typed
  <1>5. /\ p.n = Seqno(k) /\ p.n \in 0..63
        /\ p.payload \in Seq(Char) /\ p.bad \in {"no", "late"}
    BY DEF Copy, KermitPacket
  <1> HIDE DEF from, fed, c
  <1>6. Keeps(fed, s)
    <2>1. CASE p.type = "D"
      BY <1>4, <1>5, <2>1, FeedKeeps
    <2>2. CASE p.type # "D"
      BY <1>4, <2>2 DEF Keeps, FeedState
    <2> QED BY <2>1, <2>2
  <1>7. memory' \in [Cells -> Cell]
    BY <1>1, <1>6 DEF Keeps, FeedState
  <1>8. Holds(c)'
    <2>1. \A a \in Cells : a < Length[c] => memory'[a] = memory[a]
      <3> HIDE DEF s
      <3> QED BY <1>1, <1>4, <1>6 DEF Keeps
    <2> QED BY <1>2, <1>3, <2>1, HoldsKept DEF c
  <1>9. k > 1 => his_quote = Quote
    BY DEF Taken, Awaited
  <1>10. ASSUME p.bad # "no"  PROVE Awaited(k)'
    <2>1. data' = Clean(k - 1) /\ saved' = Clean(k - 1) /\ last_n' = Seqno(k)
          /\ his_quote' = his_quote /\ done' = FALSE
      BY <1>1, <1>2, <1>5, <1>10 DEF Ends
    <2> QED BY <1>8, <1>9, <2>1 DEF Awaited, c, Clean
  <1>11. ASSUME p.bad = "no"  PROVE Taken(k)'
    <2>1. p.type = Packets[k][1] /\ p.payload = Packets[k][2]
      BY <1>11 DEF Copy
    <2>2. done' = (k = Last)
      BY <1>1, <1>11, <2>1, PacketKinds DEF Ends
    <2>3. his_quote' = Quote
      <3>1. CASE k = 1
        <4>1. p.type = "S" /\ p.payload = <<Quote>>
          BY <2>1, <3>1, PacketKinds
        <4> QED BY <1>1, <1>11, <4>1
      <3>2. CASE k > 1
        <4>1. p.type # "S"
          BY <2>1, <3>2, PacketKinds
        <4> QED BY <1>1, <1>9, <1>11, <3>2, <4>1
      <3> QED BY <3>1, <3>2, PacketsAre
    <2>4. data' = [addr |-> s.addr, escape |-> s.escape]
      BY <1>1, <1>11
    <2>5. s.addr = Length[Carried(k)] /\ s.escape = FALSE /\ Holds(Carried(k))'
      <3>1. CASE Packets[k][1] = "D" /\ Carried(k) = c + 1
                 /\ Packets[k][2] = Payload(File[Carried(k)])
        <4> DEFINE b == Carried(k)
        <4>1. b \in 1..Len(File) /\ b - 1 = c
          BY <1>3, <3>1
        <4>2. File[b] \in Seq(Byte) /\ Length[b] = Length[c] + Len(File[b])
              /\ Length[b] \in Nat
          BY <1>3, <4>1, LengthSteps
        <4>3. Length[b] <= Length[Len(File)] /\ Length[Len(File)] \in Nat
          <5>1. b \in 0..Len(File) /\ Len(File) \in 0..Len(File) /\ b <= Len(File)
            BY <1>3, <4>1
          <5> QED BY <5>1, LengthGrows, LengthSteps
        <4>4. Length[c] + Len(File[b]) <= Room
          BY <1>3, <4>2, <4>3 DEF Fits
        <4>5. s = Feed(fed, Payload(File[b]))
          BY <2>1, <3>1
        <4>6. his_quote = Quote
          <5>1. k # 1
            BY <3>1, PacketKinds
          <5> QED BY <1>9, <5>1, PacketsAre
        <4> HIDE DEF b, s
        <4>7. /\ s.addr = fed.addr + Len(File[b]) /\ s.escape = FALSE
              /\ \A j \in 1..Len(File[b]) : s.memory[fed.addr + j - 1] = File[b][j]
          BY <1>4, <4>2, <4>4, <4>5, <4>6, ChunkStored
        <4>8. s.addr = Length[b]
          BY <1>4, <4>2, <4>7
        <4>9. ASSUME NEW i \in 1..b, NEW j \in DOMAIN File[i]
              PROVE  memory'[Length[i - 1] + j - 1] = File[i][j]
          <5>1. CASE i = b
            <6>1. j \in 1..Len(File[b]) /\ i - 1 = c
              BY <4>1, <4>2, <5>1
            <6> QED BY <1>1, <1>4, <4>7, <5>1, <6>1
          <5>2. CASE i # b
            <6>1. i \in 1..c
              BY <1>3, <4>1, <5>2
            <6> QED BY <1>8, <6>1 DEF Holds
          <5> QED BY <5>1, <5>2
        <4>10. Holds(b)'
          BY <4>9 DEF Holds, b
        <4> QED BY <4>7, <4>8, <4>10 DEF b
      <3>2. CASE Packets[k][1] # "D" /\ Carried(k) = c
        <4>1. s = fed
          BY <2>1, <3>2
        <4> QED BY <1>4, <1>8, <3>2, <4>1 DEF c
      <3> QED BY <3>1, <3>2, PacketKinds DEF c
    <2>6. data' = Clean(k) /\ saved' = Clean(k - 1) /\ last_n' = Seqno(k)
      BY <1>1, <1>2, <1>5, <2>4, <2>5 DEF Clean
    <2> QED BY <2>2, <2>3, <2>5, <2>6 DEF Taken, Clean
  <1>12. Typed'
    <2>1. saved' \in [addr : Offset, escape : BOOLEAN]
      BY <1>1, <1>2, <1>3, CleanType DEF c
    <2>2. n' \in 0..63
      BY <1>5 DEF GoodHeader
    <2>3. his_quote' \in Char
      <3>1. CASE p.bad = "no"
        BY <1>11, <3>1, KermitAssumption DEF Taken
      <3>2. CASE p.bad = "late"
        BY <1>1, <3>2 DEF Typed
      <3> QED BY <1>5, <3>1, <3>2
    <2> QED BY <1>7, <2>1, <2>2, <2>3 DEF Typed
  <1> QED BY <1>10, <1>11, <1>12

(* The receiver does nothing. *)
LEMMA ReceiverKept ==
  ASSUME UNCHANGED receiver, NEW CONSTANT k
  PROVE  /\ memory' = memory /\ Taken(k)' = Taken(k) /\ Awaited(k)' = Awaited(k)
         /\ \A r : AnswerTo(r, k)' = AnswerTo(r, k)
  BY DEF receiver, Taken, Awaited, AnswerTo, Holds, Clean

(* Nor do types change with it. *)
LEMMA TypedKept ==
  ASSUME UNCHANGED receiver, Typed, line_faults' \in 0..MaxLineFaults
  PROVE  Typed'
  BY DEF receiver, Typed

(* The answer to a copy of packet k. *)
LEMMA AnswerSent ==
  ASSUME NEW CONSTANT k \in 1..Last, NEW type \in {"Y", "N"}, reply = <<>>, Answer(type, Seqno(k)),
         type = "Y" => Taken(k)'
  PROVE  reply' = <<>> \/ \E r : reply' = <<r>> /\ AnswerTo(r, k)'
  <1> DEFINE r == [type |-> type, n |-> Seqno(k)]
  <1>1. reply' = <<>> \/ reply' = <<r>>
    BY DEF Answer
  <1>2. AnswerTo(r, k)'
    <2>1. k \in Nat \ {0}
      BY PacketsAre
    <2>2. Seqno(k) \in 0..63
      BY <2>1, NumbersDiffer
    <2> QED BY <2>2 DEF AnswerTo
  <1> QED BY <1>1, <1>2

(* The invariant, with a name for the packet the sender is at. *)
At(k) == cur = k /\ (Taken(k) \/ Awaited(k)) /\ OnLine
Over == cur = Last + 1 /\ Taken(Last) /\ Quiet

(* What the invariant says, case by case. *)
LEMMA InvCases ==
  ASSUME KermitInv
  PROVE  Typed /\ (Over \/ \E k \in 1..Last : At(k))
  BY DEF KermitInv, At, Over

(* The same, of the next state. *)
LEMMA InvOfCases ==
  ASSUME Typed', Over' \/ \E k \in 1..Last : At(k)'
  PROVE  KermitInv'
  BY DEF KermitInv, At, Over

(* A packet that is on its way is alone. *)
LEMMA HeadOfLine ==
  ASSUME NEW k, At(k), line # <<>>
  PROVE  /\ InFlight > 0 /\ reply = <<>> /\ Tail(line) = <<>>
         /\ line = <<Head(line)>> /\ Copy(Head(line), k)
  <1>1. PICK p : line = <<p>> /\ Copy(p, cur) /\ reply = <<>> /\ InFlight > 0
    BY DEF At, OnLine, Quiet
  <1>2. Head(line) = p /\ Tail(line) = <<>>
    BY <1>1
  <1> QED BY <1>1, <1>2 DEF At

(* An answer that is on its way is alone. *)
LEMMA HeadOfReply ==
  ASSUME NEW k, At(k), reply # <<>>
  PROVE  /\ line = <<>> /\ Tail(reply) = <<>>
         /\ AnswerTo(Head(reply), k)
  <1>1. PICK r : reply = <<r>> /\ AnswerTo(r, cur) /\ line = <<>>
    BY DEF At, OnLine, Quiet
  <1>2. Head(reply) = r /\ Tail(reply) = <<>>
    BY <1>1
  <1> QED BY <1>1, <1>2 DEF At

(* Initially the receiver waits for packet 1. *)
LEMMA InvInit == KermitInit => KermitInv
  <1> SUFFICES ASSUME KermitInit  PROVE KermitInv
    OBVIOUS
  <1>1. Last \in Nat /\ 1 \in 1..Last /\ Len(File) \in Nat
    BY KermitAssumption DEF Last
  <1>2. Carried(1 - 1) = 0
    BY <1>1 DEF Carried
  <1>3. Clean(1 - 1) = [addr |-> 0, escape |-> FALSE]
    BY <1>2, LengthSteps DEF Clean
  <1>4. Holds(Carried(1 - 1))
    BY <1>2 DEF Holds
  <1>5. Awaited(1)
    BY <1>3, <1>4 DEF Awaited, KermitInit
  <1>6. Typed
    <2>1. Room \in Nat /\ MaxLineFaults \in Nat /\ K_ESCAPE \in Char
      BY KermitAssumption
    <2> QED BY <2>1 DEF KermitInit, Typed, Cells, Cell, Offset
  <1> QED BY <1>1, <1>5, <1>6 DEF KermitInv, OnLine, Quiet, KermitInit

(* A turn of k_recv. *)
LEMMA InvRecv == ASSUME StopAndWait, Fits, KermitInv, KRecv PROVE KermitInv'
  <1>1. PICK k \in 1..Last : At(k)
    BY InvCases DEF KRecv, Over, Quiet
  <1> DEFINE p == Head(line)
  <1>2. Copy(p, k) /\ reply = <<>> /\ line' = <<>> /\ cur' = k /\ InFlight > 0
    BY <1>1, HeadOfLine DEF KRecv, At
  <1>3. GoodHeader(p) /\ p.n = Seqno(k) /\ p.bad \in {"no", "late"}
    BY <1>2 DEF KRecv, BadHeader, Copy
  <1> HIDE DEF p
  <1>4. /\ Typed'
        /\ p.bad = "no" => Taken(k)'
        /\ p.bad # "no" => Awaited(k)'
    <2>1. Typed /\ ~done /\ (Taken(k) \/ Awaited(k)) /\ line_faults' = line_faults
      BY <1>1, InvCases DEF KRecv, At
    <2> QED BY <1>2, <1>3, <2>1, TakePacket
  <1>5. reply' = <<>> \/ \E r : reply' = <<r>> /\ AnswerTo(r, k)'
    <2>1. CASE p.bad = "late"
      <3>1. Answer("N", Seqno(k))
        BY <1>3, <2>1 DEF GoodHeader
      <3> QED BY <1>2, <3>1, AnswerSent
    <2>2. CASE p.bad = "no"
      <3>1. Answer("Y", Seqno(k))
        BY <1>3, <2>2 DEF GoodHeader
      <3> QED BY <1>2, <1>4, <2>2, <3>1, AnswerSent
    <2> QED BY <1>3, <2>1, <2>2
  <1>6. OnLine'
    BY <1>2, <1>5 DEF OnLine, Quiet
  <1>7. At(k)'
    BY <1>2, <1>3, <1>4, <1>6 DEF At
  <1> QED BY <1>4, <1>7, InvOfCases

(* Characters discarded after the transfer. *)
LEMMA InvGather == ASSUME KermitInv, GatherTrailing PROVE KermitInv'
  <1>1. PICK k \in 1..Last : At(k)
    BY InvCases DEF GatherTrailing, Over, Quiet
  <1>2. line' = <<>> /\ reply' = <<>> /\ cur' = k
    BY <1>1, HeadOfLine DEF GatherTrailing, At
  <1>3. Taken(k)' \/ Awaited(k)'
    BY <1>1, ReceiverKept DEF GatherTrailing, At
  <1>4. At(k)'
    BY <1>2, <1>3 DEF At, OnLine, Quiet
  <1>5. Typed'
    BY InvCases, TypedKept DEF GatherTrailing, Typed
  <1> QED BY <1>4, <1>5, InvOfCases

(* A packet is sent, when nothing else is on its way. *)
LEMMA InvTransmit ==
  ASSUME StopAndWait, UNCHANGED receiver, Typed, InFlight > 0, line_faults' <= MaxLineFaults,
         NEW CONSTANT k \in 1..Last, cur' = k, Taken(k) \/ Awaited(k),
         line = <<>>, reply' = <<>>, NEW CONSTANT cost \in {0, 1}, Transmit(cost)
  PROVE  KermitInv'
  <1>1. line' = <<>> \/ \E p : line' = <<p>> /\ Copy(p, k)
    BY TransmitCopy
  <1>2. OnLine'
    BY <1>1 DEF OnLine, Quiet, Copy
  <1>3. Taken(k)' \/ Awaited(k)'
    BY ReceiverKept
  <1>4. At(k)'
    BY <1>2, <1>3 DEF At
  <1>5. line_faults' \in 0..MaxLineFaults
    <2>1. MaxLineFaults \in Nat
      BY KermitAssumption
    <2> QED BY <2>1 DEF Transmit, Typed
  <1>6. Typed'
    BY <1>5, TypedKept
  <1> QED BY <1>4, <1>6, InvOfCases

(* The sender has waited long enough. *)
LEMMA InvSend == ASSUME StopAndWait, KermitInv, Send PROVE KermitInv'
  <1>1. line = <<>> /\ reply = <<>> /\ reply' = <<>> /\ cur' = cur /\ UNCHANGED receiver
        /\ cur <= Last /\ InFlight > 0
    BY PacketsAre DEF Send, StopAndWait, Pending
  <1>2. PICK k \in 1..Last : At(k)
    BY <1>1, InvCases, PacketsAre DEF Over
  <1>3. Transmit(0) /\ line_faults' <= MaxLineFaults
    BY <1>1 DEF Send
  <1>4. cur' = k /\ (Taken(k) \/ Awaited(k)) /\ Typed
    BY <1>1, <1>2, InvCases DEF At
  <1> QED BY <1>1, <1>3, <1>4, InvTransmit

(* Packet cur is acknowledged: the receiver has taken it. *)
LEMMA InvHearAck == ASSUME StopAndWait, KermitInv, HearAck PROVE KermitInv'
  <1>1. reply # <<>> /\ cur' = cur + 1 /\ UNCHANGED receiver /\ Acknowledges(Head(reply))
    BY DEF HearAck
  <1>2. PICK k \in 1..Last : At(k)
    BY <1>1, InvCases DEF Over, Quiet
  <1>3. line = <<>> /\ reply' = <<>> /\ AnswerTo(Head(reply), k) /\ cur = k
    BY <1>1, <1>2, HeadOfReply DEF HearAck, At
  <1>4. Last \in Nat /\ k \in Nat \ {0} /\ Len(Packets) = Last
    BY PacketsAre
  <1>5. Taken(k)
    <2>1. Seqno(k + 1) # Seqno(k)
      BY <1>4, NumbersDiffer
    <2> QED BY <1>1, <1>3, <2>1 DEF Acknowledges, AnswerTo
  <1>6. Typed /\ line_faults' <= MaxLineFaults
    BY InvCases DEF HearAck
  <1>7. CASE k = Last
    <2>1. line' = <<>>
      BY <1>1, <1>3, <1>4, <1>7 DEF HearAck
    <2>2. Taken(Last)'
      BY <1>1, <1>5, <1>7, ReceiverKept
    <2>3. Over'
      BY <1>1, <1>3, <1>7, <2>1, <2>2 DEF Over, Quiet
    <2>4. UNCHANGED line_faults
      BY <1>1, <1>3, <1>4, <1>7 DEF HearAck
    <2>5. Typed'
      BY <1>1, <1>6, <2>4, TypedKept DEF Typed
    <2> QED BY <2>3, <2>5, InvOfCases
  <1>8. CASE k # Last
    <2>1. k + 1 \in 1..Last /\ (k + 1) - 1 = k /\ k + 1 > 1 /\ k + 1 # 1 /\ cur' = k + 1
      BY <1>1, <1>3, <1>4, <1>8
    <2>2. Awaited(k + 1)
      BY <1>5, <1>8, <2>1 DEF Taken, Awaited
    <2>3. CASE Transmit(0) /\ InFlight > 0
      BY <1>1, <1>3, <1>6, <2>1, <2>2, <2>3, InvTransmit
    <2>4. CASE line' = line /\ line_faults' = line_faults
      <3>1. Awaited(k + 1)'
        BY <1>1, <2>2, ReceiverKept
      <3>2. At(k + 1)'
        BY <1>3, <2>1, <2>4, <3>1 DEF At, OnLine, Quiet
      <3>3. Typed'
        BY <1>1, <1>6, <2>4, TypedKept DEF Typed
      <3> QED BY <2>1, <3>2, <3>3, InvOfCases
    <2> QED BY <1>3, <2>3, <2>4 DEF HearAck
  <1> QED BY <1>7, <1>8

(* Packet cur is asked for again. *)
LEMMA InvHearNack == ASSUME StopAndWait, KermitInv, HearNack PROVE KermitInv'
  <1>1. reply # <<>> /\ cur' = cur /\ UNCHANGED receiver /\ Transmit(0)
        /\ line_faults' <= MaxLineFaults /\ Len(line) < InFlight
    BY DEF HearNack, Pending
  <1>2. PICK k \in 1..Last : At(k)
    BY <1>1, InvCases DEF Over, Quiet
  <1>3. line = <<>> /\ reply' = <<>>
    BY <1>1, <1>2, HeadOfReply DEF HearNack
  <1>4. cur' = k /\ (Taken(k) \/ Awaited(k)) /\ Typed /\ InFlight > 0
    BY <1>1, <1>2, <1>3, InvCases DEF At
  <1> QED BY <1>1, <1>3, <1>4, InvTransmit

(* An answer is lost, or means nothing. *)
LEMMA InvIgnored == ASSUME KermitInv, AnswerIgnored PROVE KermitInv'
  <1>1. reply # <<>> /\ cur' = cur /\ UNCHANGED receiver /\ line' = line
    BY DEF AnswerIgnored
  <1>2. PICK k \in 1..Last : At(k)
    BY <1>1, InvCases DEF Over, Quiet
  <1>3. line = <<>> /\ reply' = <<>> /\ cur = k
    BY <1>1, <1>2, HeadOfReply DEF AnswerIgnored, At
  <1>4. Taken(k)' \/ Awaited(k)'
    BY <1>1, <1>2, ReceiverKept DEF At
  <1>5. At(k)'
    BY <1>1, <1>3, <1>4 DEF At, OnLine, Quiet
  <1>6. Typed'
    <2>1. line_faults' \in 0..MaxLineFaults
      BY InvCases, KermitAssumption DEF AnswerIgnored, Typed
    <2> QED BY <1>1, <2>1, InvCases, TypedKept
  <1> QED BY <1>5, <1>6, InvOfCases

(* A step of something else. *)
LEMMA InvStays == ASSUME KermitInv, UNCHANGED kermitVars PROVE KermitInv'
  <1>1. UNCHANGED receiver /\ line' = line /\ reply' = reply /\ cur' = cur
        /\ line_faults' = line_faults
    BY DEF kermitVars, receiver
  <1>4. Typed'
    BY <1>1, InvCases, TypedKept DEF Typed
  <1>2. CASE Over
    <2>1. Over'
      BY <1>1, <1>2, ReceiverKept DEF Over, Quiet
    <2> QED BY <1>4, <2>1, InvOfCases
  <1>3. ASSUME NEW k \in 1..Last, At(k)  PROVE KermitInv'
    <2>1. OnLine'
      <3>1. \A r : AnswerTo(r, k)' = AnswerTo(r, k)
        BY <1>1, ReceiverKept
      <3> QED BY <1>1, <1>3, <3>1 DEF OnLine, Quiet, Copy, At
    <2>2. Taken(k)' \/ Awaited(k)'
      BY <1>1, <1>3, ReceiverKept DEF At
    <2>3. At(k)'
      BY <1>1, <1>3, <2>1, <2>2 DEF At
    <2> QED BY <1>4, <2>3, InvOfCases
  <1> QED BY <1>2, <1>3, InvCases

(* The invariant is inductive. *)
LEMMA InvNext == ASSUME StopAndWait, Fits, KermitInv, [KermitNext]_kermitVars PROVE KermitInv'
  <1>1. CASE KRecv
    BY <1>1, InvRecv
  <1>2. CASE GatherTrailing
    BY <1>2, InvGather
  <1>3. CASE Send
    BY <1>3, InvSend
  <1>4. CASE HearAck
    BY <1>4, InvHearAck
  <1>5. CASE HearNack
    BY <1>5, InvHearNack
  <1>6. CASE AnswerIgnored
    BY <1>6, InvIgnored
  <1>7. CASE UNCHANGED kermitVars
    BY <1>7, InvStays
  <1> QED BY <1>1, <1>2, <1>3, <1>4, <1>5, <1>6, <1>7 DEF KermitNext

(* It is strong enough. *)
LEMMA InvIntact == KermitInv => TransferIntact
  <1> SUFFICES ASSUME KermitInv  PROVE TransferIntact
    OBVIOUS
  <1> DEFINE told == IF cur - 3 > Len(File) THEN Len(File) ELSE IF cur < 3 THEN 0 ELSE cur - 3
  <1>1. Last = Len(File) + 4 /\ Len(File) \in Nat /\ Carried(Last) = Len(File)
    BY KermitAssumption DEF Last, Carried
  <1>2. CASE Over
    <2>1. Holds(Len(File)) /\ told = Len(File)
      BY <1>1, <1>2 DEF Over, Taken
    <2> QED BY <2>1 DEF TransferIntact
  <1>3. ASSUME NEW k \in 1..Last, At(k)  PROVE TransferIntact
    <2>1. cur = k /\ told = Carried(k - 1)
      BY <1>1, <1>3 DEF At, Carried
    <2>2. CASE Awaited(k)
      <3>1. Holds(told) /\ ~done
        BY <2>1, <2>2 DEF Awaited
      <3> QED BY <3>1 DEF TransferIntact
    <2>3. CASE Taken(k)
      <3>1. /\ Carried(k) \in 0..Len(File) /\ Carried(k - 1) \in 0..Len(File)
            /\ Carried(k - 1) <= Carried(k)
        <4>1. Carried(k) \in 0..Len(File) /\ Carried(k - 1) \in 0..Len(File)
          BY PacketKinds
        <4>2. Carried(k) = Carried(k - 1) + 1 \/ Carried(k) = Carried(k - 1)
          BY PacketKinds
        <4> QED BY <4>1, <4>2
      <3>2. Holds(Carried(k)) /\ done = (k = Last)
        BY <2>3 DEF Taken
      <3>3. Holds(told)
        BY <2>1, <3>1, <3>2 DEF Holds
      <3>4. done => Holds(Len(File))
        BY <1>1, <3>2
      <3> QED BY <3>3, <3>4 DEF TransferIntact
    <2> QED BY <1>3, <2>2, <2>3 DEF At
  <1> QED BY <1>2, <1>3, InvCases

(* It includes the types. *)
LEMMA InvTypes == ASSUME Fits, KermitInv PROVE KermitTypeOK
  <1>1. Len(Packets) = Last /\ Last \in Nat /\ Len(File) \in Nat
    BY PacketsAre, KermitAssumption
  <1>2. Typed /\ (Over \/ \E k \in 1..Last : At(k))
    BY InvCases
  <1>3. Last \in 1..Last
    BY <1>1 DEF Last
  <1>4. PICK k \in 1..Last : (Over /\ k = Last) \/ At(k)
    BY <1>2, <1>3
  <1>5. Seqno(k) \in 0..63 /\ (k # 1 => Seqno(k - 1) \in 0..63)
    <2>1. k \in Nat \ {0} /\ (k # 1 => k - 1 \in Nat \ {0})
      BY <1>1
    <2>2. \A i \in Nat \ {0} : Seqno(i) \in 0..63
      BY NumbersDiffer
    <2> QED BY <2>1, <2>2
  <1>6. Clean(k) \in [addr : Offset, escape : BOOLEAN]
        /\ Clean(k - 1) \in [addr : Offset, escape : BOOLEAN]
    BY PacketKinds, CleanType
  <1>7. Taken(k) \/ Awaited(k)
    BY <1>4 DEF At, Over
  <1>8. data \in [addr : Offset, escape : BOOLEAN] /\ last_n \in -1..63 /\ done \in BOOLEAN
    <2>1. CASE Taken(k)
      BY <1>5, <1>6, <2>1 DEF Taken
    <2>2. CASE Awaited(k)
      <3>1. last_n \in -1..63
        BY <1>5, <2>2 DEF Awaited
      <3> QED BY <1>6, <2>2, <3>1 DEF Awaited
    <2> QED BY <1>7, <2>1, <2>2
  <1>9. cur \in 1..Len(Packets) + 1
    BY <1>1, <1>4 DEF At, Over
  <1>10. /\ line \in Seq(KermitPacket) /\ Len(line) <= InFlight
         /\ reply \in Seq([type : {"Y", "N"}, n : 0..63]) /\ Len(reply) <= InFlight
    <2>1. InFlight \in Nat
      BY KermitAssumption
    <2>2. CASE Quiet
      BY <2>1, <2>2 DEF Quiet
    <2>3. ASSUME InFlight > 0, reply = <<>>, NEW p, line = <<p>>, Copy(p, cur)
          PROVE  /\ line \in Seq(KermitPacket) /\ Len(line) <= InFlight
                 /\ reply \in Seq([type : {"Y", "N"}, n : 0..63]) /\ Len(reply) <= InFlight
      BY <2>1, <2>3 DEF Copy
    <2>4. ASSUME InFlight > 0, line = <<>>, NEW r, reply = <<r>>, AnswerTo(r, cur)
          PROVE  /\ line \in Seq(KermitPacket) /\ Len(line) <= InFlight
                 /\ reply \in Seq([type : {"Y", "N"}, n : 0..63]) /\ Len(reply) <= InFlight
      BY <2>1, <2>4 DEF AnswerTo
    <2> QED BY <1>4, <2>2, <2>3, <2>4 DEF At, Over, OnLine
  <1> QED BY <1>2, <1>8, <1>9, <1>10 DEF KermitTypeOK, Typed, Cells, Cell

-----------------------------------------------------------------------------
(* loadb, for every file that fits, every encoding a receiver undoes, and   *)
(* every number of packets and answers damaged or lost: what the sender was *)
(* told has arrived is in memory, and the file is when k_recv ends.         *)
THEOREM TransferHolds == ASSUME StopAndWait, Fits PROVE KermitSpec => []TransferIntact
  <1>1. KermitInit => KermitInv
    BY InvInit
  <1>2. KermitInv /\ [KermitNext]_kermitVars => KermitInv'
    BY InvNext
  <1>3. KermitInv => TransferIntact
    BY InvIntact
  <1> QED BY <1>1, <1>2, <1>3, PTL DEF KermitSpec

(* The state of loadb and of the line has its type: the cursor of the       *)
(* receiver does not leave the memory the file fits in, though a damaged    *)
(* packet may run over its end, nor do sequence numbers leave 0..63.        *)
THEOREM KermitTypes == ASSUME StopAndWait, Fits PROVE KermitSpec => []KermitTypeOK
  <1>1. KermitInit => KermitInv
    BY InvInit
  <1>2. KermitInv /\ [KermitNext]_kermitVars => KermitInv'
    BY InvNext
  <1>3. KermitInv => KermitTypeOK
    BY InvTypes
  <1> QED BY <1>1, <1>2, <1>3, PTL DEF KermitSpec
=============================================================================

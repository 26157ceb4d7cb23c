------------------------------ MODULE TftpLoad ------------------------------
(***************************************************************************)
(* tftpboot: NetLoop for the protocol TFTP (net/net.c), the ARP request    *)
(* that precedes the transfer (net/arp.c), and the TFTP client             *)
(* (net/tftp.c), over a network that loses, duplicates, delays and         *)
(* reorders packets.  The client is a state machine driven by packets and  *)
(* timer events: one packet handler and one timeout handler are installed  *)
(* at any time.                                                            *)
(*                                                                         *)
(* External: the network, and a host that answers ARP and serves one file. *)
(* It opens a session, with a port of its own, for every request it gets.  *)
(*                                                                         *)
(* Blocks are counted from 1; the number a packet carries is the count     *)
(* modulo 2^16, here BlockMod.  The contents of a block is its count.      *)
(***************************************************************************)
EXTENDS Integers, FiniteSets

CONSTANTS
    Blocks,         \* the file's blocks, the last one shorter than Full
    Full,           \* 512
    LastLen,        \* length of the last block
    BlockMod,       \* 2^16
    Word,           \* 2^32
    HeaderStep,     \* what "pkt += sizeof(*pkt)" adds to the cursor, in bytes
    TIMEOUT_COUNT,
    Ports,          \* the client's ports, 1024 + (get_timer(0) % 3072)
    Tids,           \* the ports of the server's sessions
    Stray,          \* TRUE: there are other IP packets for us on the network
    MaxFaults       \* losses, duplicates, errors, and timeouts of what still comes

ASSUME TftpAssumption ==
    /\ {Blocks, Full, BlockMod, Word, TIMEOUT_COUNT} \subseteq Nat \ {0}
    /\ LastLen \in 0..Full - 1
    /\ HeaderStep \in {1, 2}
    /\ Ports \subseteq Nat /\ Tids \subseteq Nat \ {69}
    /\ Stray \in BOOLEAN
    /\ MaxFaults \in Nat

WELL_KNOWN_PORT == 69

VARIABLES
    NetState,
    packetHandler,
    timeHandler,
    serverEther,        \* NetServerEther: that of the server, or broadcast
    TftpState,
    TftpServerPort,
    TftpOurPort,
    TftpTimeoutCount,
    TftpBlock,
    TftpLastBlock,
    mem,                \* blocks from load_addr on; 0 is the one below it
    XferSize,           \* NetBootFileXferSize
    result,             \* "running", then what NetLoop returned
    net,                \* the packets on their way
    session,            \* the server: [tid -> the client's port, current block]
    faults

loop == <<NetState, serverEther, result>>
tftp == <<TftpState, TftpServerPort, TftpOurPort, TftpTimeoutCount,
          TftpBlock, TftpLastBlock>>
loaded == <<mem, XferSize>>
client == <<NetState, packetHandler, timeHandler, serverEther, TftpState, TftpServerPort,
            TftpOurPort, TftpTimeoutCount, TftpBlock, TftpLastBlock, mem, XferSize, result>>
vars == <<NetState, packetHandler, timeHandler, serverEther, TftpState, TftpServerPort,
          TftpOurPort, TftpTimeoutCount, TftpBlock, TftpLastBlock, mem, XferSize, result,
          net, session, faults>>

Number(b) == b % BlockMod
LengthOf(b) == IF b = Blocks THEN LastLen ELSE Full

NoSession == [port |-> 0, block |-> 0]

Packet ==
    [type : {"arp_request", "arp_reply"}]
        \cup [type : {"RRQ"}, port : Ports]
        \cup [type : {"ACK"}, tid : Tids, number : 0..BlockMod - 1]
        \cup [type : {"DATA"}, tid : Tids, port : Ports, block : 1..Blocks]
        \cup [type : {"ERROR"}, tid : Tids, port : Ports]

TypeOK ==
    /\ NetState \in {"continue", "restart", "success"}
    /\ packetHandler \in {"arp", "tftp", "again"}
    /\ timeHandler \in {"none", "arp", "tftp", "again"}
    /\ serverEther \in {"broadcast", "server"}
    /\ TftpState \in {"RRQ", "DATA"}
    /\ TftpServerPort \in Tids \cup {WELL_KNOWN_PORT}
    /\ TftpOurPort \in Ports \cup {0}
    /\ TftpTimeoutCount \in 0..TIMEOUT_COUNT
    /\ TftpBlock \in 0..BlockMod - 1 /\ TftpLastBlock \in 0..BlockMod - 1
    /\ mem \in [0..Blocks -> 0..Blocks]
    /\ XferSize \in 0..Word - 1
    /\ result \in {"running", "failed", "loaded"}
    /\ net \subseteq Packet
    /\ session \in [Tids -> {NoSession} \cup [port : Ports, block : 1..Blocks + 1]]
    /\ faults \in 0..MaxFaults

-----------------------------------------------------------------------------
(* Operators on the network: sent is added, used is taken from it.  A packet *)
(* that is delivered may stay, to be delivered again, which is a fault.      *)

Takes(used, sent) ==
    \/ net' = (net \ used) \cup sent /\ UNCHANGED faults
    \/ /\ used # {} /\ faults < MaxFaults
       /\ net' = net \cup sent
       /\ faults' = faults + 1

Lose ==
    /\ faults < MaxFaults
    /\ \E p \in net : net' = net \ {p}
    /\ faults' = faults + 1
    /\ UNCHANGED <<client, session>>

-----------------------------------------------------------------------------
(* The client. *)

ArpPacket == {[type |-> "arp_request"]}

(* The packet TftpSend puts together: its header is built with a cursor     *)
(* that HeaderStep moves, and only 2 leaves the opcode as it was written.   *)
TftpPacket(state, number, to, port) ==
    IF HeaderStep # 2 THEN {}
    ELSE IF state = "RRQ" THEN {[type |-> "RRQ", port |-> port]}
    ELSE {[type |-> "ACK", tid |-> to, number |-> number]}

(* ArpRequest *)
InstallArp == packetHandler' = "arp" /\ timeHandler' = "arp"

NetStartAgain == packetHandler' = "again" /\ timeHandler' = "again"

(* NetLoop, up to the reception loop: net_check_prereq fails when serverip,  *)
(* ipaddr or ethaddr is not set.                                             *)
NetLoopInit ==
    /\ NetState = "continue"
    /\ packetHandler = "arp" /\ timeHandler = "arp"
    /\ XferSize = 0
    /\ result \in {"running", "failed"}
    /\ net = IF result = "running" THEN ArpPacket ELSE {}

Init ==
    /\ NetLoopInit
    /\ serverEther = "broadcast"
    /\ TftpState = "RRQ" /\ TftpServerPort = WELL_KNOWN_PORT /\ TftpOurPort = 0
    /\ TftpTimeoutCount = 0 /\ TftpBlock = 0 /\ TftpLastBlock = 0
    /\ mem = [i \in 0..Blocks |-> 0]
    /\ session = [t \in Tids |-> NoSession]
    /\ faults = 0

Restart ==
    /\ NetState = "restart"
    /\ NetState' = "continue"
    /\ InstallArp
    /\ XferSize' = 0
    /\ Takes({}, ArpPacket)
    /\ UNCHANGED <<serverEther, tftp, mem, result, session>>

(* TftpStart, on receipt of p if there is one. *)
TftpStart(p) ==
    /\ packetHandler' = "tftp" /\ timeHandler' = "tftp"
    /\ TftpState' = "RRQ" /\ TftpServerPort' = WELL_KNOWN_PORT
    /\ TftpTimeoutCount' = 0
    /\ TftpOurPort' \in Ports
    /\ Takes(p, TftpPacket("RRQ", 0, 0, TftpOurPort'))
    /\ UNCHANGED <<NetState, TftpBlock, TftpLastBlock, loaded>>

(* One packet is received, and one timeout served, per round of the loop,   *)
(* which ends with a look at NetState.                                      *)
Polling == result = "running" /\ NetState = "continue"

(* NetReceive of an ARP reply for us: the handler is called without a       *)
(* packet, which the TFTP handlers do not take for theirs.                  *)
ArpReply ==
    LET p == [type |-> "arp_reply"]
    IN  /\ Polling /\ p \in net
        /\ serverEther' = "server"
        /\ IF packetHandler = "arp"
             THEN TftpStart({p})
             ELSE /\ Takes({p}, {})
                  /\ UNCHANGED <<NetState, packetHandler, timeHandler, tftp, loaded>>
        /\ UNCHANGED <<result, session>>

(* Any other IP packet for us, to another port.  ArpHandler does not look.  *)
OtherPacket ==
    /\ Stray /\ Polling
    /\ packetHandler = "arp"
    /\ TftpStart({})
    /\ UNCHANGED <<serverEther, result, session>>

(* The checks at the start of TftpHandler; no other handler takes p for its own. *)
Accepted(p) ==
    /\ packetHandler = "tftp"
    /\ p.port = TftpOurPort
    /\ TftpState # "RRQ" => p.tid = TftpServerPort

Ignore(p) ==
    /\ Takes({p}, {})
    /\ UNCHANGED <<NetState, packetHandler, timeHandler, tftp, loaded>>

FirstBlock(number) == number = 1

(* store_block(number - 1, ...), in 32-bit arithmetic *)
StoreBlock(number, p) ==
    LET newsize == ((number - 1) * Full + LengthOf(p.block)) % Word
    IN  /\ mem' = IF LengthOf(p.block) = 0 THEN mem ELSE [mem EXCEPT ![number] = p.block]
        /\ XferSize' = IF XferSize < newsize THEN newsize ELSE XferSize

(* Mutation: a full block is the last. *)
EndsFileFull(p) == LengthOf(p.block) <= Full

EndsFile(p) == LengthOf(p.block) < Full

(* TftpHandler of a DATA packet in state DATA, or of the first one.  A block *)
(* that comes again is not acknowledged again; an older one is.              *)
TakeBlock(p, number, last) ==
    /\ TftpState' = "DATA" /\ TftpServerPort' = p.tid
    /\ TftpBlock' = number
    /\ IF number = last
         THEN /\ TftpLastBlock' = last
              /\ Takes({p}, {})
              /\ UNCHANGED <<NetState, timeHandler, loaded>>
         ELSE /\ TftpLastBlock' = number
              /\ timeHandler' = "tftp"
              /\ StoreBlock(number, p)
              /\ Takes({p}, TftpPacket("DATA", number, p.tid, TftpOurPort))
              /\ NetState' = IF EndsFile(p) THEN "success" ELSE NetState
    /\ UNCHANGED packetHandler

(* A first packet that is not block 1: "Starting again". *)
RefuseBlock(p, number) ==
    /\ TftpState' = "DATA" /\ TftpServerPort' = p.tid
    /\ TftpBlock' = number /\ TftpLastBlock' = 0
    /\ NetStartAgain
    /\ Takes({p}, {})
    /\ UNCHANGED <<NetState, loaded>>

ReceiveData ==
    \E p \in net :
        LET number == Number(p.block)
            first == TftpState = "RRQ"
        IN  /\ Polling /\ p.type = "DATA"
            /\ UNCHANGED <<serverEther, result, session>>
            /\ IF packetHandler = "arp" THEN TftpStart({p})
               ELSE IF ~Accepted(p) THEN Ignore(p)
               ELSE /\ IF first /\ ~FirstBlock(number)
                         THEN RefuseBlock(p, number)
                         ELSE TakeBlock(p, number, IF first THEN 0 ELSE TftpLastBlock)
                    /\ UNCHANGED <<TftpOurPort, TftpTimeoutCount>>

ReceiveError ==
    \E p \in net :
        /\ Polling /\ p.type = "ERROR"
        /\ UNCHANGED <<serverEther, result, session>>
        /\ IF packetHandler = "arp" THEN TftpStart({p})
           ELSE IF ~Accepted(p) THEN Ignore(p)
           ELSE /\ NetStartAgain
                /\ Takes({p}, {})
                /\ UNCHANGED <<NetState, tftp, loaded>>

(* The timeout handler, which NetLoop takes out before it calls it.  A       *)
(* timeout while an answer is on its way is a fault.                         *)
TimerFires ==
    /\ Polling
    /\ net # {} => faults < MaxFaults
    /\ faults' = IF net = {} THEN faults ELSE faults + 1
    /\ UNCHANGED <<serverEther, result, loaded, session, TftpState, TftpServerPort,
                   TftpOurPort, TftpBlock, TftpLastBlock>>

ArpTimeout ==
    /\ timeHandler = "arp"
    /\ TimerFires
    /\ InstallArp
    /\ net' = net \cup ArpPacket
    /\ UNCHANGED <<NetState, TftpTimeoutCount>>

RetriesExceeded == TftpTimeoutCount' >= TIMEOUT_COUNT

(* Mutation: the timer is not set again. *)
TftpTimeoutOnce ==
    /\ timeHandler = "tftp"
    /\ TimerFires
    /\ TftpTimeoutCount' = TftpTimeoutCount + 1
    /\ IF RetriesExceeded
         THEN NetStartAgain /\ UNCHANGED net
         ELSE /\ timeHandler' = "none"
              /\ net' = net \cup TftpPacket(TftpState, TftpBlock, TftpServerPort, TftpOurPort)
              /\ UNCHANGED packetHandler
    /\ UNCHANGED NetState

TftpTimeout ==
    /\ timeHandler = "tftp"
    /\ TimerFires
    /\ TftpTimeoutCount' = TftpTimeoutCount + 1
    /\ IF RetriesExceeded
         THEN NetStartAgain /\ UNCHANGED net
         ELSE /\ net' = net \cup TftpPacket(TftpState, TftpBlock, TftpServerPort, TftpOurPort)
              /\ UNCHANGED <<packetHandler, timeHandler>>
    /\ UNCHANGED NetState

StartAgainTimeout ==
    /\ timeHandler = "again"
    /\ TimerFires
    /\ timeHandler' = "none"
    /\ NetState' = "restart"
    /\ UNCHANGED <<packetHandler, TftpTimeoutCount, net>>

(* ^C, looked at before NetState is: also a finished transfer is aborted.   *)
CtrlC ==
    /\ result = "running" /\ NetState # "restart"
    /\ result' = "failed"
    /\ UNCHANGED <<NetState, packetHandler, timeHandler, serverEther, tftp, loaded, net,
                   session, faults>>

Return ==
    /\ result = "running" /\ NetState = "success"
    /\ result' = "loaded"
    /\ UNCHANGED <<NetState, packetHandler, timeHandler, serverEther, tftp, loaded, net,
                   session, faults>>

-----------------------------------------------------------------------------
(* The server. *)

DataPacket(t, b) ==
    IF b > Blocks THEN {}
    ELSE {[type |-> "DATA", tid |-> t, port |-> session'[t].port, block |-> b]}

ServeArp ==
    LET p == [type |-> "arp_request"]
    IN  /\ p \in net
        /\ Takes({p}, {[type |-> "arp_reply"]})
        /\ UNCHANGED <<client, session>>

(* A request opens a session, or is refused. *)
ServeRequest ==
    \E p \in net, t \in Tids :
        /\ p.type = "RRQ"
        /\ session[t] = NoSession
        /\ \/ /\ session' = [session EXCEPT ![t] = [port |-> p.port, block |-> 1]]
              /\ Takes({p}, DataPacket(t, 1))
           \/ /\ faults < MaxFaults /\ faults' = faults + 1
              /\ net' = (net \ {p}) \cup {[type |-> "ERROR", tid |-> t, port |-> p.port]}
              /\ UNCHANGED session
        /\ UNCHANGED client

(* It has no port left for a session. *)
ServerBusy ==
    \E p \in net :
        /\ p.type = "RRQ"
        /\ \A t \in Tids : session[t] # NoSession
        /\ Takes({p}, {})
        /\ UNCHANGED <<client, session>>

ServeAck ==
    \E p \in net :
        /\ p.type = "ACK"
        /\ IF session[p.tid].block \in 1..Blocks /\ Number(session[p.tid].block) = p.number
             THEN /\ session' = [session EXCEPT ![p.tid].block = @ + 1]
                  /\ Takes({p}, DataPacket(p.tid, session[p.tid].block + 1))
             ELSE /\ Takes({p}, {})
                  /\ UNCHANGED session
        /\ UNCHANGED client

(* The server's own timeout: it may send its block once more before it      *)
(* forgets the session.                                                     *)
Resend(t) ==
    /\ session[t].block \in 1..Blocks
    /\ net = {}
    /\ UNCHANGED <<client, session, faults>>
    /\ net' = DataPacket(t, session[t].block)

GiveUp(t) ==
    /\ session[t] # NoSession
    /\ net = {}
    /\ session' = [session EXCEPT ![t] = NoSession]
    /\ UNCHANGED <<client, net, faults>>

-----------------------------------------------------------------------------
Receive == ArpReply \/ ReceiveData \/ ReceiveError

Timeout == ArpTimeout \/ TftpTimeout \/ StartAgainTimeout

Serve == ServeArp \/ ServeRequest \/ ServerBusy \/ ServeAck

Next ==
    \/ Restart \/ Receive \/ OtherPacket \/ Timeout \/ CtrlC \/ Return
    \/ Serve \/ Lose
    \/ \E t \in Tids : Resend(t) \/ GiveUp(t)

(* The loop polls the network and the timer for ever; the server answers,    *)
(* and does not keep a session for ever.  Nobody has to press ^C.            *)
Spec ==
    /\ Init /\ [][Next]_vars
    /\ WF_vars(Restart) /\ WF_vars(Return)
    /\ SF_vars(Receive) /\ SF_vars(Timeout)
    /\ SF_vars(Serve)
    /\ \A t \in Tids : SF_vars(GiveUp(t))

-----------------------------------------------------------------------------
FileSize == (Blocks - 1) * Full + LastLen

Stored(b) == mem[b] = b \/ LengthOf(b) = 0

(* tftp.c:197: "We received the whole thing."  NetLoop returns success only  *)
(* when every block of the file is at its place, and the size it reports is  *)
(* that of the file, whatever the network did in this attempt and in those   *)
(* before it.                                                                *)
WholeThing ==
    NetState = "success" =>
        (\A b \in 1..Blocks : Stored(b)) /\ XferSize = FileSize

(* tftpboot ends.  Losses only cost time, ten timeouts start the transfer    *)
(* from its beginning, and no message is one both ends wait for.             *)
LoadEnds == <>(result # "running")
=============================================================================

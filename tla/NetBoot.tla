------------------------------- MODULE NetBoot -------------------------------
(***************************************************************************)
(* bootp and rarpboot: NetLoop for the protocols BOOTP and RARP (net.c,    *)
(* bootp.c, rarp.c), up to the ARP request and the transfer they start.    *)
(* The board learns its address, the server's and the name of the file     *)
(* from a reply, from any of several servers, over a network that loses,   *)
(* repeats and delays packets.                                             *)
(*                                                                         *)
(* The transfer itself is TftpLoad.  Here it succeeds, or starts again; it *)
(* can succeed only while NetServerEther leads to the server.              *)
(*                                                                         *)
(* External: hosts that answer BOOTP, RARP and ARP and serve files.  A     *)
(* host stands for its Ethernet address.                                   *)
(***************************************************************************)
EXTENDS Integers, Sequences, FiniteSets

CONSTANTS
    Addresses,      \* IP addresses; 0 is none
    Hosts,
    HostOf,         \* the host that has an address
    Routers,        \* hosts that forward to every other one
    Servers,        \* hosts that answer BOOTP and RARP
    Offer,          \* what each of them answers
    Files,          \* boot files
    Asked,          \* the file the user typed, or NoFile
    NoFile,
    Ids,            \* values of BootpID: the Ethernet address plus get_timer(0)
    RarpOrder,      \* TRUE: the header fields of a RARP request are swapped
    Stray,          \* TRUE: there are other IP packets for us on the network
    MaxFaults       \* losses, duplicates, time-outs of what still comes, failed transfers

VendorOption ==
    [code : {"mask", "gateway", "size"}, value : Nat]

ASSUME NetBootAssumption ==
    /\ Addresses \subseteq Nat \ {0}
    /\ HostOf \in [Addresses -> Hosts]
    /\ Routers \subseteq Hosts /\ Servers \subseteq Hosts
    /\ NoFile \notin Files
    /\ Asked \in Files \cup {NoFile}
    /\ {RarpOrder, Stray} \subseteq BOOLEAN
    /\ \A s \in Servers :
          /\ {Offer[s].yiaddr, Offer[s].siaddr, Offer[s].own} \subseteq Addresses
          /\ Offer[s].file \in Files \cup {NoFile}
          /\ Offer[s].options \in Seq(VendorOption)
    /\ MaxFaults \in Nat

NoAddress == 0
Address == Addresses \cup {NoAddress}

(* The file a host has for the board: by the name it was asked for, or by   *)
(* the default name, which is made of the board's address.                  *)
Default(ip) == <<"default", ip>>

VARIABLES
    proto,              \* what NetLoop was called with
    autoload,           \* FALSE: the variable autoload starts with n
    NetState,
    packetHandler,
    timeHandler,
    session,            \* the server and the file of the read request
    BootpID,
    NetOurIP,
    NetServerIP,
    NetServerEther,     \* a host, or "broadcast"
    ext,                \* what the vendor area left: mask, gateway, size
    BootFile,
    env,                \* the variables the command sets
    result,             \* "running", then how netboot_common ended
    loaded,             \* the host and the file of the transfer that succeeded
    net,
    faults

command == <<proto, autoload>>
handlers == <<packetHandler, timeHandler, session>>
addresses == <<NetOurIP, NetServerIP, NetServerEther>>
params == <<ext, BootFile, env>>
vars == <<proto, autoload, NetState, packetHandler, timeHandler, session, BootpID, NetOurIP,
          NetServerIP, NetServerEther, ext, BootFile, env, result, loaded, net, faults>>

Packet ==
    [type : {"bootp_request"}, id : Ids]
        \cup [type : {"bootp_reply"}, id : Ids, from : Servers]
        \cup [type : {"rarp_request"}]
        \cup [type : {"rarp_reply"}, from : Servers]
        \cup [type : {"arp_request"}, ip : Addresses, by : Addresses]
        \cup [type : {"arp_reply"}, from : Hosts, to : Addresses]

EnvVar == {"bootfile", "ipaddr", "serverip", "gatewayip"}

(* An address the environment has not.  The name of no file is NoFile.      *)
Unset == -1

TypeOK ==
    /\ proto \in {"BOOTP", "RARP"} /\ autoload \in BOOLEAN
    /\ NetState \in {"continue", "restart", "success"}
    /\ packetHandler \in {"bootp", "rarp", "arp", "tftp", "again"}
    /\ timeHandler \in {"none", "bootp", "rarp", "arp", "tftp", "again"}
    /\ BootpID \in Ids
    /\ NetOurIP \in Address /\ NetServerIP \in Address
    /\ NetServerEther \in Hosts \cup {"broadcast"}
    /\ ext \in [{"mask", "gateway", "size"} -> Nat]
    /\ BootFile \in Files \cup {NoFile}
    /\ DOMAIN env = EnvVar /\ env["bootfile"] \in Files \cup {NoFile}
    /\ \A v \in EnvVar \ {"bootfile"} : env[v] \in Address \cup {Unset}
    /\ result \in {"running", "failed", "loaded", "configured"}
    /\ net \subseteq Packet
    /\ faults \in 0..MaxFaults

-----------------------------------------------------------------------------
(* Operators on the network: used is taken from it, sent is added.  A packet *)
(* that is delivered may stay, to be delivered again, which is a fault.      *)
Takes(used, sent) ==
    \/ net' = (net \ used) \cup sent /\ UNCHANGED faults
    \/ /\ used # {} /\ faults < MaxFaults
       /\ net' = net \cup sent
       /\ faults' = faults + 1

Lose ==
    /\ faults < MaxFaults
    /\ \E p \in net : net' = net \ {p}
    /\ faults' = faults + 1
    /\ UNCHANGED <<command, NetState, handlers, BootpID, addresses, params, result, loaded>>

-----------------------------------------------------------------------------
(* Requests. *)

Install(h) == packetHandler' = h /\ timeHandler' = h /\ UNCHANGED session

(* BootpRequest: a new ID for every attempt.  Time, and so the ID, need not *)
(* grow: on some boards udelay sets the timer back.                         *)
BootpRequest(id) ==
    /\ BootpID' = id
    /\ Install("bootp")

BootpPacket(id) == {[type |-> "bootp_request", id |-> id]}

(* RarpRequest: a host takes the packet for a request only if its fields    *)
(* have network byte order.                                                 *)
RarpPacket == IF RarpOrder THEN {[type |-> "rarp_request"]} ELSE {}

(* ArpRequest: the gateway's Ethernet address is asked for, if there is one. *)
ArpPacket(gateway, server) ==
    LET asked == IF gateway # NoAddress THEN gateway ELSE server
    IN  IF asked = NoAddress THEN {}
        ELSE {[type |-> "arp_request", ip |-> asked, by |-> NetOurIP']}

FileName(ip) == IF BootFile = NoFile THEN Default(ip) ELSE <<"named", BootFile>>

(* TftpStart: the name of the file is made once. *)
TftpStart ==
    /\ packetHandler' = "tftp" /\ timeHandler' = "tftp"
    /\ session' = <<NetServerIP', FileName(NetOurIP')>>

NetStartAgain == Install("again")

(* NetLoop from restart to the reception loop: addresses are forgotten, the *)
(* rest is not.                                                             *)
Begin(protocol, id) ==
    /\ NetState' = "continue"
    /\ NetOurIP' = NoAddress /\ NetServerIP' = NoAddress
    /\ IF protocol = "BOOTP"
         THEN BootpRequest(id) /\ net' = net \cup BootpPacket(id)
         ELSE Install("rarp") /\ net' = net \cup RarpPacket /\ UNCHANGED BootpID

Init ==
    /\ proto \in {"BOOTP", "RARP"} /\ autoload \in BOOLEAN
    /\ NetState = "continue"
    /\ packetHandler = IF proto = "BOOTP" THEN "bootp" ELSE "rarp"
    /\ timeHandler = packetHandler
    /\ session = <<>>
    /\ BootpID \in Ids
    /\ NetOurIP = NoAddress /\ NetServerIP = NoAddress
    /\ NetServerEther = "broadcast"
    /\ ext = [mask |-> 0, gateway |-> NoAddress, size |-> 0]
    /\ BootFile = Asked
    /\ \E before \in Addresses \cup {Unset} :
          env = [v \in EnvVar |-> IF v = "bootfile" THEN NoFile ELSE before]
    /\ result = "running" /\ loaded = <<>>
    /\ net = IF proto = "BOOTP" THEN BootpPacket(BootpID) ELSE RarpPacket
    /\ faults = 0

Restart ==
    /\ NetState = "restart"
    /\ \E id \in Ids : Begin(proto, id)
    /\ UNCHANGED <<command, NetServerEther, params, result, loaded, faults>>

-----------------------------------------------------------------------------
(* Packets. *)

Polling == result = "running" /\ NetState = "continue"

(* BootpVendorFieldProcess: addresses are taken once; the size is cleared    *)
(* before every field.                                                       *)
VendorField(e, o) ==
    [e EXCEPT !.size = IF o.code = "size" THEN o.value ELSE 0,
              !.mask = IF o.code = "mask" /\ @ = 0 THEN o.value ELSE @,
              !.gateway = IF o.code = "gateway" /\ @ = 0 THEN o.value ELSE @]

(* BootpVendorProcess *)
VendorProcess(e, options) ==
    LET after[n \in 0..Len(options)] ==
            IF n = 0 THEN e ELSE VendorField(after[n - 1], options[n])
    IN  after[Len(options)]

(* BootpCheckPkt *)
ForUs(p) == p.id = BootpID

(* Mutation: the name the user typed is kept. *)
CopyNetParamsFileKept(p) ==
    /\ NetOurIP' = Offer[p.from].yiaddr /\ NetServerIP' = Offer[p.from].siaddr
    /\ NetServerEther' = p.from
    /\ BootFile' = IF BootFile # NoFile THEN BootFile ELSE Offer[p.from].file
    /\ env' = [env EXCEPT !["bootfile"] = BootFile']

(* BootpCopyNetParams *)
BootpCopyNetParams(p) ==
    /\ NetOurIP' = Offer[p.from].yiaddr /\ NetServerIP' = Offer[p.from].siaddr
    /\ NetServerEther' = p.from
    /\ BootFile' = Offer[p.from].file
    /\ env' = [env EXCEPT !["bootfile"] = Offer[p.from].file]

(* BootpHandler of a reply to the last request. *)
BootpHandler(p) ==
    /\ BootpCopyNetParams(p)
    /\ ext' = VendorProcess(ext, Offer[p.from].options)
    /\ IF autoload
         THEN /\ Install("arp")
              /\ Takes({p}, ArpPacket(ext'.gateway, NetServerIP'))
              /\ UNCHANGED NetState
         ELSE /\ timeHandler' = "none"
              /\ Takes({p}, {})
              /\ NetState' = "success"
              /\ UNCHANGED <<packetHandler, session>>

(* What a packet no handler wants to see does: the ARP handler starts the   *)
(* transfer without a look at it.                                           *)
Uninterested(p) ==
    /\ IF packetHandler = "arp" THEN TftpStart ELSE UNCHANGED handlers
    /\ Takes(p, {})
    /\ UNCHANGED NetState

(* NetReceive of a reply, which servers broadcast, also a late one to an     *)
(* earlier request and one of a second server.                               *)
BootpReply ==
    \E p \in net :
        /\ Polling /\ p.type = "bootp_reply"
        /\ IF packetHandler = "bootp" /\ ForUs(p)
             THEN BootpHandler(p)
             ELSE UNCHANGED <<addresses, params>> /\ Uninterested({p})
        /\ UNCHANGED <<command, BootpID, result, loaded>>

(* NetReceive of a RARP reply: the addresses are taken in every state, then  *)
(* the handler is called, and RARP's starts the transfer, without ARP.       *)
RarpReply ==
    \E p \in net :
        /\ Polling /\ p.type = "rarp_reply"
        /\ NetOurIP' = Offer[p.from].yiaddr
        /\ NetServerIP' = Offer[p.from].own
        /\ NetServerEther' = p.from
        /\ IF packetHandler = "rarp"
             THEN TftpStart /\ Takes({p}, {}) /\ UNCHANGED NetState
             ELSE Uninterested({p})
        /\ UNCHANGED <<command, BootpID, params, result, loaded>>

(* NetReceive of an ARP reply: dropped unless it is for the address we have, *)
(* taken in any state, also after the transfer has begun.                    *)
ArpReply ==
    \E p \in net :
        /\ Polling /\ p.type = "arp_reply"
        /\ IF p.to # NetOurIP
             THEN Takes({p}, {}) /\ UNCHANGED <<NetState, handlers, addresses>>
             ELSE /\ NetServerEther' = p.from
                  /\ UNCHANGED <<NetOurIP, NetServerIP>>
                  /\ Uninterested({p})
        /\ UNCHANGED <<command, BootpID, params, result, loaded>>

(* Any other IP packet for us. *)
OtherPacket ==
    /\ Stray /\ Polling /\ packetHandler = "arp"
    /\ UNCHANGED <<command, BootpID, addresses, params, result, loaded>>
    /\ Uninterested({})

-----------------------------------------------------------------------------
(* Time-outs.  One that strikes while an answer is on its way is a fault.   *)

TimerFires ==
    /\ Polling
    /\ net # {} => faults < MaxFaults
    /\ faults' = IF net = {} THEN faults ELSE faults + 1
    /\ UNCHANGED <<command, addresses, params, result, loaded>>

(* Mutation: BootpRequest does not set its timeout again. *)
BootpTimeoutOnce ==
    /\ timeHandler = "bootp" /\ TimerFires
    /\ \E id \in Ids :
          /\ BootpID' = id
          /\ packetHandler' = "bootp" /\ timeHandler' = "none" /\ UNCHANGED session
          /\ net' = net \cup BootpPacket(id)
    /\ UNCHANGED NetState

BootpTimeout ==
    /\ timeHandler = "bootp" /\ TimerFires
    /\ \E id \in Ids : BootpRequest(id) /\ net' = net \cup BootpPacket(id)
    /\ UNCHANGED NetState

RarpTimeout ==
    /\ timeHandler = "rarp" /\ TimerFires
    /\ Install("rarp")
    /\ net' = net \cup RarpPacket
    /\ UNCHANGED <<NetState, BootpID>>

ArpTimeout ==
    /\ timeHandler = "arp" /\ TimerFires
    /\ Install("arp")
    /\ net' = net \cup ArpPacket(ext.gateway, NetServerIP)
    /\ UNCHANGED <<NetState, BootpID>>

StartAgainTimeout ==
    /\ timeHandler = "again" /\ TimerFires
    /\ timeHandler' = "none"
    /\ NetState' = "restart"
    /\ UNCHANGED <<packetHandler, session, BootpID, net>>

-----------------------------------------------------------------------------
(* The transfer, as TftpLoad has it: the whole file or a new start. *)

(* What is sent to NetServerEther gets to the server. *)
Reachable ==
    /\ NetServerIP # NoAddress
    /\ NetServerEther \in {HostOf[NetServerIP]} \cup Routers

Transferring == Polling /\ packetHandler = "tftp"

(* A server that answered before the address changed may have sent the whole *)
(* file by then.                                                             *)
TransferDone ==
    /\ Transferring /\ Reachable
    /\ NetState' = "success"
    /\ \E server \in {session[1], NetServerIP} :
          loaded' = <<HostOf[server], session[2]>>
    /\ UNCHANGED <<command, handlers, BootpID, addresses, params, result, net, faults>>

(* The retries are exceeded, or the server reports an error.  It takes many *)
(* seconds: with answers still on their way it is a fault.                   *)
TransferFails ==
    /\ Transferring
    /\ LET fault == Reachable \/ net # {}
       IN  /\ fault => faults < MaxFaults
           /\ faults' = IF fault THEN faults + 1 ELSE faults
    /\ NetStartAgain
    /\ UNCHANGED <<command, NetState, BootpID, addresses, params, result, loaded, net>>

-----------------------------------------------------------------------------
(* The end. *)

CtrlC ==
    /\ result = "running" /\ NetState # "restart"
    /\ result' = "failed"
    /\ UNCHANGED <<command, NetState, handlers, BootpID, addresses, params, loaded, net, faults>>

(* Mutation: the addresses of before the command stay in the environment. *)
NetbootUpdateEnvIfUnset ==
    env' = [env EXCEPT
              !["gatewayip"] = IF ext.gateway # NoAddress THEN ext.gateway ELSE @,
              !["ipaddr"] = IF @ = Unset THEN NetOurIP ELSE @,
              !["serverip"] = IF @ = Unset THEN NetServerIP ELSE @]

(* netboot_update_env *)
NetbootUpdateEnv ==
    env' = [env EXCEPT
              !["gatewayip"] = IF ext.gateway # NoAddress THEN ext.gateway ELSE @,
              !["ipaddr"] = IF NetOurIP # NoAddress THEN NetOurIP ELSE @,
              !["serverip"] = IF NetServerIP # NoAddress THEN NetServerIP ELSE @]

Return ==
    /\ result = "running" /\ NetState = "success"
    /\ result' = IF loaded = <<>> THEN "configured" ELSE "loaded"
    /\ NetbootUpdateEnv
    /\ UNCHANGED <<command, NetState, handlers, BootpID, addresses, ext, BootFile, loaded, net,
                   faults>>

-----------------------------------------------------------------------------
(* The hosts. *)

client == <<command, NetState, handlers, BootpID, addresses, params, result, loaded>>

ServeBootp ==
    \E p \in net, s \in Servers :
        /\ p.type = "bootp_request"
        /\ \/ Takes({p}, {[type |-> "bootp_reply", id |-> p.id, from |-> s]})
           \/ Takes({p}, {[type |-> "bootp_reply", id |-> p.id, from |-> t] : t \in Servers})
        /\ UNCHANGED client

ServeRarp ==
    \E p \in net, s \in Servers :
        /\ p.type = "rarp_request"
        /\ Takes({p}, {[type |-> "rarp_reply", from |-> s]})
        /\ UNCHANGED client

ServeArp ==
    \E p \in net :
        /\ p.type = "arp_request"
        /\ Takes({p}, {[type |-> "arp_reply", from |-> HostOf[p.ip], to |-> p.by]})
        /\ UNCHANGED client

-----------------------------------------------------------------------------
Receive == BootpReply \/ RarpReply \/ ArpReply

Timeout == BootpTimeout \/ RarpTimeout \/ ArpTimeout \/ StartAgainTimeout

Serve == ServeBootp \/ ServeRarp \/ ServeArp

Next ==
    \/ Restart \/ Receive \/ OtherPacket \/ Timeout \/ TransferDone \/ TransferFails
    \/ CtrlC \/ Return \/ Serve \/ Lose

(* The loop polls the network and the timer for ever, the servers answer.    *)
(* A transfer that can be made is made in the end, and one that cannot runs  *)
(* out of retries.                                                           *)
Spec ==
    /\ Init /\ [][Next]_vars
    /\ WF_vars(Restart) /\ WF_vars(Return)
    /\ SF_vars(Receive) /\ SF_vars(Timeout) /\ SF_vars(Serve)
    /\ SF_vars(TransferDone) /\ WF_vars(TransferFails)

-----------------------------------------------------------------------------
Configured == packetHandler \in {"arp", "tftp"} \/ NetState = "success"

(* The board's address, the server's and the file come from one reply, never *)
(* from a mixture of two, although replies of several servers, to several    *)
(* requests, arrive in any order and a transfer may start again with another *)
(* server (BootpCopyNetParams, NetLoop's restart).                           *)
OneReply ==
    Configured /\ proto = "BOOTP" =>
        \E s \in Servers :
            /\ NetOurIP = Offer[s].yiaddr /\ NetServerIP = Offer[s].siaddr
            /\ BootFile = Offer[s].file

(* After bootp the environment tells where the file came from and which one  *)
(* it is: serverip is an address of the host that sent it, bootfile its name *)
(* and ipaddr the address its default name is made of, although the address, *)
(* the file name and the transfer belong to three packets, and a late ARP    *)
(* reply or a second server's answer may come between (netboot_update_env,   *)
(* BootpCopyNetParams).  rarpboot does not promise this: NetReceive takes a  *)
(* second server's RARP reply in the middle of a transfer.                   *)
EnvTellsSource ==
    result = "loaded" /\ proto = "BOOTP" =>
        loaded = <<HostOf[env["serverip"]],
                   IF env["bootfile"] = NoFile THEN Default(env["ipaddr"])
                   ELSE <<"named", env["bootfile"]>> >>

(* bootp and rarpboot end: the file is loaded (or, with autoload=n, the board *)
(* configured) whatever is lost: an answer that comes too late, a gateway of  *)
(* an earlier answer and an Ethernet address that leads nowhere are all       *)
(* overcome by the next attempt (the time-outs of bootp.c, rarp.c and arp.c). *)
BootEnds == <>(result # "running")
=============================================================================

---------------------------- MODULE NetBootProofs ----------------------------
(***************************************************************************)
(* Proofs about NetBoot, for any hosts, offers, files and faults: after    *)
(* bootp the configuration is that of one reply, and the environment tells *)
(* where the file came from.                                               *)
(*                                                                         *)
(* Neither is inductive.  A RARP reply is taken in every state, so it      *)
(* matters that nobody is asked for one; and that the environment is right *)
(* at the end depends on what the session, the file name and the addresses *)
(* were when the transfer began.                                           *)
(***************************************************************************)
EXTENDS NetBoot, TLAPS

(* What the network holds: replies of servers, and nothing about RARP when  *)
(* the command is bootp.                                                    *)
RepliesOK ==
    \A p \in net :
        /\ p.type \in {"bootp_reply", "rarp_reply"} => p.from \in Servers
        /\ proto = "BOOTP" => p.type \notin {"rarp_request", "rarp_reply"}

(* The addresses and the file are those of server s. *)
TakenFrom(s) ==
    /\ NetOurIP = Offer[s].yiaddr /\ NetServerIP = Offer[s].siaddr
    /\ BootFile = Offer[s].file

(* The handlers of packets and of time-outs belong together.                *)
(* From the reply on, also while a failed transfer waits to start again.    *)
OneSource ==
    proto = "BOOTP" =>
        /\ packetHandler # "rarp" /\ timeHandler \in {packetHandler, "none"}
        /\ packetHandler # "bootp" \/ NetState = "success" =>
              /\ \E s \in Servers : TakenFrom(s)
              /\ env["bootfile"] = BootFile

(* The read request names the server and the file the board still has.      *)
SessionCurrent ==
    proto = "BOOTP" /\ packetHandler = "tftp" =>
        session = <<NetServerIP, FileName(NetOurIP)>>

LoadedFromSource ==
    /\ loaded # <<>> => NetState = "success"
    /\ proto = "BOOTP" /\ loaded # <<>> =>
          loaded = <<HostOf[NetServerIP], FileName(NetOurIP)>>

IInv ==
    /\ proto \in {"BOOTP", "RARP"} /\ DOMAIN env = EnvVar
    /\ RepliesOK /\ OneSource /\ SessionCurrent /\ LoadedFromSource
    /\ EnvTellsSource

-----------------------------------------------------------------------------
(* Before the first packet nothing is configured. *)
LEMMA InitInv == Init => IInv
  <1> SUFFICES ASSUME Init PROVE IInv
    OBVIOUS
  <1> USE DEF Init
  <1>1. proto \in {"BOOTP", "RARP"} /\ DOMAIN env = EnvVar
    OBVIOUS
  <1>2. RepliesOK
    BY DEF RepliesOK, BootpPacket, RarpPacket
  <1>3. OneSource /\ SessionCurrent /\ LoadedFromSource /\ EnvTellsSource
    BY DEF OneSource, SessionCurrent, LoadedFromSource, EnvTellsSource
  <1> QED BY <1>1, <1>2, <1>3 DEF IInv

(* Taking packets keeps what the network holds, if what is sent does.       *)
LEMMA TakesReplies ==
    ASSUME NEW used, NEW sent, RepliesOK, Takes(used, sent), proto' = proto,
           \A p \in sent :
              /\ p.type \in {"bootp_reply", "rarp_reply"} => p.from \in Servers
              /\ proto = "BOOTP" => p.type \notin {"rarp_request", "rarp_reply"}
    PROVE  RepliesOK'
  <1>1. net' \subseteq net \cup sent
    BY DEF Takes
  <1> QED BY <1>1 DEF RepliesOK

(* A step that leaves the client alone only has to keep the network.        *)
LEMMA ClientUnchanged ==
    ASSUME IInv, UNCHANGED client, RepliesOK' PROVE IInv'
  BY DEF IInv, client, command, handlers, addresses, params, OneSource, TakenFrom,
         SessionCurrent, LoadedFromSource, EnvTellsSource, FileName

(* A packet nobody wants may start the transfer; the addresses and the file *)
(* are those it finds.                                                      *)
LEMMA UninterestedInv ==
    ASSUME IInv, Polling, NEW p, Uninterested(p),
           UNCHANGED <<command, params, result, loaded, NetOurIP, NetServerIP>>
    PROVE  IInv'
  <1> USE DEF IInv, command, params
  <1>1. RepliesOK'
    BY TakesReplies DEF Uninterested
  <1>2. NetState = "continue" /\ NetState' = NetState
    BY DEF Polling, Uninterested
  <1>3. loaded = <<>> /\ loaded' = <<>> /\ result' = "running"
    BY <1>2 DEF LoadedFromSource, Polling
  <1>4. LoadedFromSource' /\ EnvTellsSource'
    BY <1>3 DEF LoadedFromSource, EnvTellsSource
  <1>5. CASE packetHandler = "arp" /\ TftpStart
    <2>1. OneSource'
      BY <1>2, <1>5 DEF OneSource, TftpStart, TakenFrom
    <2>2. SessionCurrent'
      BY <1>5 DEF SessionCurrent, TftpStart, FileName
    <2> QED BY <1>1, <1>4, <2>1, <2>2
  <1>6. CASE UNCHANGED handlers
    <2>1. OneSource'
      BY <1>2, <1>6 DEF OneSource, handlers, TakenFrom
    <2>2. SessionCurrent'
      BY <1>6 DEF SessionCurrent, handlers, FileName
    <2> QED BY <1>1, <1>4, <2>1, <2>2
  <1> QED BY <1>5, <1>6 DEF Uninterested

(* A BOOTP reply to the last request configures the board as a whole.       *)
LEMMA BootpReplyInv == ASSUME IInv, BootpReply PROVE IInv'
  <1> PICK p \in net :
        /\ Polling /\ p.type = "bootp_reply"
        /\ IF packetHandler = "bootp" /\ ForUs(p)
             THEN BootpHandler(p)
             ELSE UNCHANGED <<addresses, params>> /\ Uninterested({p})
        /\ UNCHANGED <<command, BootpID, result, loaded>>
    BY DEF BootpReply
  <1>1. CASE packetHandler = "bootp" /\ BootpHandler(p)
    <2> USE DEF BootpHandler, IInv, command
    <2>1. p.from \in Servers
      BY DEF RepliesOK
    <2>2. RepliesOK'
      <3>1. CASE autoload
        <4>1. Takes({p}, ArpPacket(ext'.gateway, NetServerIP'))
          BY <1>1, <3>1
        <4>2. \A q \in ArpPacket(ext'.gateway, NetServerIP') : q.type = "arp_request"
          BY DEF ArpPacket
        <4> QED BY <4>1, <4>2, TakesReplies
      <3>2. CASE ~autoload
        BY <1>1, <3>2, TakesReplies
      <3> QED BY <3>1, <3>2
    <2>3. TakenFrom(p.from)' /\ env'["bootfile"] = BootFile' /\ DOMAIN env' = EnvVar
      BY <1>1 DEF BootpCopyNetParams, TakenFrom, EnvVar
    <2>4. loaded = <<>> /\ loaded' = <<>> /\ result' = "running"
      BY DEF LoadedFromSource, Polling
    <2>5. LoadedFromSource' /\ EnvTellsSource'
      BY <2>4 DEF LoadedFromSource, EnvTellsSource
    <2>6. CASE packetHandler' = "arp" /\ timeHandler' = "arp"
      BY <2>1, <2>2, <2>3, <2>5, <2>6 DEF OneSource, SessionCurrent
    <2>7. CASE timeHandler' = "none" /\ packetHandler' = "bootp"
      BY <2>1, <2>2, <2>3, <2>5, <2>7 DEF OneSource, SessionCurrent
    <2>8. \/ packetHandler' = "arp" /\ timeHandler' = "arp"
          \/ timeHandler' = "none" /\ packetHandler' = "bootp"
      BY <1>1 DEF Install
    <2> QED BY <2>6, <2>7, <2>8
  <1>2. CASE UNCHANGED <<addresses, params>> /\ Uninterested({p})
    BY <1>2, UninterestedInv DEF addresses
  <1> QED BY <1>1, <1>2

(* Nobody answers a RARP request in bootp; in rarpboot only the network and *)
(* the end of the command matter here.                                      *)
LEMMA RarpReplyInv == ASSUME IInv, RarpReply PROVE IInv'
  <1> PICK p \in net :
        /\ Polling /\ p.type = "rarp_reply"
        /\ IF packetHandler = "rarp"
             THEN TftpStart /\ Takes({p}, {}) /\ UNCHANGED NetState
             ELSE Uninterested({p})
        /\ UNCHANGED <<command, BootpID, params, result, loaded>>
    BY DEF RarpReply
  <1> USE DEF IInv, command, params
  <1>1. proto = "RARP" /\ proto' = "RARP"
    BY DEF RepliesOK
  <1>2. RepliesOK'
    BY TakesReplies DEF Uninterested
  <1>3. loaded = <<>> /\ loaded' = <<>> /\ result' = "running"
    BY DEF LoadedFromSource, Polling
  <1> QED
    BY <1>1, <1>2, <1>3
    DEF OneSource, SessionCurrent, LoadedFromSource, EnvTellsSource

(* An ARP reply changes where packets go, not whom they are for.            *)
LEMMA ArpReplyInv == ASSUME IInv, ArpReply PROVE IInv'
  <1> PICK p \in net :
        /\ Polling
        /\ IF p.to # NetOurIP
             THEN Takes({p}, {}) /\ UNCHANGED <<NetState, handlers, addresses>>
             ELSE /\ NetServerEther' = p.from
                  /\ UNCHANGED <<NetOurIP, NetServerIP>>
                  /\ Uninterested({p})
        /\ UNCHANGED <<command, BootpID, params, result, loaded>>
    BY DEF ArpReply
  <1>1. CASE Takes({p}, {}) /\ UNCHANGED <<NetState, handlers, addresses>>
    <2>1. RepliesOK'
      BY <1>1, TakesReplies DEF IInv, command
    <2> QED BY <1>1, <2>1, ClientUnchanged DEF client
  <1>2. CASE Uninterested({p}) /\ UNCHANGED <<NetOurIP, NetServerIP>>
    BY <1>2, UninterestedInv
  <1> QED BY <1>1, <1>2

(* A time-out sends the request again, with the handlers it had.            *)
LEMMA TimeoutInv == ASSUME IInv, Timeout PROVE IInv'
  <1> USE DEF IInv, command, addresses, params
  <1>1. /\ Polling
        /\ UNCHANGED <<command, addresses, params, result, loaded>>
    BY DEF Timeout, BootpTimeout, RarpTimeout, ArpTimeout, StartAgainTimeout, TimerFires
  <1>2. loaded = <<>> /\ loaded' = <<>> /\ result' = "running"
    BY <1>1 DEF LoadedFromSource, Polling
  <1>3. LoadedFromSource' /\ EnvTellsSource'
    BY <1>2 DEF LoadedFromSource, EnvTellsSource
  <1>4. NetState = "continue"
    BY <1>1 DEF Polling
  <1>5. CASE BootpTimeout
    <2>1. packetHandler' = "bootp" /\ timeHandler' = "bootp" /\ NetState' = NetState
      BY <1>5 DEF BootpTimeout, BootpRequest, Install
    <2>2. RepliesOK'
      BY <1>1, <1>5 DEF BootpTimeout, BootpPacket, RepliesOK
    <2>3. OneSource' /\ SessionCurrent'
      BY <2>1, <1>4 DEF OneSource, SessionCurrent
    <2> QED BY <1>1, <1>3, <2>2, <2>3
  <1>6. CASE RarpTimeout
    <2>1. proto = "RARP" /\ proto' = "RARP"
      BY <1>1, <1>6 DEF RarpTimeout, OneSource
    <2>2. RepliesOK'
      BY <1>6, <2>1 DEF RarpTimeout, RarpPacket, RepliesOK
    <2> QED BY <1>1, <1>3, <2>1, <2>2 DEF OneSource, SessionCurrent
  <1>7. CASE ArpTimeout
    <2>1. packetHandler' = "arp" /\ timeHandler' = "arp" /\ NetState' = NetState
      BY <1>7 DEF ArpTimeout, Install
    <2>2. RepliesOK'
      BY <1>1, <1>7 DEF ArpTimeout, ArpPacket, RepliesOK
    <2>3. proto = "BOOTP" => packetHandler # "bootp"
      BY <1>7 DEF ArpTimeout, OneSource
    <2> QED BY <1>1, <1>3, <1>4, <2>1, <2>2, <2>3 DEF OneSource, SessionCurrent, TakenFrom
  <1>8. CASE StartAgainTimeout
    <2>1. UNCHANGED <<packetHandler, session, net>> /\ timeHandler' = "none"
          /\ NetState' = "restart"
      BY <1>8 DEF StartAgainTimeout
    <2>2. RepliesOK'
      BY <1>1, <2>1 DEF RepliesOK
    <2>3. OneSource' /\ SessionCurrent'
      BY <1>1, <2>1 DEF OneSource, SessionCurrent, TakenFrom, FileName
    <2> QED BY <1>1, <1>3, <2>2, <2>3
  <1> QED BY <1>5, <1>6, <1>7, <1>8 DEF Timeout

(* A transfer that succeeds is of the session's file, and from the server   *)
(* the board knows.                                                         *)
LEMMA TransferDoneInv == ASSUME IInv, TransferDone PROVE IInv'
  <1> USE DEF IInv, TransferDone, Transferring, Polling, command, handlers, addresses, params
  <1>1. PICK server \in {session[1], NetServerIP} :
            loaded' = <<HostOf[server], session[2]>>
    OBVIOUS
  <1>2. RepliesOK'
    BY DEF RepliesOK
  <1>3. OneSource' /\ SessionCurrent'
    BY DEF OneSource, SessionCurrent, TakenFrom, FileName
  <1>4. LoadedFromSource'
    BY <1>1 DEF LoadedFromSource, SessionCurrent, FileName
  <1>5. EnvTellsSource'
    BY DEF EnvTellsSource
  <1> QED BY <1>2, <1>3, <1>4, <1>5

(* The command's end puts the addresses into the environment.               *)
LEMMA ReturnInv == ASSUME IInv, Return PROVE IInv'
  <1> USE DEF IInv, Return, command, handlers, addresses
  <1>1. RepliesOK' /\ SessionCurrent' /\ LoadedFromSource'
    BY DEF RepliesOK, SessionCurrent, LoadedFromSource, FileName
  <1>2. /\ DOMAIN env' = EnvVar /\ env'["bootfile"] = env["bootfile"]
        /\ NetOurIP # NoAddress => env'["ipaddr"] = NetOurIP
        /\ NetServerIP # NoAddress => env'["serverip"] = NetServerIP
    BY DEF NetbootUpdateEnv, EnvVar
  <1>3. OneSource'
    BY <1>2 DEF OneSource, TakenFrom
  <1>4. EnvTellsSource'
    <2> SUFFICES ASSUME result' = "loaded", proto = "BOOTP"
                 PROVE  loaded = <<HostOf[env'["serverip"]],
                                   IF env'["bootfile"] = NoFile THEN Default(env'["ipaddr"])
                                   ELSE <<"named", env'["bootfile"]>> >>
      BY DEF EnvTellsSource
    <2>1. loaded # <<>>
      OBVIOUS
    <2>2. loaded = <<HostOf[NetServerIP], FileName(NetOurIP)>>
      BY <2>1 DEF LoadedFromSource
    <2>3. PICK s \in Servers : TakenFrom(s)
      BY DEF OneSource
    <2>4. NetOurIP # NoAddress /\ NetServerIP # NoAddress
      BY <2>3, NetBootAssumption DEF TakenFrom, NoAddress
    <2>5. env'["bootfile"] = BootFile
      BY <1>2 DEF OneSource
    <2> QED BY <1>2, <2>2, <2>4, <2>5 DEF FileName
  <1> QED BY <1>1, <1>2, <1>3, <1>4

(* A restart forgets the addresses with the handlers that used them.        *)
LEMMA RestartInv == ASSUME IInv, Restart PROVE IInv'
  <1> USE DEF IInv, Restart, Begin, Install, command, params
  <1>1. loaded = <<>> /\ loaded' = <<>> /\ NetState' = "continue"
    BY DEF LoadedFromSource
  <1>2. RepliesOK'
    BY DEF RepliesOK, BootpPacket, RarpPacket
  <1>3. proto = "BOOTP" => packetHandler' = "bootp" /\ timeHandler' = "bootp"
    BY DEF BootpRequest
  <1>4. OneSource' /\ SessionCurrent'
    BY <1>1, <1>3 DEF OneSource, SessionCurrent
  <1>5. LoadedFromSource' /\ EnvTellsSource'
    BY <1>1 DEF LoadedFromSource, EnvTellsSource
  <1> QED BY <1>2, <1>4, <1>5

(* The hosts answer what they are asked.                                    *)
LEMMA ServeInv == ASSUME IInv, Serve PROVE IInv'
  <1> USE DEF IInv, client, command
  <1>1. CASE ServeBootp
    <2> PICK p \in net, s \in Servers :
          /\ \/ Takes({p}, {[type |-> "bootp_reply", id |-> p.id, from |-> s]})
             \/ Takes({p}, {[type |-> "bootp_reply", id |-> p.id, from |-> t] : t \in Servers})
          /\ UNCHANGED client
      BY <1>1 DEF ServeBootp
    <2>1. CASE Takes({p}, {[type |-> "bootp_reply", id |-> p.id, from |-> s]})
      <3>1. RepliesOK'
        BY <2>1, TakesReplies
      <3> QED BY <3>1, ClientUnchanged
    <2>2. CASE Takes({p}, {[type |-> "bootp_reply", id |-> p.id, from |-> t] : t \in Servers})
      <3>1. RepliesOK'
        BY <2>2, TakesReplies
      <3> QED BY <3>1, ClientUnchanged
    <2> QED BY <2>1, <2>2
  <1>2. CASE ServeRarp
    <2> PICK p \in net, s \in Servers :
          /\ p.type = "rarp_request"
          /\ Takes({p}, {[type |-> "rarp_reply", from |-> s]})
          /\ UNCHANGED client
      BY <1>2 DEF ServeRarp
    <2>1. proto = "RARP"
      BY DEF RepliesOK
    <2>2. RepliesOK'
      BY <2>1, TakesReplies
    <2> QED BY <2>2, ClientUnchanged
  <1>3. CASE ServeArp
    <2> PICK p \in net :
          /\ Takes({p}, {[type |-> "arp_reply", from |-> HostOf[p.ip], to |-> p.by]})
          /\ UNCHANGED client
      BY <1>3 DEF ServeArp
    <2>1. RepliesOK'
      BY TakesReplies
    <2> QED BY <2>1, ClientUnchanged
  <1> QED BY <1>1, <1>2, <1>3 DEF Serve

-----------------------------------------------------------------------------
(* Every step keeps the invariant. *)
LEMMA NextInv == ASSUME IInv, [Next]_vars PROVE IInv'
  <1>1. CASE Restart
    BY <1>1, RestartInv
  <1>2. CASE Receive
    BY <1>2, BootpReplyInv, RarpReplyInv, ArpReplyInv DEF Receive
  <1>3. CASE OtherPacket
    BY <1>3, UninterestedInv DEF OtherPacket, addresses
  <1>4. CASE Timeout
    BY <1>4, TimeoutInv
  <1>5. CASE TransferDone
    BY <1>5, TransferDoneInv
  <1>6. CASE TransferFails
    <2> USE DEF IInv, TransferFails, Transferring, Polling, NetStartAgain, Install, command,
                addresses, params
    <2>1. RepliesOK'
      BY <1>6 DEF RepliesOK
    <2>2. OneSource' /\ SessionCurrent'
      BY <1>6 DEF OneSource, SessionCurrent, TakenFrom
    <2>3. LoadedFromSource' /\ EnvTellsSource'
      BY <1>6 DEF LoadedFromSource, EnvTellsSource
    <2> QED BY <1>6, <2>1, <2>2, <2>3
  <1>7. CASE CtrlC
    BY <1>7 DEF CtrlC, IInv, RepliesOK, OneSource, TakenFrom, SessionCurrent,
                LoadedFromSource, EnvTellsSource, FileName, command, handlers, addresses, params
  <1>8. CASE Return
    BY <1>8, ReturnInv
  <1>9. CASE Serve
    BY <1>9, ServeInv
  <1>10. CASE Lose
    <2>1. RepliesOK' /\ UNCHANGED client
      BY <1>10 DEF Lose, RepliesOK, IInv, client, command
    <2> QED BY <2>1, ClientUnchanged
  <1>11. CASE UNCHANGED vars
    BY <1>11, ClientUnchanged DEF vars, client, command, handlers, addresses, params,
                                 IInv, RepliesOK
  <1> QED
    BY <1>1, <1>2, <1>3, <1>4, <1>5, <1>6, <1>7, <1>8, <1>9, <1>10, <1>11 DEF Next

(* The invariant holds in every state.                                      *)
LEMMA Invariance == Spec => []IInv
  BY InitInv, NextInv, PTL DEF Spec

(* The board's address, the server's and the file are always those of one   *)
(* reply (BootpCopyNetParams, NetLoop's restart), for any servers.          *)
THEOREM OneReplyHolds == Spec => []OneReply
  <1>1. IInv => OneReply
    BY DEF IInv, OneSource, TakenFrom, OneReply, Configured
  <1> QED BY <1>1, Invariance, PTL

(* After bootp the environment names the host and the file that were used   *)
(* (netboot_update_env), for any servers and hosts.                         *)
THEOREM EnvTruthful == Spec => []EnvTellsSource
  <1>1. IInv => EnvTellsSource
    BY DEF IInv
  <1> QED BY <1>1, Invariance, PTL
==============================================================================

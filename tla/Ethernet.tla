------------------------------ MODULE Ethernet ------------------------------
(***************************************************************************)
(* The Ethernet drivers (drivers/) with the controllers they poll, under   *)
(* NetLoop, which initialises the controller once, polls it for frames,    *)
(* and sends from a time-out or, inside eth_rx, from the handler that      *)
(* NetReceive calls.  The controller works on meanwhile.                   *)
(*                                                                         *)
(* A controller keeps frames in the pages of its memory; the SMC91111's    *)
(* are taken and given back by the driver, the others' by the controller.  *)
(***************************************************************************)
EXTENDS Integers, Sequences, FiniteSets, SequencesExt

CONSTANTS
    Boards,             \* the controllers: "smc91111", "cs8900", "easynet", "3c589"
    Pages,              \* the frames a controller's memory holds
    Fifo,               \* the same, of a transmit FIFO of its own
    SMC_ALLOC_MAX_TRY,
    MaxFrames,          \* bounds on what arrives, what is sent,
    MaxSends,
    MaxFaults           \* and what fails or is late

None == [dir |-> "none", no |-> 0, good |-> FALSE]
In(n, good) == [dir |-> "in", no |-> n, good |-> good]
Out(n) == [dir |-> "out", no |-> n, good |-> TRUE]

Nowhere == 0

ASSUME EthernetAssumption ==
    /\ Boards \subseteq {"smc91111", "cs8900", "easynet", "3c589"}
    /\ Pages \cup Fifo \subseteq Nat \ {Nowhere} /\ Pages \cap Fifo = {}
    /\ IsFiniteSet(Pages) /\ IsFiniteSet(Fifo)
    /\ {SMC_ALLOC_MAX_TRY, MaxFrames, MaxSends, MaxFaults} \subseteq Nat

VARIABLES
    board,      \* the controller, fixed
    pc,         \* where the driver is; "off" without a network command
    mem, free,  \* the controller's memory, and its free pages
    rxq,        \* pages with received frames, oldest first
    rxOn, txOn, \* receiver and transmitter are enabled
    stuck,      \* the transmitter does not get on with its frames
    discarding, \* the 3c589 has not yet dropped the frame that was read
    asked, got, \* the SMC91111's allocation: pending, and its result
    pn,         \* its packet number register
    txq,        \* pages queued for transmission
    done,       \* completions the driver has not acknowledged
    in, out,    \* NetRxPackets[0], and the frame eth_send was given
    try

controller == <<mem, free, rxq, rxOn, txOn, stuck, discarding, asked, got, pn, txq, done>>

(* What happened so far: frames that arrived, were taken in since the last   *)
(* reset, and were delivered; frames sent; frames the controller has         *)
(* finished with; what eth_send said last; allocations and waits given up.   *)
VARIABLES arrived, accepted, delivered, finished, said, gaveUp, late, faults

history == <<arrived, accepted, delivered, finished, said, gaveUp, late, faults>>
vars == <<board, pc, controller, in, out, try, history>>

Frame == {None} \cup {In(n, g) : n \in 1..MaxFrames, g \in BOOLEAN}
                \cup {Out(n) : n \in 1..MaxSends}

TypeOK ==
    /\ board \in Boards
    /\ pc \in {"off", "loop", "release", "receive", "send", "alloc", "wait"}
    /\ mem \in [Pages \cup Fifo -> Frame]
    /\ free \subseteq Pages \cup Fifo
    /\ ToSet(rxq) \subseteq Pages /\ ToSet(txq) \subseteq Pages \cup Fifo
    /\ {got, pn} \subseteq Pages \cup {Nowhere}
    /\ done \in 0..MaxSends /\ try \in 0..SMC_ALLOC_MAX_TRY
    /\ in \in Frame /\ out \in Frame

(* The CS8900 and the SMC91111 have one memory for both directions. *)
TxPages == IF board \in {"smc91111", "cs8900"} THEN Pages ELSE Fifo

Init ==
    /\ board \in Boards /\ pc = "off"
    /\ mem = [p \in Pages \cup Fifo |-> None] /\ free = Pages \cup Fifo
    /\ rxq = <<>> /\ rxOn = FALSE /\ txOn = FALSE /\ stuck = FALSE /\ discarding = FALSE
    /\ asked = FALSE /\ got = Nowhere /\ pn = Nowhere /\ txq = <<>> /\ done = 0
    /\ in = None /\ out = None /\ try = 0
    /\ arrived = 0 /\ accepted = {} /\ delivered = <<>> /\ finished = {} /\ said = None
    /\ gaveUp = 0 /\ late = FALSE /\ faults = 0

Fault == faults < MaxFaults /\ faults' = faults + 1

-----------------------------------------------------------------------------
(* The network. *)

(* The controller takes a frame in if it has a page for it. *)
Arrive(good) ==
    /\ arrived < MaxFrames
    /\ arrived' = arrived + 1
    /\ IF rxOn /\ free \cap Pages # {}
         THEN LET p == Min(free \cap Pages) IN
                /\ mem' = [mem EXCEPT ![p] = In(arrived', good)]
                /\ free' = free \ {p} /\ rxq' = Append(rxq, p)
                /\ accepted' = IF good THEN accepted \cup {arrived'} ELSE accepted
         ELSE UNCHANGED <<mem, free, rxq, accepted>>
    /\ UNCHANGED <<board, pc, rxOn, txOn, stuck, discarding, asked, got, pn, txq, done, in, out,
                   try, delivered, finished, said, gaveUp, late, faults>>

(* A frame goes out; or, for a fault, the controller gives it up, which      *)
(* stops the SMC91111's transmitter.                                         *)
Transmit ==
    /\ txq # <<>> /\ txOn /\ ~stuck
    /\ finished' = finished \cup {mem[Head(txq)]}
    /\ txq' = Tail(txq) /\ done' = done + 1
    /\ free' = IF board = "smc91111" THEN free ELSE free \cup {Head(txq)}
    /\ \/ txOn' = TRUE /\ faults' = faults
       \/ board = "smc91111" /\ txOn' = FALSE /\ Fault
    /\ UNCHANGED <<board, pc, mem, rxq, rxOn, stuck, discarding, asked, got, pn, in, out, try,
                   arrived, accepted, delivered, said, gaveUp, late>>

(* The medium is busy for longer than the driver waits, or is free again. *)
Stick ==
    /\ stuck' = ~stuck
    /\ IF stuck THEN faults' = faults ELSE Fault
    /\ UNCHANGED <<board, pc, mem, free, rxq, rxOn, txOn, discarding, asked, got, pn, txq, done,
                   in, out, try, arrived, accepted, delivered, finished, said, gaveUp, late>>

(* The SMC91111's memory manager has a page for the driver. *)
Allocate ==
    /\ asked /\ free \cap Pages # {}
    /\ got' = Min(free \cap Pages) /\ free' = free \ {got'}
    /\ asked' = FALSE
    /\ UNCHANGED <<board, pc, mem, rxq, rxOn, txOn, stuck, discarding, pn, txq, done, in, out,
                   try, history>>

(* The 3c589 executes RX_DISCARD_TOP_PACK. *)
Discard ==
    /\ discarding /\ discarding' = FALSE
    /\ rxq' = Tail(rxq) /\ free' = free \cup {Head(rxq)}
    /\ UNCHANGED <<board, pc, mem, rxOn, txOn, stuck, asked, got, pn, txq, done, in, out, try,
                   history>>

-----------------------------------------------------------------------------
(* Initialisation. *)

(* A reset empties the controller. *)
ControllerReset ==
    /\ free' = Pages \cup Fifo /\ rxq' = <<>> /\ txq' = <<>> /\ done' = 0
    /\ asked' = FALSE /\ got' = Nowhere /\ discarding' = FALSE
    /\ accepted' = {} /\ delivered' = <<>>
    /\ UNCHANGED <<mem, pn>>

(* smc_phy_configure polls for the end of the PHY's reset; when it is seen   *)
(* at the last poll the loop's counter is as low as after a time-out.        *)
PhyResetTimedOut(polls) == (IF polls <= 6 THEN 6 - polls ELSE -1) < 1

(* A PHY that was not configured stays isolated: no frame passes.  What the  *)
(* negotiation ends with is printed and not looked at.                       *)
PhyConfigure ==
    \E polls \in 1..7 : rxOn' = ~PhyResetTimedOut(polls) /\ txOn' = rxOn'

(* eth_init ends with receiver and transmitter enabled. *)
EthInit ==
    /\ ControllerReset
    /\ \/ board = "smc91111" /\ PhyConfigure
       \/ board # "smc91111" /\ rxOn' = TRUE /\ txOn' = TRUE

(* NetLoop halts and initialises the controller once; a restart of the       *)
(* command does not come by here.                                            *)
NetLoopStart ==
    /\ pc = "off"
    /\ EthInit
    /\ pc' = "loop"
    /\ said' = None /\ gaveUp' = 0 /\ late' = FALSE
    /\ UNCHANGED <<board, stuck, in, out, try, arrived, finished, faults>>

(* ^C and success halt the controller, which is nothing for the 3c589; a     *)
(* failure leaves it running.                                                *)
EthHalt ==
    IF board = "3c589" THEN UNCHANGED <<rxOn, txOn>> ELSE rxOn' = FALSE /\ txOn' = FALSE

NetLoopReturn ==
    /\ pc = "loop" /\ pc' = "off"
    /\ EthHalt \/ UNCHANGED <<rxOn, txOn>>
    /\ UNCHANGED <<board, mem, free, rxq, stuck, discarding, asked, got, pn, txq, done, in, out,
                   try, history>>

-----------------------------------------------------------------------------
(* Reception. *)

First == mem[Head(rxq)]

(* smc_rcv copies the frame, *)
SmcRead ==
    /\ board = "smc91111" /\ pc = "loop" /\ rxq # <<>>
    /\ in' = IF First.good THEN First ELSE None
    /\ pc' = "release"
    /\ UNCHANGED <<board, controller, out, try, history>>

(* gives its page back, *)
SmcRelease ==
    /\ pc = "release"
    /\ rxq' = Tail(rxq) /\ free' = free \cup {Head(rxq)}
    /\ pc' = IF in = None THEN "loop" ELSE "receive"
    /\ UNCHANGED <<board, mem, rxOn, txOn, stuck, discarding, asked, got, pn, txq, done, in, out,
                   try, history>>

(* The CS8900, which accepts good frames only, drops what has been read. *)
CsRead ==
    /\ board = "cs8900" /\ pc = "loop" /\ rxq # <<>>
    /\ rxq' = Tail(rxq) /\ free' = free \cup {Head(rxq)}
    /\ in' = First /\ pc' = "receive"
    /\ UNCHANGED <<board, mem, rxOn, txOn, stuck, discarding, asked, got, pn, txq, done, out, try,
                   history>>

(* The easynet does when it is told to (write_ACK), in which case the frame  *)
(* may have been too long.  Its driver clears a late completion first.       *)
EasyRead ==
    /\ board = "easynet" /\ pc = "loop" /\ (rxq # <<>> \/ done > 0)
    /\ done' = 0
    /\ \/ rxq = <<>> /\ UNCHANGED <<rxq, free, in, pc>>
       \/ /\ rxq # <<>>
          /\ rxq' = Tail(rxq) /\ free' = free \cup {Head(rxq)}
          /\ IF First.good THEN in' = First /\ pc' = "receive" ELSE UNCHANGED <<in, pc>>
    /\ UNCHANGED <<board, mem, rxOn, txOn, stuck, discarding, asked, got, pn, txq, out, try,
                   history>>

(* Mutation: eth_rx does not wait for the last command. *)
ElReadEager ==
    /\ board = "3c589" /\ pc = "loop"
    /\ rxq # <<>>
    /\ discarding' = TRUE
    /\ IF First.good THEN in' = First /\ pc' = "receive" ELSE UNCHANGED <<in, pc>>
    /\ UNCHANGED <<board, mem, free, rxq, rxOn, txOn, stuck, asked, got, pn, txq, done, out, try,
                   history>>

(* The 3c589 is told to drop the frame, and does it later; eth_rx begins     *)
(* with a wait for that.                                                     *)
ElRead ==
    /\ board = "3c589" /\ pc = "loop"
    /\ ~discarding /\ rxq # <<>>
    /\ discarding' = TRUE
    /\ IF First.good THEN in' = First /\ pc' = "receive" ELSE UNCHANGED <<in, pc>>
    /\ UNCHANGED <<board, mem, free, rxq, rxOn, txOn, stuck, asked, got, pn, txq, done, out, try,
                   history>>

(* and NetReceive gets the copy; its handler may answer at once.             *)
NetReceive ==
    /\ pc = "receive"
    /\ delivered' = Append(delivered, in.no)
    /\ in' = None
    /\ \/ pc' = "loop" /\ UNCHANGED out
       \/ out.no < MaxSends /\ pc' = "send" /\ out' = Out(out.no + 1)
    /\ UNCHANGED <<board, controller, try, arrived, accepted, finished, said, gaveUp, late, faults>>

(* A time-out handler sends. *)
TimeHandler ==
    /\ pc = "loop" /\ out.no < MaxSends
    /\ pc' = "send" /\ out' = Out(out.no + 1)
    /\ UNCHANGED <<board, controller, in, try, history>>

-----------------------------------------------------------------------------
(* Transmission. *)

Return(value) == pc' = "loop" /\ said' = value

(* The frame is in the controller's page p and queued. *)
Enqueue(p) == mem' = [mem EXCEPT ![p] = out] /\ txq' = Append(txq, p)

(* eth_send ends without a look at its frame: 30 s on the SMC91111, 5 s on   *)
(* the CS8900.                                                               *)
TooLate == done = 0 /\ IF stuck \/ ~txOn THEN faults' = faults ELSE Fault

(* smc_send_packet: MC_ALLOC, *)
SmcAlloc ==
    /\ board = "smc91111" /\ pc = "send"
    /\ asked' = TRUE /\ got' = Nowhere /\ try' = 1 /\ pc' = "alloc"
    /\ UNCHANGED <<board, mem, free, rxq, rxOn, txOn, stuck, discarding, pn, txq, done, in, out,
                   history>>

(* MC_ENQUEUE, *)
SmcEnqueue ==
    /\ pc = "alloc" /\ got # Nowhere
    /\ pn' = got /\ got' = Nowhere /\ Enqueue(got)
    /\ pc' = "wait"
    /\ UNCHANGED <<board, free, rxq, rxOn, txOn, stuck, discarding, asked, done, in, out, try,
                   history>>

(* Mutation: the tries are not counted. *)
SmcNoMemoryAgain ==
    /\ pc = "alloc" /\ got = Nowhere
    /\ UNCHANGED <<pc, said, gaveUp, try>>
    /\ UNCHANGED <<board, controller, in, out, arrived, accepted, delivered, finished, late,
                   faults>>

(* Without a page after its tries it gives up, but the request stays. *)
SmcNoMemory ==
    /\ pc = "alloc" /\ got = Nowhere
    /\ \/ try < SMC_ALLOC_MAX_TRY /\ try' = try + 1 /\ UNCHANGED <<pc, said, gaveUp>>
       \/ /\ try = SMC_ALLOC_MAX_TRY
          /\ Return(None) /\ gaveUp' = gaveUp + 1 /\ UNCHANGED try
    /\ UNCHANGED <<board, controller, in, out, arrived, accepted, delivered, finished, late,
                   faults>>

(* Mutation: the completion is not acknowledged. *)
SmcSentKept ==
    /\ board = "smc91111" /\ pc = "wait" /\ done > 0
    /\ free' = free \cup {pn}
    /\ Return(out)
    /\ UNCHANGED <<board, mem, rxq, rxOn, txOn, stuck, discarding, asked, got, pn, txq, done, in,
                   out, try, arrived, accepted, delivered, finished, gaveUp, late, faults>>

(* and MC_FREEPKT, when a completion is there, *)
SmcSent ==
    /\ board = "smc91111" /\ pc = "wait" /\ done > 0
    /\ done' = done - 1 /\ free' = free \cup {pn}
    /\ Return(out)
    /\ UNCHANGED <<board, mem, rxq, rxOn, txOn, stuck, discarding, asked, got, pn, txq, in, out,
                   try, arrived, accepted, delivered, finished, gaveUp, late, faults>>

(* Mutation: the page is not given back after a time-out. *)
SmcTimeoutKept ==
    /\ board = "smc91111" /\ pc = "wait" /\ TooLate
    /\ Return(None) /\ late' = TRUE
    /\ UNCHANGED <<board, controller, in, out, try, arrived, accepted, delivered, finished, gaveUp>>

(* or too late: the page is given back although it is still queued. *)
SmcTimeout ==
    /\ board = "smc91111" /\ pc = "wait" /\ TooLate
    /\ free' = free \cup {pn}
    /\ Return(None) /\ late' = TRUE
    /\ UNCHANGED <<board, mem, rxq, rxOn, txOn, stuck, discarding, asked, got, pn, txq, done, in,
                   out, try, arrived, accepted, delivered, finished, gaveUp>>

(* CS8900: the controller has memory for the frame, *)
CsSend ==
    /\ board = "cs8900" /\ pc = "send"
    /\ \E p \in free \cap Pages : Enqueue(p) /\ free' = free \ {p}
    /\ pc' = "wait"
    /\ UNCHANGED <<board, rxq, rxOn, txOn, stuck, discarding, asked, got, pn, done, in, out, try,
                   history>>

(* or it is reset, which disables it, and asked again. *)
CsRetry ==
    /\ board = "cs8900" /\ pc = "send" /\ free \cap Pages = {}
    /\ ControllerReset /\ rxOn' = FALSE /\ txOn' = FALSE
    /\ UNCHANGED <<board, pc, stuck, in, out, try, arrived, finished, said, gaveUp, late, faults>>

(* The event register is cleared by reading it; 0 is returned in any case. *)
CsSent ==
    /\ board = "cs8900" /\ pc = "wait"
    /\ \/ done > 0 /\ done' = 0 /\ UNCHANGED faults
       \/ TooLate /\ UNCHANGED done
    /\ Return(None)
    /\ UNCHANGED <<board, mem, free, rxq, rxOn, txOn, stuck, discarding, asked, got, pn, txq, in,
                   out, try, arrived, accepted, delivered, finished, gaveUp, late>>

(* easynet: the frame is dropped if the controller is not ready, *)
EasySend ==
    /\ board = "easynet" /\ pc = "send"
    /\ \/ /\ stuck /\ Return(None)
          /\ UNCHANGED <<mem, free, txq>>
       \/ /\ ~stuck
          /\ \E p \in free \cap Fifo : Enqueue(p) /\ free' = free \ {p}
          /\ pc' = "wait" /\ UNCHANGED said
    /\ UNCHANGED <<board, rxq, rxOn, txOn, stuck, discarding, asked, got, pn, done, in, out, try,
                   arrived, accepted, delivered, finished, gaveUp, late, faults>>

(* and waited for without an end: the loop does not count. *)
EasySent ==
    /\ board = "easynet" /\ pc = "wait" /\ done > 0
    /\ done' = 0
    /\ Return(out)
    /\ UNCHANGED <<board, mem, free, rxq, rxOn, txOn, stuck, discarding, asked, got, pn, txq, in,
                   out, try, arrived, accepted, delivered, finished, gaveUp, late, faults>>

(* 3c589: the status of the frames before is cleared, after a bad one with a *)
(* reset of the transmitter; room is waited for without an end, and the      *)
(* frame is on its way when the driver returns.                              *)
ElSend ==
    /\ board = "3c589" /\ pc = "send"
    /\ \/ /\ done > 0 /\ done' = 0 /\ UNCHANGED <<pc, mem>>
          /\ \/ UNCHANGED <<free, txq, faults>>
             \/ Fault /\ txq' = <<>> /\ free' = free \cup ToSet(txq)
       \/ /\ done = 0 /\ UNCHANGED <<done, faults>>
          /\ \E p \in free \cap Fifo : Enqueue(p) /\ free' = free \ {p}
          /\ pc' = "loop"
    /\ UNCHANGED <<board, rxq, rxOn, txOn, stuck, discarding, asked, got, pn, in, out, try,
                   arrived, accepted, delivered, finished, said, gaveUp, late>>

Sends == SmcAlloc \/ SmcEnqueue \/ SmcNoMemory \/ SmcSent \/ SmcTimeout
            \/ CsSend \/ CsRetry \/ CsSent \/ EasySend \/ EasySent \/ ElSend
Receives == SmcRead \/ SmcRelease \/ CsRead \/ EasyRead \/ ElRead \/ NetReceive

Next ==
    \/ \E good \in BOOLEAN : (board = "cs8900" => good) /\ Arrive(good)
    \/ Transmit \/ Stick \/ Allocate \/ Discard
    \/ NetLoopStart \/ NetLoopReturn \/ TimeHandler
    \/ Receives \/ Sends

(* The processor and the controller do not stop. *)
Spec ==
    /\ Init /\ [][Next]_vars
    /\ WF_vars(Sends) /\ WF_vars(Receives)
    /\ WF_vars(Transmit) /\ WF_vars(Discard)

-----------------------------------------------------------------------------
(* Each good frame the controller took in since its last reset is delivered  *)
(* once, in order, or still there: although its page is used again while     *)
(* NetReceive runs, a handler sends in between, and the 3c589 drops a frame  *)
(* later than it is told to.                                                 *)
DeliveredOnce ==
    /\ \A i, j \in DOMAIN delivered : i < j => delivered[i] < delivered[j]
    /\ accepted \subseteq ToSet(delivered) \cup {in.no} \cup {mem[p].no : p \in ToSet(rxq)}

(* What eth_send reports as sent is a frame the controller has finished      *)
(* with, and not a completion of one before: as long as none was given up,   *)
(* whose completion comes when another frame is waited for.                  *)
SentMeansSent == said # None /\ ~late => said \in finished

(* Between two calls no page of the SMC91111 is lost: each is free, received *)
(* or queued.  One is lost with each allocation that was given up.           *)
PagesReturned ==
    board = "smc91111" /\ pc \in {"off", "loop"} =>
        Cardinality(Pages \ (free \cup ToSet(rxq) \cup ToSet(txq))) <= gaveUp

(* eth_send comes back although the transmitter may be stuck or off, the     *)
(* memory full, or frames keep coming; on easynet and the 3c589, which wait  *)
(* without an end, only if the transmitter gets on.                          *)
SendEnds ==
    (pc \in {"send", "alloc", "wait"})
        ~> (pc = "loop" \/ (stuck /\ board \in {"easynet", "3c589"}))

(* While a network command runs the controller hears the network.  Not kept: *)
(* the retry of the CS8900's eth_send resets it and does not initialise it   *)
(* again, and smc_phy_configure takes a reset that ends late for none.       *)
Listening == pc = "loop" => rxOn
=============================================================================

------------------------------- MODULE Kermit -------------------------------
(***************************************************************************)
(* loadb: the Kermit receiver of common/cmd_boot.c (k_recv), which writes  *)
(* the data of a packet to memory while it receives it, and takes them     *)
(* back by restoring a checkpoint when the packet turns out to be bad.     *)
(*                                                                         *)
(* The other end of the line, a Kermit program that sends one file, and    *)
(* the line itself, which damages or loses characters, are external: they  *)
(* are modelled as far as the protocol the receiver speaks requires.       *)
(*                                                                         *)
(* One turn of the loop of k_recv, from START_CHAR to the answer, is one   *)
(* step: nothing else runs meanwhile.  The checksum is modelled by what it *)
(* is for: a packet with a damaged character is refused.  A packet's type  *)
(* is acted on, and its data stored, before that is known.                 *)
(***************************************************************************)
EXTENDS Integers, FiniteSets, Sequences

CONSTANTS
    Byte,       \* the contents of memory
    Char,       \* the printable characters on the line
    Blank,      \* memory not yet written
    K_ESCAPE,   \* the quote character a receiver assumes
    Quote,      \* the quote character this sender uses
    Ktrans,     \* ktrans: [Char -> Byte]
    Encode,     \* how the sender writes a byte: [Byte -> Seq(Char)]
    FileName,   \* the payload of the file header packet
    File,       \* the data packets' contents, a sequence of sequences of bytes
    Room,       \* bytes of memory from the load address on
    Damage,     \* the parts of a packet the line may damage
    Impatient,  \* TRUE: the sender may time out on a packet still on its way
    InFlight,   \* how many packets and answers the line holds
    MaxLineFaults   \* how many packets and answers are damaged, lost or sent early

Types == {"S", "F", "D", "Z", "B"}

ASSUME KermitAssumption ==
    /\ K_ESCAPE \in Char /\ Quote \in Char
    /\ Char \subseteq Byte /\ Blank \notin Byte
    /\ Ktrans \in [Char -> Byte]
    /\ \A b \in Byte :
          \/ b \in Char /\ b # Quote /\ Encode[b] = <<b>>
          \/ \E c \in Char : Encode[b] = <<Quote, c>> /\ Ktrans[c] = b
    /\ FileName \in Seq(Char)
    /\ File \in Seq(Seq(Byte))
    /\ Damage \subseteq {"header", "type", "data", "check"}
    /\ Impatient \in BOOLEAN
    /\ {Room, InFlight, MaxLineFaults} \subseteq Nat

(* The characters of one data packet, and the packets of a transfer. *)
Payload(chunk) ==
    LET written[i \in 0..Len(chunk)] ==
            IF i = 0 THEN <<>> ELSE written[i - 1] \o Encode[chunk[i]]
    IN  written[Len(chunk)]

Packets ==
    << <<"S", <<Quote>>>>, <<"F", FileName>> >>
        \o [i \in DOMAIN File |-> <<"D", Payload(File[i])>>]
        \o << <<"Z", <<>>>>, <<"B", <<>>>> >>

Seqno(i) == (i - 1) % 64

VARIABLES
    memory,     \* from the load address on
    data,       \* os_data_addr, as an offset, and k_data_escape
    saved,      \* os_data_addr_saved and k_data_escape_saved
    last_n,     \* the sequence number of the last checkpoint
    n,          \* the sequence number read last
    his_quote,
    done,
    cur,        \* sender: the packet not yet acknowledged
    line,       \* packets on their way, as they arrive
    reply,      \* answers on their way
    line_faults

receiver == <<memory, data, saved, last_n, n, his_quote, done>>
kermitVars == <<memory, data, saved, last_n, n, his_quote, done, cur, line, reply, line_faults>>

Offset == 0..Room

KermitPacket == [n : 0..63, type : Types, payload : Seq(Char), bad : {"no", "header", "late"}]

KermitTypeOK ==
    /\ memory \in [0..Room - 1 -> Byte \cup {Blank}]
    /\ data \in [addr : Offset, escape : BOOLEAN]
    /\ saved \in [addr : Offset, escape : BOOLEAN]
    /\ last_n \in -1..63 /\ n \in 0..63
    /\ his_quote \in Char
    /\ done \in BOOLEAN
    /\ cur \in 1..Len(Packets) + 1
    /\ line \in Seq(KermitPacket) /\ Len(line) <= InFlight
    /\ reply \in Seq([type : {"Y", "N"}, n : 0..63]) /\ Len(reply) <= InFlight
    /\ line_faults \in 0..MaxLineFaults

KermitInit ==
    /\ memory = [i \in 0..Room - 1 |-> Blank]
    /\ data = [addr |-> 0, escape |-> FALSE]
    /\ saved = data
    /\ last_n = -1 /\ n = 0
    /\ his_quote = K_ESCAPE
    /\ done = FALSE
    /\ cur = 1 /\ line = <<>> /\ reply = <<>>
    /\ line_faults = 0

-----------------------------------------------------------------------------
(* The receiver. *)

(* k_data_char on [memory, addr, escape] *)
Store(s, byte) ==
    [memory |-> [s.memory EXCEPT ![s.addr] = byte], addr |-> s.addr + 1, escape |-> FALSE]

KDataChar(s, c) ==
    CASE s.escape -> Store(s, Ktrans[c])
      [] ~s.escape /\ c = his_quote -> [s EXCEPT !.escape = TRUE]
      [] OTHER -> Store(s, c)

(* k_data_char on one character after the other *)
Feed(s, chars) ==
    LET after[i \in 0..Len(chars)] ==
            IF i = 0 THEN s ELSE KDataChar(after[i - 1], chars[i])
    IN  after[Len(chars)]

(* Mutation: a second copy of a packet is not acknowledged. *)
AnswerOnce(type, number) ==
    reply' = IF Len(reply) < InFlight /\ ~(type = "Y" /\ number = last_n)
             THEN Append(reply, [type |-> type, n |-> number])
             ELSE reply

(* send_ack and send_nack *)
Answer(type, number) ==
    reply' = IF Len(reply) < InFlight
             THEN Append(reply, [type |-> type, n |-> number])
             ELSE reply

(* Mutation: the checkpoint is made for every packet, as the code did       *)
(* before it looked at sequence numbers.                                    *)
CheckpointAlways(p) == data

(* The state a packet starts from: the last checkpoint, when it is a second *)
(* copy of the packet the checkpoint was made for.                          *)
Checkpoint(p) == IF p.n = last_n THEN saved ELSE data

(* A character of the packet is lost or damaged before its sequence number  *)
(* is known; k_recv asks for the number it read last.                       *)
BadHeader(p) ==
    /\ p.bad = "header"
    /\ data' = saved
    /\ Answer("N", n)
    /\ UNCHANGED <<memory, saved, last_n, n, his_quote, done>>

Ends(p) == p.bad = "no" /\ p.type = "B"

(* The rest of the loop: checkpoint, data, checksum, answer. *)
GoodHeader(p) ==
    LET from == Checkpoint(p)
        fed == [memory |-> memory, addr |-> from.addr, escape |-> from.escape]
        s == IF p.type = "D" THEN Feed(fed, p.payload) ELSE fed
    IN  /\ p.bad # "header"
        /\ last_n' = p.n /\ n' = p.n
        /\ saved' = from
        /\ memory' = s.memory
        /\ IF p.bad = "late"
             THEN /\ data' = from
                  /\ Answer("N", p.n)
                  /\ UNCHANGED his_quote
             ELSE /\ data' = [addr |-> s.addr, escape |-> s.escape]
                  /\ Answer("Y", p.n)
                  /\ his_quote' = IF p.type = "S" THEN Head(p.payload) ELSE his_quote
        /\ done' = Ends(p)

KRecv ==
    /\ ~done /\ line # <<>>
    /\ BadHeader(Head(line)) \/ GoodHeader(Head(line))
    /\ line' = Tail(line)
    /\ UNCHANGED <<cur, line_faults>>

(* do_load_serial_bin discards what still arrives after k_recv. *)
GatherTrailing ==
    /\ done /\ line # <<>>
    /\ line' = Tail(line)
    /\ UNCHANGED <<receiver, cur, reply, line_faults>>

-----------------------------------------------------------------------------
(* The line and the sender. *)

(* How packet p may arrive.  A control character in it ends it where it     *)
(* stands; any other damage shows in the checksum.                          *)
Damaged(p) ==
    LET late == [p EXCEPT !.bad = "late"]
        at == DOMAIN p.payload
    IN  (IF "header" \in Damage THEN {[p EXCEPT !.bad = "header"]} ELSE {})
        \cup (IF "check" \in Damage THEN {late} ELSE {})
        \cup (IF "type" \in Damage
              THEN {[late EXCEPT !.type = t] : t \in Types \ {p.type}} ELSE {})
        \cup (IF "data" \in Damage
              THEN {[late EXCEPT !.payload = SubSeq(@, 1, i - 1)] : i \in at}
                   \cup {[late EXCEPT !.payload[w[1]] = w[2]] : w \in at \X Char}
              ELSE {})

Current ==
    [n |-> Seqno(cur'), type |-> Packets[cur'][1], payload |-> Packets[cur'][2], bad |-> "no"]

(* Packet cur' is sent, and arrives as it is, damaged, or not at all. *)
Transmit(cost) ==
    \/ /\ line_faults' = line_faults + cost
       /\ line' = Append(line, Current)
    \/ /\ line_faults' = line_faults + cost + 1
       /\ \/ line' = line
          \/ \E p \in Damaged(Current) : line' = Append(line, p)

Pending == cur <= Len(Packets) /\ Len(line) < InFlight

(* The sender has waited long enough: nothing is on its way, or it did not  *)
(* wait for what is.                                                        *)
Send ==
    LET early == line # <<>> \/ reply # <<>>
    IN  /\ Pending
        /\ early => Impatient
        /\ cur' = cur
        /\ Transmit(IF early THEN 1 ELSE 0)
        /\ line_faults' <= MaxLineFaults
        /\ UNCHANGED <<receiver, reply>>

(* An acknowledgement of packet cur: its own, or a request for the next.    *)
Acknowledges(r) ==
    \/ r.type = "Y" /\ r.n = Seqno(cur)
    \/ r.type = "N" /\ r.n = Seqno(cur + 1)

HearAck ==
    /\ reply # <<>> /\ cur <= Len(Packets)
    /\ Acknowledges(Head(reply))
    /\ cur' = cur + 1
    /\ IF cur' <= Len(Packets) /\ Len(line) < InFlight
         THEN Transmit(0)
         ELSE UNCHANGED <<line, line_faults>>
    /\ line_faults' <= MaxLineFaults
    /\ reply' = Tail(reply)
    /\ UNCHANGED receiver

HearNack ==
    /\ reply # <<>> /\ Pending
    /\ Head(reply).type = "N" /\ ~Acknowledges(Head(reply))
    /\ cur' = cur
    /\ Transmit(0)
    /\ line_faults' <= MaxLineFaults
    /\ reply' = Tail(reply)
    /\ UNCHANGED receiver

(* An answer that means nothing to the sender, or does not reach it. *)
AnswerIgnored ==
    /\ reply # <<>>
    /\ \/ line_faults < MaxLineFaults /\ line_faults' = line_faults + 1
       \/ /\ \/ cur > Len(Packets)
             \/ Head(reply).type = "Y" /\ ~Acknowledges(Head(reply))
          /\ line_faults' = line_faults
    /\ reply' = Tail(reply)
    /\ UNCHANGED <<receiver, line, cur>>

KermitNext == KRecv \/ GatherTrailing \/ Send \/ HearAck \/ HearNack \/ AnswerIgnored

(* Both ends keep going; the line may fail MaxLineFaults times, no more. *)
KermitSpec ==
    /\ KermitInit /\ [][KermitNext]_kermitVars
    /\ WF_kermitVars(KRecv) /\ WF_kermitVars(GatherTrailing)
    /\ WF_kermitVars(Send) /\ WF_kermitVars(HearAck \/ HearNack \/ AnswerIgnored)

-----------------------------------------------------------------------------
(* How many bytes the first k data packets carry. *)
Length[k \in 0..Len(File)] == IF k = 0 THEN 0 ELSE Length[k - 1] + Len(File[k])

(* The first k data packets' contents are in memory, one after the other.   *)
Holds(k) ==
    \A i \in 1..k : \A j \in DOMAIN File[i] : memory[Length[i - 1] + j - 1] = File[i][j]

(* What the sender was told has arrived is in memory and stays there, while *)
(* damaged copies of the next packet are stored and taken back.  (Packets 1 *)
(* and 2 carry no data.)  When loadb reports the start address, the file is *)
(* in memory: k_recv gives no other sign of a failure than to ask for a     *)
(* packet again.                                                            *)
TransferIntact ==
    /\ Holds(IF cur - 3 > Len(File) THEN Len(File) ELSE IF cur < 3 THEN 0 ELSE cur - 3)
    /\ done => Holds(Len(File))

(* loadb ends, unless the line keeps failing: no answer is ever one the     *)
(* sender and the receiver both wait for.                                   *)
TransferEnds == <>done
=============================================================================

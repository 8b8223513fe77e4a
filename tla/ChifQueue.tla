----------------------------- MODULE ChifQueue ------------------------------
(***************************************************************************)
(* The way of a packet from the host into the CHIF daemon: the kernel      *)
(* driver gxp-chif with its ring buffer, which the interrupt handler fills *)
(* and read() empties, with no lock between them.                          *)
(*                                                                         *)
(* The GXP has one CPU: the interrupt handler can run between any two      *)
(* instructions of read(), and nothing of the BMC runs while it does.  So  *)
(* read() is modelled by the instructions that matter: size-- is a load    *)
(* and a store, and the packet is copied to the user after it was taken    *)
(* off the ring.  The host is another machine: it writes the shared memory *)
(* and rings the doorbell at any time, also while the handler runs.        *)
(*                                                                         *)
(* The daemon polls the device and reads when there is something to read,  *)
(* which to the driver is size > 0.                                        *)
(*                                                                         *)
(* Left out: what active_ccb() stores in the control word of the channel,  *)
(* as chif_write() does for the other one in ChifReply.                    *)
(***************************************************************************)
EXTENDS Integers, Sequences, FiniteSets, Functions

CONSTANTS
  Slots,      \* SHARED_MEM_CHIF_QUEUE_SIZE (16)
  Entries,    \* 1..SHARED_MEM_CHIF_DESCRIPTOR_NUM (2): the host's send FIFO
  SeqNums,    \* the sequence_num values the host writes
  MaxPosts    \* bound on the packets of the host

ASSUME ConstantsAssumption ==
  /\ Slots \in Nat \ {0}
  /\ Entries \subseteq Nat /\ IsFiniteSet(Entries)
  /\ SeqNums \subseteq 0..255
  /\ MaxPosts \in Nat

VARIABLES
  fifo,       \* the host's send FIFO in shared memory
  go,         \* CCB_CTRL_GO of the send channel
  doorbell,   \* the channel's bit in REG_INDOOR
  irq,        \* where the interrupt handler is
  ring,       \* chif24_queue
  reader,     \* where the daemon's call of the driver is
  pushed,     \* history: packets put on the ring since it was last cleared
  delivered,  \* history: packets read since then
  posts,      \* packets of the host so far
  mishaps     \* history: the races that have happened

vars == <<fifo, go, doorbell, irq, ring, reader, pushed, delivered, posts, mishaps>>

(* Packets are numbered in the order in which the host posts them; 0 stands  *)
(* for a packet whose two halves are of different packets.                   *)
Packet == 1..MaxPosts
Torn == 0

FreeEntry == [packet |-> 0, seq |-> 0, empty |-> FALSE, consumed |-> TRUE]

Entry == [packet : Packet, seq : SeqNums, empty : BOOLEAN, consumed : BOOLEAN]

ClearRing == [head |-> 0, tail |-> 0, size |-> 0, slot |-> [i \in 0..Slots-1 |-> 0]]

Ring == [head : 0..Slots-1, tail : 0..Slots-1, size : 0..Slots,
         slot : [0..Slots-1 -> Packet \cup {0}]]

IdleReader == [at |-> "idle", reg |-> 0, ptr |-> 0, half |-> 0]

Reader == [at : {"idle", "opening", "loaded", "popped", "half"}, reg : 0..Slots,
           ptr : 0..Slots-1, half : Packet \cup {0}]

After(i) == (i + 1) % Slots

-----------------------------------------------------------------------------
(* The host. *)

HostPost(i, seq, empty) ==
  /\ go /\ posts < MaxPosts
  /\ fifo[i].consumed
  /\ posts' = posts + 1
  /\ fifo' = [fifo EXCEPT ![i] = [packet |-> posts + 1, seq |-> seq, empty |-> empty,
                                  consumed |-> FALSE]]
  /\ doorbell' = TRUE
  /\ UNCHANGED <<go, irq, ring, reader, pushed, delivered, mishaps>>

HostBoot ==
  /\ ~go /\ go' = TRUE
  /\ UNCHANGED <<fifo, doorbell, irq, ring, reader, pushed, delivered, posts, mishaps>>

HostReset ==
  /\ go /\ go' = FALSE
  /\ fifo' = [i \in Entries |-> FreeEntry]
  /\ UNCHANGED <<doorbell, irq, ring, reader, pushed, delivered, posts, mishaps>>

-----------------------------------------------------------------------------
(* chif_irq_handle(). *)

Waiting(i) == ~fifo[i].consumed

(* The doorbell is acknowledged before the FIFO is looked at; a ring from    *)
(* now on raises the interrupt again.                                        *)
IrqAck ==
  /\ irq = "off" /\ doorbell
  /\ doorbell' = FALSE
  /\ irq' = "acked"
  /\ UNCHANGED <<fifo, go, ring, reader, pushed, delivered, posts, mishaps>>

(* active_ccb(): a channel whose GO is off is not looked at. *)
ActiveCcb == go

(* consume_packet(): packets without data are consumed at once. *)
IrqScan ==
  /\ irq = "acked"
  /\ IF ActiveCcb
     THEN /\ fifo' = [i \in Entries |->
                       [fifo[i] EXCEPT !.consumed = @ \/ fifo[i].empty]]
          /\ irq' = IF \E i \in Entries : Waiting(i) /\ ~fifo[i].empty
                    THEN "taking" ELSE "off"
     ELSE /\ irq' = "off"
          /\ UNCHANGED fifo
  /\ UNCHANGED <<go, doorbell, ring, reader, pushed, delivered, posts, mishaps>>

(* get_occupied_entry(): the search starts at sequence 0 and takes what is   *)
(* not greater, so that it finds the last entry with number 0, and no other. *)
Chosen ==
  LET zero == {i \in Entries : Waiting(i) /\ fifo[i].seq = 0}
  IN {i \in zero : \A j \in zero : j <= i}

(* The handler runs inside the read-modify-write of size, or puts a packet   *)
(* where the reader is still copying from.                                   *)
Mishap ==
  mishaps' = mishaps
    \cup (IF reader.at = "loaded" THEN {"raced"} ELSE {})
    \cup (IF reader.at \in {"popped", "half"} /\ ring.tail = reader.ptr
          THEN {"overrun"} ELSE {})

(* Faulty Push: the ring is never full. *)
PushOver(p) ==
  /\ ring' = [ring EXCEPT !.slot[ring.tail] = p, !.tail = After(@),
                          !.size = IF @ = Slots THEN Slots ELSE @ + 1]
  /\ pushed' = Append(pushed, p)
  /\ Mishap

(* Faulty Push: the packet is stored and not counted. *)
PushUncounted(p) ==
  IF ring.size = Slots
  THEN UNCHANGED <<ring, pushed, mishaps>>
  ELSE /\ ring' = [ring EXCEPT !.slot[ring.tail] = p, !.tail = After(@)]
       /\ pushed' = Append(pushed, p)
       /\ Mishap

(* chif_queue_push(): a packet that finds the ring full is dropped. *)
Push(p) ==
  IF ring.size = Slots
  THEN UNCHANGED <<ring, pushed, mishaps>>
  ELSE /\ ring' = [ring EXCEPT !.slot[ring.tail] = p, !.tail = After(@), !.size = @ + 1]
       /\ pushed' = Append(pushed, p)
       /\ Mishap

(* Faulty IrqTake: one packet for each interrupt. *)
IrqTakeOne(i) ==
  /\ irq = "taking" /\ i \in Chosen
  /\ Push(fifo[i].packet)
  /\ fifo' = [fifo EXCEPT ![i].consumed = TRUE]
  /\ irq' = "off"
  /\ UNCHANGED <<go, doorbell, reader, delivered, posts>>

IrqTake(i) ==
  /\ irq = "taking" /\ i \in Chosen
  /\ Push(fifo[i].packet)
  /\ fifo' = [fifo EXCEPT ![i].consumed = TRUE]
  /\ UNCHANGED <<go, doorbell, irq, reader, delivered, posts>>

IrqDone ==
  /\ irq = "taking" /\ Chosen = {}
  /\ irq' = "off"
  /\ UNCHANGED <<fifo, go, doorbell, ring, reader, pushed, delivered, posts, mishaps>>

-----------------------------------------------------------------------------
(* chif_read(): chif_queue_pop(), then copy_to_user(). *)

PopLoad ==
  /\ irq = "off" /\ reader.at = "idle" /\ ring.size > 0
  /\ reader' = [reader EXCEPT !.at = "loaded", !.reg = ring.size]
  /\ UNCHANGED <<fifo, go, doorbell, irq, ring, pushed, delivered, posts, mishaps>>

(* Faulty PopStore: the slot is looked up after the head has moved. *)
PopStoreMoved ==
  /\ irq = "off" /\ reader.at = "loaded"
  /\ ring' = [ring EXCEPT !.size = reader.reg - 1, !.head = After(@)]
  /\ reader' = [reader EXCEPT !.at = "popped", !.ptr = After(ring.head)]
  /\ UNCHANGED <<fifo, go, doorbell, irq, pushed, delivered, posts, mishaps>>

PopStore ==
  /\ irq = "off" /\ reader.at = "loaded"
  /\ ring' = [ring EXCEPT !.size = reader.reg - 1, !.head = After(@)]
  /\ reader' = [reader EXCEPT !.at = "popped", !.ptr = ring.head]
  /\ UNCHANGED <<fifo, go, doorbell, irq, pushed, delivered, posts, mishaps>>

CopyFirst ==
  /\ irq = "off" /\ reader.at = "popped"
  /\ reader' = [reader EXCEPT !.at = "half", !.half = ring.slot[reader.ptr]]
  /\ UNCHANGED <<fifo, go, doorbell, irq, ring, pushed, delivered, posts, mishaps>>

CopyLast ==
  /\ irq = "off" /\ reader.at = "half"
  /\ delivered' = Append(delivered, IF ring.slot[reader.ptr] = reader.half
                                    THEN reader.half ELSE Torn)
  /\ reader' = IdleReader
  /\ UNCHANGED <<fifo, go, doorbell, irq, ring, pushed, posts, mishaps>>

(* A daemon that starts opens the device: the ring is cleared if the host    *)
(* has not set GO.                                                           *)
OpenCheck ==
  /\ irq = "off" /\ reader.at = "idle"
  /\ ~go
  /\ reader' = [reader EXCEPT !.at = "opening"]
  /\ UNCHANGED <<fifo, go, doorbell, irq, ring, pushed, delivered, posts, mishaps>>

(* A packet that came since the check goes too. *)
OpenClear ==
  /\ irq = "off" /\ reader.at = "opening"
  /\ ring' = ClearRing
  /\ reader' = IdleReader
  /\ pushed' = <<>> /\ delivered' = <<>>
  /\ mishaps' = IF go /\ ring.size > 0 THEN mishaps \cup {"wiped"} ELSE mishaps
  /\ UNCHANGED <<fifo, go, doorbell, irq, posts>>

-----------------------------------------------------------------------------
Init ==
  /\ fifo = [i \in Entries |-> FreeEntry]
  /\ go = FALSE /\ doorbell = FALSE /\ irq = "off"
  /\ ring = ClearRing
  /\ reader = IdleReader
  /\ pushed = <<>> /\ delivered = <<>>
  /\ posts = 0
  /\ mishaps = {}

Host ==
  \/ \E i \in Entries, seq \in SeqNums, empty \in BOOLEAN : HostPost(i, seq, empty)
  \/ HostBoot
  \/ HostReset

Irq == IrqAck \/ IrqScan \/ (\E i \in Entries : IrqTake(i)) \/ IrqDone

Read == PopLoad \/ PopStore \/ CopyFirst \/ CopyLast

Next == Host \/ Irq \/ Read \/ OpenCheck \/ OpenClear

(* A pending interrupt is taken, a call of the driver returns, and the       *)
(* daemon's event loop reads as long as the device polls readable.           *)
Spec == Init /\ [][Next]_vars /\ WF_vars(Irq) /\ WF_vars(Read \/ OpenClear)

-----------------------------------------------------------------------------
(* The ring, the FIFO of the host and the history have their types. *)
TypeOK ==
  /\ fifo \in [Entries -> Entry \cup {FreeEntry}]
  /\ go \in BOOLEAN /\ doorbell \in BOOLEAN
  /\ irq \in {"off", "acked", "taking"}
  /\ ring \in Ring
  /\ reader \in Reader
  /\ pushed \in Seq(Packet) /\ delivered \in Seq(Packet \cup {Torn})
  /\ posts \in 0..MaxPosts
  /\ mishaps \subseteq {"raced", "overrun", "wiped"}

(* Packets taken off the ring since it was cleared. *)
Popped == Len(delivered) + IF reader.at \in {"popped", "half"} THEN 1 ELSE 0

(* As long as no interrupt has hit the window in size--, the ring holds what *)
(* was pushed and not yet popped, in order, and size counts it: the head     *)
(* and the tail, moved by two contexts without a lock, never disagree.       *)
RingExact ==
  "raced" \notin mishaps /\ "wiped" \notin mishaps =>
    /\ ring.size = Len(pushed) - Popped
    /\ ring.tail = (ring.head + ring.size) % Slots
    /\ \A j \in 0..ring.size-1 :
         ring.slot[(ring.head + j) % Slots] = pushed[Popped + j + 1]

(* Without a mishap, the daemon reads what was pushed, whole, once and in    *)
(* order.                                                                    *)
ReadsAreFifo ==
  mishaps = {} => delivered = SubSeq(pushed, 1, Len(delivered))

(* Only a full ring makes a packet vulnerable to being overwritten while it  *)
(* is copied: the slot just given up is the next to be filled.               *)
OverrunOnlyWhenFull ==
  [][ "overrun" \notin mishaps /\ "overrun" \in mishaps' /\ "raced" \notin mishaps
       => ring'.size = Slots ]_vars

(* No doorbell is lost: a packet with sequence number 0 is taken from the    *)
(* FIFO, however its doorbell fell into a running handler.                   *)
DoorbellHeard ==
  \A i \in Entries : (Waiting(i) /\ fifo[i].seq = 0) ~> (~Waiting(i) \/ ~go)

(* A packet on the ring is read, unless an interrupt hit the window.         *)
Unread(p) == p \in Range(pushed) /\ p \notin Range(delivered)

QueuedIsRead == \A p \in Packet : Unread(p) ~> (~Unread(p) \/ mishaps # {})

(* What the driver is for: the daemon reads what the host has sent, even if  *)
(* an interrupt comes while it reads.                                        *)
QueuedIsAlwaysRead == \A p \in Packet : Unread(p) ~> ~Unread(p)
=============================================================================

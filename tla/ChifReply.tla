----------------------------- MODULE ChifReply -----------------------------
(***************************************************************************)
(* The way of an answer from the CHIF daemon to the host: the daemon's     *)
(* loop, and chif_write() of the driver, which puts the answer where the   *)
(* first entry of the host's receive FIFO says.                            *)
(*                                                                         *)
(* The FIFO is in shared memory and the host uses it at any time: it       *)
(* offers an entry (occupied), the driver fills it (consumed), the host    *)
(* takes the answer and may offer the entry again.  The driver looks at    *)
(* the entry several times, at each of its fields by a read of its own,    *)
(* and sleeps in between if the host has not offered it.  The daemon is    *)
(* one thread: while it sleeps in write(), the requests stay on the        *)
(* driver's ring, which ChifQueue describes and which is a sequence here.  *)
(*                                                                         *)
(* Left out: the branches of chif_write() for more than 4096 bytes and for *)
(* memory that cannot be read, which the daemon's buffer never takes.      *)
(***************************************************************************)
EXTENDS Integers, Sequences

CONSTANTS
  Slots,      \* SHARED_MEM_CHIF_QUEUE_SIZE (16)
  Descs,      \* descriptors an entry of the receive FIFO may name
  Lens,       \* lengths of answers, in quadwords; 0: there is no answer
  MaxPolls,   \* polls of the receive FIFO, 100 ms apart (100)
  MaxPosts    \* bound on the requests of the host

ASSUME ConstantsAssumption ==
  /\ Slots \in Nat \ {0}
  /\ Descs # {}
  /\ Lens \subseteq Nat
  /\ MaxPolls \in Nat \ {0}
  /\ MaxPosts \in Nat

VARIABLES
  queue,      \* requests on the driver's ring
  daemon,     \* where the daemon is
  up,         \* the host runs
  ctrl,       \* rq_ctrl, GO and ACTIVE of the receive channel
  slot,       \* entry 0 of the receive FIFO
  mem,        \* what is in the descriptors
  posts,      \* requests of the host so far
  written,    \* history: answers whose write() succeeded since the host's reset
  taken,      \* history: answers the host has taken since then
  mishaps     \* history: what has gone wrong since then

vars == <<queue, daemon, up, ctrl, slot, mem, posts, written, taken, mishaps>>

Request == [id : 1..MaxPosts, len : Lens]

NoRequest == [id |-> 0, len |-> 0]

(* initResponse() and initRomResponse() echo the sequence number, so that an *)
(* answer says which request it is for.                                      *)
Response(r) == r

Answer == [id : 0..MaxPosts, len : Lens \cup {0}]

Slot == [occupied : BOOLEAN, consumed : BOOLEAN, desc : Descs, qwords : Lens \cup {0}]

FreeSlot(d) == [occupied |-> FALSE, consumed |-> FALSE, desc |-> d, qwords |-> 0]

Ctrl == [go : BOOLEAN, active : BOOLEAN]

Idle(d) == [at |-> "poll", req |-> NoRequest, desc |-> d, polls |-> 0,
            word |-> FreeSlot(d)]

Daemon == [at : {"poll", "write", "drop", "activate", "ready", "loaded", "look", "wait", "found",
                 "copied", "marking"},
           req : Request \cup {NoRequest}, desc : Descs, polls : 0..MaxPolls,
           word : Slot]

Writing == daemon.at \notin {"poll", "write"}

-----------------------------------------------------------------------------
(* The host.  It posts without waiting for the answer to an earlier request, *)
(* as it does after a timeout of its own; a full ring loses the request.     *)
HostPost(len) ==
  /\ up /\ posts < MaxPosts
  /\ posts' = posts + 1
  /\ queue' = IF Len(queue) < Slots THEN Append(queue, [id |-> posts + 1, len |-> len])
                                    ELSE queue
  /\ UNCHANGED <<daemon, up, ctrl, slot, mem, written, taken, mishaps>>

HostOffer(d) ==
  /\ up /\ ~slot.occupied
  /\ slot' = [slot EXCEPT !.occupied = TRUE, !.consumed = FALSE, !.desc = d]
  /\ mishaps' = mishaps \cup (IF Writing /\ d # daemon.desc THEN {"moved"} ELSE {})
  /\ UNCHANGED <<queue, daemon, up, ctrl, mem, posts, written, taken>>

HostTake ==
  /\ slot.occupied /\ slot.consumed
  /\ taken' = Append(taken, [answer |-> mem[slot.desc], qwords |-> slot.qwords])
  /\ slot' = [slot EXCEPT !.occupied = FALSE, !.consumed = FALSE]
  /\ mishaps' = mishaps \cup (IF daemon.at = "found" THEN {"dequeued"} ELSE {})
  /\ UNCHANGED <<queue, daemon, up, ctrl, mem, posts, written>>

HostBoot ==
  /\ ~up /\ up' = TRUE
  /\ ctrl' = [go |-> TRUE, active |-> FALSE]
  /\ UNCHANGED <<queue, daemon, slot, mem, posts, written, taken, mishaps>>

HostReset ==
  /\ up /\ up' = FALSE
  /\ ctrl' = [go |-> FALSE, active |-> FALSE]
  /\ slot' = [slot EXCEPT !.occupied = FALSE, !.consumed = FALSE]
  /\ written' = <<>> /\ taken' = <<>>
  /\ mishaps' = IF Writing THEN {"reset"} ELSE {}
  /\ UNCHANGED <<queue, daemon, mem, posts>>

-----------------------------------------------------------------------------
(* processOnce(). *)

(* A packet shorter than a header, one for a service that nobody handles, or *)
(* one whose handler returns -1 is dropped without an answer.                *)
ReadSilent ==
  /\ daemon.at = "poll" /\ queue # <<>> /\ Head(queue).len = 0
  /\ queue' = Tail(queue)
  /\ UNCHANGED <<daemon, up, ctrl, slot, mem, posts, written, taken, mishaps>>

(* The handler makes the answer in the one response buffer, no larger than a *)
(* descriptor.                                                               *)
ReadRequest ==
  /\ daemon.at = "poll" /\ queue # <<>> /\ Head(queue).len > 0
  /\ queue' = Tail(queue)
  /\ daemon' = [daemon EXCEPT !.at = "write", !.req = Response(Head(queue))]
  /\ UNCHANGED <<up, ctrl, slot, mem, posts, written, taken, mishaps>>

(* A new daemon opens the device, which empties the ring of a host that is   *)
(* off.  The one that dies in write() sleeps there to the end.               *)
Restart ==
  /\ daemon.at \in {"poll", "write"}
  /\ daemon' = Idle(daemon.desc)
  /\ queue' = IF up THEN queue ELSE <<>>
  /\ UNCHANGED <<up, ctrl, slot, mem, posts, written, taken, mishaps>>

-----------------------------------------------------------------------------
(* chif_write(). *)

(* The daemon logs a failed write and goes on with the next packet.          *)
GiveUp == daemon' = Idle(daemon.desc)

(* The driver puts down in the control word whether it serves the channel.  *)
CheckGo ==
  /\ daemon.at = "write"
  /\ daemon' = [daemon EXCEPT !.at = IF ~ctrl.go THEN "drop"
                                     ELSE IF ~ctrl.active THEN "activate" ELSE "ready"]
  /\ UNCHANGED <<queue, up, ctrl, slot, mem, posts, written, taken, mishaps>>

(* GO lies in the word that is stored, as it was when it was loaded: a host  *)
(* that starts or stops in between is taken for off, or for on, until it     *)
(* sets up the channel the next time.                                        *)
StoreCtrl(go, active) ==
  /\ ctrl' = [go |-> go, active |-> active]
  /\ UNCHANGED <<queue, up, slot, mem, posts, written, taken, mishaps>>

WriteDropped ==
  /\ daemon.at = "drop"
  /\ StoreCtrl(FALSE, FALSE)
  /\ GiveUp

Activate ==
  /\ daemon.at = "activate"
  /\ StoreCtrl(TRUE, TRUE)
  /\ daemon' = [daemon EXCEPT !.at = "ready"]

(* The number of the descriptor is read, and the length stored, before the   *)
(* entry is known to be there and to be free.  The length is a bit field: to *)
(* store it is to load its word and to store it again.                       *)
LengthLoad ==
  /\ daemon.at = "ready"
  /\ daemon' = [daemon EXCEPT !.at = "loaded", !.desc = slot.desc, !.word = slot]
  /\ UNCHANGED <<queue, up, ctrl, slot, mem, posts, written, taken, mishaps>>

(* Depending on the instruction the build has for it, the store brings back  *)
(* the fields beside the length as they were loaded.  An answer that the     *)
(* host has not taken yet gets the length of this one.                       *)
LengthStore(wide) ==
  /\ daemon.at = "loaded"
  /\ daemon' = [daemon EXCEPT !.at = "look", !.word = FreeSlot(daemon.desc)]
  /\ slot' = [IF wide THEN daemon.word ELSE slot EXCEPT !.qwords = daemon.req.len]
  /\ mishaps' = mishaps
       \cup (IF slot'.consumed THEN {"remeasured"} ELSE {})
       \cup (IF wide /\ daemon.word # slot THEN {"undone"} ELSE {})
  /\ UNCHANGED <<queue, up, ctrl, mem, posts, written, taken>>

LookEmpty ==
  /\ daemon.at = "look" /\ ~slot.occupied
  /\ daemon' = [daemon EXCEPT !.at = "wait", !.polls = MaxPolls]
  /\ UNCHANGED <<queue, up, ctrl, slot, mem, posts, written, taken, mishaps>>

(* The entry is there at the first look, or after a sleep.                   *)
EntryFound ==
  /\ slot.occupied
  /\ daemon.at = "look" \/ (daemon.at = "wait" /\ daemon.polls > 1)
  /\ daemon' = [daemon EXCEPT !.at = "found", !.polls = 0]
  /\ UNCHANGED <<queue, up, ctrl, slot, mem, posts, written, taken, mishaps>>

(* Faulty PollEmpty: the polls are not counted. *)
PollEmptyUncounted ==
  /\ daemon.at = "wait" /\ daemon.polls > 1 /\ ~slot.occupied
  /\ UNCHANGED vars

(* Faulty PollEmpty: a sleep may end without a look at the entry. *)
PollBlind ==
  /\ daemon.at = "wait" /\ daemon.polls > 1
  /\ daemon' = [daemon EXCEPT !.polls = @ - 1]
  /\ UNCHANGED <<queue, up, ctrl, slot, mem, posts, written, taken, mishaps>>

PollEmpty ==
  /\ daemon.at = "wait" /\ daemon.polls > 1 /\ ~slot.occupied
  /\ daemon' = [daemon EXCEPT !.polls = @ - 1]
  /\ UNCHANGED <<queue, up, ctrl, slot, mem, posts, written, taken, mishaps>>

(* The last poll ends in a timeout, even if it finds the entry.              *)
PollLast ==
  /\ daemon.at = "wait" /\ daemon.polls = 1
  /\ GiveUp
  /\ UNCHANGED <<queue, up, ctrl, slot, mem, posts, written, taken, mishaps>>

(* The host may have taken the answer that was in the entry since it was     *)
(* found occupied.  Then it looks free, and is filled although the host does *)
(* not offer it.                                                             *)
Refuse ==
  /\ daemon.at = "found" /\ slot.consumed
  /\ GiveUp
  /\ UNCHANGED <<queue, up, ctrl, slot, mem, posts, written, taken, mishaps>>

(* Faulty Copy: an answer that was not taken yet is no obstacle. *)
CopyOver ==
  /\ daemon.at = "found"
  /\ mem' = [mem EXCEPT ![daemon.desc] = daemon.req]
  /\ daemon' = [daemon EXCEPT !.at = "copied"]
  /\ UNCHANGED <<queue, up, ctrl, slot, posts, written, taken, mishaps>>

Copy ==
  /\ daemon.at = "found" /\ ~slot.consumed
  /\ mem' = [mem EXCEPT ![daemon.desc] = daemon.req]
  /\ daemon' = [daemon EXCEPT !.at = "copied"]
  /\ UNCHANGED <<queue, up, ctrl, slot, posts, written, taken, mishaps>>

(* consumed = 1, and the doorbell.  GO is not looked at again.  The bit is   *)
(* stored with occupied, which lies in the same byte, as it was loaded.      *)
MarkLoad ==
  /\ daemon.at = "copied"
  /\ daemon' = [daemon EXCEPT !.at = "marking", !.word = slot]
  /\ UNCHANGED <<queue, up, ctrl, slot, mem, posts, written, taken, mishaps>>

Publish(wide) ==
  /\ daemon.at = "marking"
  /\ slot' = [IF wide THEN daemon.word ELSE slot EXCEPT
                !.consumed = TRUE, !.occupied = daemon.word.occupied]
  /\ written' = Append(written, daemon.req)
  /\ daemon' = Idle(daemon.desc)
  /\ UNCHANGED <<queue, up, ctrl, mem, posts, taken, mishaps>>

-----------------------------------------------------------------------------
Init ==
  /\ queue = <<>>
  /\ up = FALSE /\ ctrl = [go |-> FALSE, active |-> FALSE]
  /\ \E d \in Descs :
       /\ daemon = Idle(d)
       /\ slot = FreeSlot(d)
  /\ mem = [d \in Descs |-> NoRequest]
  /\ posts = 0
  /\ written = <<>> /\ taken = <<>>
  /\ mishaps = {}

Host ==
  \/ \E len \in Lens : HostPost(len)
  \/ \E d \in Descs : HostOffer(d)
  \/ HostTake \/ HostBoot \/ HostReset

Write ==
  \/ CheckGo \/ WriteDropped \/ Activate
  \/ LengthLoad \/ (\E wide \in BOOLEAN : LengthStore(wide))
  \/ LookEmpty \/ EntryFound \/ PollEmpty \/ PollLast
  \/ Refuse \/ Copy \/ MarkLoad \/ (\E wide \in BOOLEAN : Publish(wide))

Process == ReadSilent \/ ReadRequest \/ Write

Next == Host \/ Process \/ Restart

(* The event loop reads while the device polls readable, and write() goes    *)
(* on.  Nothing is assumed of the host, which may never offer an entry.      *)
Spec == Init /\ [][Next]_vars /\ WF_vars(Process)

-----------------------------------------------------------------------------
(* The state has its type; what is published without being copied first      *)
(* would not be of a request.                                                *)
TypeOK ==
  /\ queue \in Seq(Request) /\ Len(queue) <= Slots
  /\ daemon \in Daemon /\ (daemon.at # "poll" => daemon.req \in Request)
  /\ up \in BOOLEAN /\ ctrl \in Ctrl
  /\ slot \in Slot
  /\ mem \in [Descs -> Answer]
  /\ posts \in 0..MaxPosts
  /\ written \in Seq(Request)
  /\ taken \in Seq([answer : Answer, qwords : Lens \cup {0}])
  /\ mishaps \subseteq {"moved", "reset", "remeasured", "undone", "dequeued"}

(* The answers of the host's view: those taken, and the one in its FIFO.     *)
Seen ==
  IF slot.occupied /\ slot.consumed
  THEN Append(taken, [answer |-> mem[slot.desc], qwords |-> slot.qwords])
  ELSE taken

(* The host gets every answer whose write() succeeded, once and in order,    *)
(* and none is overwritten before it was taken: unless the host, during a    *)
(* write(), reset, offered the entry with a descriptor other than the one    *)
(* that was read before, changed it while the driver stored the length, or   *)
(* took the previous answer between the driver's look at occupied and its    *)
(* look at consumed.  An answer keeps its length too, unless the driver      *)
(* began to write the next one before the host took it.                      *)
DeliveredAsWritten ==
  /\ mishaps \cap {"moved", "reset", "undone", "dequeued"} = {} =>
       /\ Len(Seen) = Len(written)
       /\ \A i \in DOMAIN written : Seen[i].answer = written[i]
  /\ mishaps \cap {"moved", "reset", "remeasured"} = {} =>
       \A i \in DOMAIN Seen : Seen[i].qwords = Seen[i].answer.len

(* An entry that is offered before the last poll is used, for the request    *)
(* that waits for it.                                                        *)
Late(id) ==
  /\ daemon.at = "wait" /\ daemon.req.id = id /\ daemon.polls > 1
  /\ slot.occupied

OfferInTimeIsUsed ==
  \A id \in 1..MaxPosts :
    Late(id) ~> (~up \/ \E i \in DOMAIN written : written[i].id = id)

(* The host waits for the daemon, and the daemon for the host: but every     *)
(* request leaves the ring, also if the host never offers an entry.          *)
Queued(id) == \E i \in DOMAIN queue : queue[i].id = id

RequestsAreServed == \A id \in 1..MaxPosts : Queued(id) ~> ~Queued(id)
=============================================================================

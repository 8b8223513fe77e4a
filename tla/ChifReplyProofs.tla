-------------------------- MODULE ChifReplyProofs --------------------------
(***************************************************************************)
(* What holds of the driver's response direction for any number of slots,  *)
(* descriptors, polls and requests.                                        *)
(***************************************************************************)
EXTENDS ChifReply, SequenceTheorems, TLAPS

-----------------------------------------------------------------------------
(* The invariant. *)

Looked == daemon.at \in {"look", "wait", "found", "copied", "marking"}

(* The driver writes into the descriptor of the entry, unless the host has   *)
(* moved it.                                                                 *)
SameDescriptor ==
  /\ daemon.at = "loaded" => daemon.word.desc = daemon.desc
  /\ (daemon.at = "loaded" \/ Looked) /\ mishaps \cap {"moved", "reset"} = {} =>
       slot.desc = daemon.desc

(* The length in the entry is that of the answer that is being written.      *)
Measured ==
  /\ Looked => slot.qwords = daemon.req.len
  /\ daemon.at = "marking" => daemon.word.qwords = daemon.req.len

(* An answer in the entry during the looks was there when the length was     *)
(* stored.                                                                   *)
Remeasured ==
  /\ Looked /\ slot.consumed => "remeasured" \in mishaps
  /\ "dequeued" \in mishaps => "remeasured" \in mishaps

(* The host does not touch an entry that it offers and that holds no answer. *)
FoundStays ==
  daemon.at = "found" /\ mishaps \cap {"reset", "dequeued"} = {} => slot.occupied

(* An answer that is copied and not published waits in an entry that is not  *)
(* taken for an answer by the host.                                          *)
CopiedWaits ==
  daemon.at \in {"copied", "marking"} =>
    /\ mem[daemon.desc] = daemon.req
    /\ mishaps \cap {"reset", "dequeued"} = {} =>
         /\ slot.occupied /\ ~slot.consumed
         /\ daemon.at = "marking" => daemon.word = slot

IInv ==
  /\ TypeOK
  /\ SameDescriptor /\ Measured /\ Remeasured
  /\ FoundStays /\ CopiedWaits
  /\ DeliveredAsWritten

-----------------------------------------------------------------------------
(* Types. *)

LEMMA RequestType ==
  /\ Request \subseteq Answer /\ NoRequest \in Answer
  /\ \A r \in Request : r.len \in Lens
  /\ \A d \in Descs : FreeSlot(d) \in Slot /\ Idle(d) \in Daemon /\ Idle(d).at = "poll"
<1>1. Request \subseteq Answer /\ NoRequest \in Answer /\ \A r \in Request : r.len \in Lens
  BY ConstantsAssumption DEF Request, Answer, NoRequest
<1>2. ASSUME NEW d \in Descs
      PROVE  FreeSlot(d) \in Slot /\ Idle(d) \in Daemon /\ Idle(d).at = "poll"
  BY ConstantsAssumption DEF FreeSlot, Slot, Idle, Daemon, NoRequest
<1> QED
  BY <1>1, <1>2

LEMMA InitType == Init => TypeOK
<1> SUFFICES ASSUME Init PROVE TypeOK
  OBVIOUS
<1>1. PICK d \in Descs : daemon = Idle(d) /\ slot = FreeSlot(d)
  BY DEF Init
<1>2. daemon \in Daemon /\ slot \in Slot /\ daemon.at = "poll"
  BY <1>1, RequestType
<1>3. queue \in Seq(Request) /\ Len(queue) <= Slots
  BY ConstantsAssumption DEF Init
<1>4. written \in Seq(Request) /\ taken \in Seq([answer : Answer, qwords : Lens \cup {0}])
  BY DEF Init
<1>5. mem \in [Descs -> Answer]
  BY RequestType DEF Init
<1>6. up \in BOOLEAN /\ mishaps = {}
  BY DEF Init
<1>7. ctrl \in Ctrl
  BY DEF Init, Ctrl
<1>8. posts \in 0..MaxPosts
  BY ConstantsAssumption DEF Init
<1> QED
  BY <1>2, <1>3, <1>4, <1>5, <1>6, <1>7, <1>8 DEF TypeOK

LEMMA HostKeepsType ==
  ASSUME TypeOK, Host
  PROVE  TypeOK'
<1>1. ASSUME NEW len \in Lens, HostPost(len) PROVE TypeOK'
  <2>1. posts + 1 \in 1..MaxPosts
    BY <1>1, ConstantsAssumption DEF HostPost, TypeOK
  <2> DEFINE r == [id |-> posts + 1, len |-> len]
  <2>2. r \in Request
    BY <2>1 DEF Request
  <2>3. queue' \in Seq(Request) /\ Len(queue') <= Slots
    <3>1. CASE Len(queue) < Slots
      <4>1. queue' = Append(queue, r)
        BY <1>1, <3>1 DEF HostPost
      <4> QED
        BY <4>1, <2>2, <3>1, ConstantsAssumption DEF TypeOK
    <3>2. CASE ~(Len(queue) < Slots)
      BY <1>1, <3>2 DEF HostPost, TypeOK
    <3> QED
      BY <3>1, <3>2
  <2> QED
    BY <1>1, <2>1, <2>3 DEF HostPost, TypeOK
<1>2. ASSUME NEW d \in Descs, HostOffer(d) PROVE TypeOK'
  <2>1. slot' \in Slot
    BY <1>2 DEF HostOffer, TypeOK, Slot
  <2>2. mishaps' \subseteq {"moved", "reset", "remeasured", "undone", "dequeued"}
    BY <1>2 DEF HostOffer, TypeOK
  <2> QED
    BY <1>2, <2>1, <2>2 DEF HostOffer, TypeOK
<1>3. ASSUME HostTake PROVE TypeOK'
  <2>1. slot' \in Slot
    BY <1>3 DEF HostTake, TypeOK, Slot
  <2>2. [answer |-> mem[slot.desc], qwords |-> slot.qwords]
          \in [answer : Answer, qwords : Lens \cup {0}]
    BY DEF TypeOK, Slot
  <2>3. taken' \in Seq([answer : Answer, qwords : Lens \cup {0}])
    BY <1>3, <2>2 DEF HostTake, TypeOK
  <2>4. mishaps' \subseteq {"moved", "reset", "remeasured", "undone", "dequeued"}
    BY <1>3 DEF HostTake, TypeOK
  <2> QED
    BY <1>3, <2>1, <2>3, <2>4 DEF HostTake, TypeOK
<1>4. ASSUME HostBoot PROVE TypeOK'
  BY <1>4 DEF HostBoot, TypeOK, Ctrl
<1>5. ASSUME HostReset PROVE TypeOK'
  <2>1. slot' \in Slot /\ ctrl' \in Ctrl
    BY <1>5 DEF HostReset, TypeOK, Slot, Ctrl
  <2>2. written' \in Seq(Request) /\ taken' \in Seq([answer : Answer, qwords : Lens \cup {0}])
    BY <1>5 DEF HostReset
  <2>3. mishaps' \subseteq {"moved", "reset", "remeasured", "undone", "dequeued"}
    BY <1>5 DEF HostReset
  <2> QED
    BY <1>5, <2>1, <2>2, <2>3 DEF HostReset, TypeOK
<1> QED
  BY <1>1, <1>2, <1>3, <1>4, <1>5 DEF Host

LEMMA DaemonKeepsType ==
  ASSUME TypeOK, Process \/ Restart
  PROVE  TypeOK'
<1>1. daemon.desc \in Descs /\ daemon.word \in Slot /\ daemon.polls \in 0..MaxPolls
      /\ daemon.req \in Request \cup {NoRequest}
      /\ Idle(daemon.desc) \in Daemon /\ Idle(daemon.desc).at = "poll"
  BY RequestType DEF TypeOK, Daemon
<1>2. queue # <<>> =>
        /\ Head(queue) \in Request
        /\ Tail(queue) \in Seq(Request) /\ Len(Tail(queue)) <= Slots
  BY ConstantsAssumption DEF TypeOK
<1>3. GiveUp => daemon' \in Daemon /\ daemon'.at = "poll"
  BY <1>1 DEF GiveUp
<1>4. CASE ReadSilent
  BY <1>4, <1>2 DEF ReadSilent, TypeOK
<1>5. CASE ReadRequest
  <2>1. daemon' \in Daemon /\ daemon'.req \in Request
    BY <1>5, <1>2 DEF ReadRequest, Response, TypeOK, Daemon
  <2> QED
    BY <1>5, <1>2, <2>1 DEF ReadRequest, TypeOK
<1>6. CASE Restart
  <2>1. queue' \in Seq(Request) /\ Len(queue') <= Slots
    BY <1>6, ConstantsAssumption DEF Restart, TypeOK
  <2> QED
    BY <1>6, <1>1, <2>1 DEF Restart, TypeOK
<1>7. CASE CheckGo
  <2>1. daemon' \in Daemon /\ daemon'.req = daemon.req /\ daemon.at = "write"
    BY <1>7 DEF CheckGo, TypeOK, Daemon
  <2> QED
    BY <1>7, <2>1 DEF CheckGo, TypeOK
<1>8. CASE WriteDropped
  BY <1>8, <1>3 DEF WriteDropped, StoreCtrl, TypeOK, Ctrl
<1>9. CASE Activate
  <2>1. daemon' \in Daemon /\ daemon'.req = daemon.req /\ ctrl' \in Ctrl
    BY <1>9 DEF Activate, StoreCtrl, TypeOK, Daemon, Ctrl
  <2> QED
    BY <1>9, <2>1 DEF Activate, StoreCtrl, TypeOK
<1>10. CASE LengthLoad
  <2>1. daemon' \in Daemon /\ daemon'.req = daemon.req
    BY <1>10 DEF LengthLoad, TypeOK, Daemon, Slot
  <2> QED
    BY <1>10, <2>1 DEF LengthLoad, TypeOK
<1>11. ASSUME NEW wide \in BOOLEAN, LengthStore(wide) PROVE TypeOK'
  <2>1. FreeSlot(daemon.desc) \in Slot
    BY <1>1, RequestType
  <2>2. daemon' \in Daemon /\ daemon'.req = daemon.req
    BY <1>11, <2>1 DEF LengthStore, TypeOK, Daemon
  <2>3. daemon.req.len \in Lens
    BY <1>11, RequestType DEF LengthStore, TypeOK
  <2>4. slot' \in Slot
    BY <1>11, <1>1, <2>3 DEF LengthStore, TypeOK, Slot
  <2>5. mishaps' \subseteq {"moved", "reset", "remeasured", "undone", "dequeued"}
    BY <1>11 DEF LengthStore, TypeOK
  <2> QED
    BY <1>11, <2>2, <2>4, <2>5 DEF LengthStore, TypeOK
<1>12. CASE LookEmpty
  <2>0. MaxPolls \in 0..MaxPolls
    BY ConstantsAssumption
  <2>1. daemon' \in Daemon /\ daemon'.req = daemon.req
    BY <1>12, <2>0 DEF LookEmpty, TypeOK, Daemon
  <2> QED
    BY <1>12, <2>1 DEF LookEmpty, TypeOK
<1>13. CASE PollEmpty
  <2>1. daemon.polls - 1 \in 0..MaxPolls
    BY <1>13, <1>1, ConstantsAssumption DEF PollEmpty
  <2>2. daemon' \in Daemon /\ daemon'.req = daemon.req
    BY <1>13, <2>1 DEF PollEmpty, TypeOK, Daemon
  <2> QED
    BY <1>13, <2>2 DEF PollEmpty, TypeOK
<1>14. CASE PollLast
  BY <1>14, <1>3 DEF PollLast, TypeOK
<1>15. CASE Refuse
  BY <1>15, <1>3 DEF Refuse, TypeOK
<1>16. CASE Copy
  <2>1. daemon' \in Daemon /\ daemon'.req = daemon.req /\ daemon.req \in Request
    BY <1>16 DEF Copy, TypeOK, Daemon
  <2>2. mem' \in [Descs -> Answer]
    BY <1>16, <1>1, <2>1, RequestType DEF Copy, TypeOK
  <2> QED
    BY <1>16, <2>1, <2>2 DEF Copy, TypeOK
<1>17. ASSUME NEW wide \in BOOLEAN, Publish(wide) PROVE TypeOK'
  <2>1. slot' \in Slot
    BY <1>17, <1>1 DEF Publish, TypeOK, Slot
  <2>2. written' \in Seq(Request)
    BY <1>17 DEF Publish, TypeOK
  <2> QED
    BY <1>17, <1>1, <2>1, <2>2 DEF Publish, TypeOK
<1>18. CASE EntryFound
  <2>1. 0 \in 0..MaxPolls
    BY ConstantsAssumption
  <2>2. daemon' \in Daemon /\ daemon'.req = daemon.req /\ daemon.at # "poll"
    BY <1>18, <2>1 DEF EntryFound, TypeOK, Daemon
  <2> QED
    BY <1>18, <2>2 DEF EntryFound, TypeOK
<1>19. CASE MarkLoad
  <2>1. daemon' \in Daemon /\ daemon'.req = daemon.req /\ daemon.at # "poll"
    BY <1>19 DEF MarkLoad, TypeOK, Daemon
  <2> QED
    BY <1>19, <2>1 DEF MarkLoad, TypeOK
<1> QED
  BY <1>4, <1>5, <1>6, <1>7, <1>8, <1>9, <1>10, <1>11, <1>12, <1>13, <1>14, <1>15, <1>16, <1>17,
     <1>18, <1>19 DEF Process, Write

-----------------------------------------------------------------------------
(* What the host sees.                                                       *)

(* The entry as an answer, or nothing. *)
LEMMA SeenUnchanged ==
  ASSUME UNCHANGED <<slot, mem, taken>>
  PROVE  Seen' = Seen
BY DEF Seen

(* A step of the host. *)
LEMMA HostKeeps ==
  ASSUME IInv, TypeOK', Host
  PROVE  IInv'
<1>1. ASSUME NEW len \in Lens, HostPost(len) PROVE IInv'
  <2>1. Seen' = Seen
    BY <1>1, SeenUnchanged DEF HostPost
  <2> QED
    BY <1>1, <2>1 DEF HostPost, IInv, SameDescriptor, Measured, Remeasured, FoundStays, CopiedWaits,
          DeliveredAsWritten, Looked
<1>2. ASSUME NEW d \in Descs, HostOffer(d) PROVE IInv'
  <2>1. /\ slot'.occupied /\ ~slot'.consumed /\ slot'.desc = d /\ slot'.qwords = slot.qwords
        /\ ~slot.occupied
    BY <1>2 DEF HostOffer, IInv, TypeOK, Slot
  <2>2. Seen = taken /\ Seen' = taken
    BY <1>2, <2>1 DEF HostOffer, Seen
  <2>3. mishaps \subseteq mishaps'
    BY <1>2 DEF HostOffer
  <2>4. DeliveredAsWritten'
    BY <1>2, <2>2, <2>3 DEF HostOffer, IInv, DeliveredAsWritten
  <2>5. SameDescriptor'
    <3>1. (daemon.at = "loaded" \/ Looked) /\ d # daemon.desc => "moved" \in mishaps'
      BY <1>2 DEF HostOffer, Looked, Writing
    <3> QED
      BY <1>2, <2>1, <3>1 DEF HostOffer, IInv, SameDescriptor, Looked
  <2>6. Measured' /\ Remeasured' /\ FoundStays' /\ CopiedWaits'
    BY <1>2, <2>1, <2>3
       DEF HostOffer, IInv, Measured, Remeasured, FoundStays, CopiedWaits, Looked
  <2> QED
    BY <2>4, <2>5, <2>6 DEF IInv
<1>3. ASSUME HostTake PROVE IInv'
  <2>1. /\ ~slot'.occupied /\ slot'.desc = slot.desc /\ slot'.qwords = slot.qwords
        /\ slot.occupied /\ slot.consumed
    BY <1>3 DEF HostTake, IInv, TypeOK, Slot
  <2>2. Seen' = Seen
    BY <1>3, <2>1 DEF HostTake, Seen
  <2>3. /\ mishaps \subseteq mishaps' /\ mishaps' \subseteq mishaps \cup {"dequeued"}
        /\ "dequeued" \in mishaps' <=> "dequeued" \in mishaps \/ daemon.at = "found"
    BY <1>3 DEF HostTake
  <2>5. DeliveredAsWritten'
    BY <1>3, <2>2, <2>3 DEF HostTake, IInv, DeliveredAsWritten
  <2>4. SameDescriptor' /\ Measured' /\ Remeasured' /\ FoundStays' /\ CopiedWaits'
    BY <1>3, <2>1, <2>3
       DEF HostTake, IInv, SameDescriptor, Measured, Remeasured, FoundStays, CopiedWaits, Looked
  <2> QED
    BY <2>4, <2>5 DEF IInv
<1>4. ASSUME HostBoot PROVE IInv'
  <2>1. Seen' = Seen
    BY <1>4, SeenUnchanged DEF HostBoot
  <2> QED
    BY <1>4, <2>1 DEF HostBoot, IInv, SameDescriptor, Measured, Remeasured, FoundStays, CopiedWaits,
          DeliveredAsWritten, Looked
<1>5. ASSUME HostReset PROVE IInv'
  <2>1. ~slot'.occupied /\ ~slot'.consumed /\ slot'.desc = slot.desc /\ slot'.qwords = slot.qwords
    BY <1>5 DEF HostReset, IInv, TypeOK, Slot
  <2>2. written' = <<>> /\ Seen' = <<>>
    BY <1>5, <2>1 DEF HostReset, Seen
  <2>3. DeliveredAsWritten'
    BY <2>2 DEF DeliveredAsWritten
  <2>4. (daemon.at = "loaded" \/ Looked => "reset" \in mishaps') /\ "dequeued" \notin mishaps'
    BY <1>5 DEF HostReset, Looked, Writing
  <2>5. SameDescriptor' /\ Measured' /\ Remeasured' /\ FoundStays' /\ CopiedWaits'
    BY <1>5, <2>1, <2>4
       DEF HostReset, IInv, SameDescriptor, Measured, Remeasured, FoundStays, CopiedWaits, Looked
  <2> QED
    BY <2>3, <2>5 DEF IInv
<1> QED
  BY <1>1, <1>2, <1>3, <1>4, <1>5 DEF Host

(* A step of the daemon outside an entry, or one that ends a write().        *)
LEMMA AwayKeeps ==
  ASSUME IInv, TypeOK', UNCHANGED <<slot, mem, written, taken, mishaps>>,
         daemon'.at \in {"poll", "write", "drop", "activate", "ready"}
  PROVE  IInv'
<1>1. Seen' = Seen
  BY SeenUnchanged
<1> QED
  BY <1>1 DEF IInv, SameDescriptor, Measured, Remeasured, FoundStays, CopiedWaits,
          DeliveredAsWritten, Looked

(* The host sees one answer more, which is of the length that the entry has. *)
LEMMA SeenGrows ==
  ASSUME IInv, TypeOK', NEW r \in Request,
         written' = Append(written, r),
         Seen = taken, Seen' = Append(taken, [answer |-> r, qwords |-> r.len]),
         mishaps' = mishaps
  PROVE  DeliveredAsWritten'
<1>1. written \in Seq(Request) /\ taken \in Seq([answer : Answer, qwords : Lens \cup {0}])
  BY DEF IInv, TypeOK
<1> DEFINE a == [answer |-> r, qwords |-> r.len]
<1>2. /\ Len(written') = Len(written) + 1
      /\ \A i \in 1..Len(written) : written'[i] = written[i]
      /\ written'[Len(written) + 1] = r
  BY <1>1
<1>3. a \in [answer : Answer, qwords : Lens \cup {0}]
  BY RequestType
<1>4. /\ Len(Seen') = Len(taken) + 1
      /\ \A i \in 1..Len(taken) : Seen'[i] = taken[i]
      /\ Seen'[Len(taken) + 1] = a
  BY <1>1, <1>3
<1>5. DOMAIN written' = 1..Len(written) + 1 /\ DOMAIN Seen' = 1..Len(taken) + 1
      /\ DOMAIN written = 1..Len(written) /\ DOMAIN taken = 1..Len(taken)
  BY <1>1, <1>3
<1>6. ASSUME mishaps \cap {"moved", "reset", "undone", "dequeued"} = {}
      PROVE  Len(Seen') = Len(written') /\ \A i \in DOMAIN written' : Seen'[i].answer = written'[i]
  <2>1. Len(taken) = Len(written) /\ \A i \in 1..Len(written) : taken[i].answer = written[i]
    BY <1>5, <1>6 DEF IInv, DeliveredAsWritten
  <2>2. ASSUME NEW i \in 1..Len(written) + 1 PROVE Seen'[i].answer = written'[i]
    <3>0. i = Len(written) + 1 \/ i \in 1..Len(written)
      BY <1>1
    <3>1. CASE i = Len(written) + 1
      BY <1>2, <1>4, <2>1, <3>1
    <3>2. CASE i \in 1..Len(written)
      BY <1>2, <1>4, <2>1, <3>2
    <3> QED
      BY <3>0, <3>1, <3>2
  <2> QED
    BY <1>2, <1>4, <1>5, <2>1, <2>2
<1>7. ASSUME mishaps \cap {"moved", "reset", "remeasured"} = {}
      PROVE  \A i \in DOMAIN Seen' : Seen'[i].qwords = Seen'[i].answer.len
  <2>1. \A i \in 1..Len(taken) : taken[i].qwords = taken[i].answer.len
    BY <1>5, <1>7 DEF IInv, DeliveredAsWritten
  <2>2. ASSUME NEW i \in 1..Len(taken) + 1 PROVE Seen'[i].qwords = Seen'[i].answer.len
    <3>1. CASE i = Len(taken) + 1
      BY <1>4, <3>1
    <3>2. CASE i \in 1..Len(taken)
      BY <1>4, <2>1, <3>2
    <3> QED
      BY <1>1, <3>1, <3>2
  <2> QED
    BY <1>5, <2>2
<1> QED
  BY <1>6, <1>7 DEF DeliveredAsWritten

LEMMA LengthStoreKeeps ==
  ASSUME IInv, TypeOK', NEW wide \in BOOLEAN, LengthStore(wide)
  PROVE  IInv'
<1> DEFINE old == IF wide THEN daemon.word ELSE slot
<1>1. old \in Slot /\ daemon.at = "loaded" /\ slot \in Slot
  BY DEF LengthStore, IInv, TypeOK, Daemon
<1>2. /\ slot'.occupied = old.occupied /\ slot'.consumed = old.consumed
      /\ slot'.desc = old.desc /\ slot'.qwords = daemon.req.len
  BY <1>1 DEF LengthStore, Slot
<1>3. /\ mishaps \subseteq mishaps'
      /\ slot'.consumed => "remeasured" \in mishaps'
      /\ wide /\ daemon.word # slot => "undone" \in mishaps'
  BY DEF LengthStore
<1>4. daemon'.at = "look" /\ daemon'.desc = daemon.desc /\ daemon'.req = daemon.req
  BY DEF LengthStore, IInv, TypeOK, Daemon
<1>5. SameDescriptor' /\ Measured' /\ Remeasured' /\ FoundStays' /\ CopiedWaits'
  <2>1. "dequeued" \in mishaps' => "dequeued" \in mishaps
    BY DEF LengthStore
  <2> QED
    BY <1>1, <1>2, <1>3, <1>4, <2>1
       DEF IInv, SameDescriptor, Measured, Remeasured, FoundStays, CopiedWaits, Looked
<1>6. ASSUME mishaps' \cap {"moved", "reset", "undone", "dequeued"} = {}
      PROVE  Len(Seen') = Len(written') /\ \A i \in DOMAIN written' : Seen'[i].answer = written'[i]
  <2>1. old = slot
    BY <1>3, <1>6
  <2>2. CASE slot.occupied /\ slot.consumed
    <3>1. Seen = Append(taken, [answer |-> mem[slot.desc], qwords |-> slot.qwords])
      BY <2>2 DEF Seen
    <3>2. Seen' = Append(taken, [answer |-> mem[slot.desc], qwords |-> slot'.qwords])
      BY <2>1, <2>2, <1>2 DEF Seen, LengthStore
    <3>3. taken \in Seq([answer : Answer, qwords : Lens \cup {0}]) /\ slot.qwords \in Lens \cup {0}
          /\ slot'.qwords \in Lens \cup {0} /\ mem[slot.desc] \in Answer
      BY DEF IInv, TypeOK, Slot
    <3>4. Len(Seen') = Len(Seen) /\ \A i \in 1..Len(Seen) : Seen'[i].answer = Seen[i].answer
      BY <3>1, <3>2, <3>3
    <3>5. Len(Seen) = Len(written) /\ \A i \in DOMAIN written : Seen[i].answer = written[i]
      BY <1>3, <1>6 DEF IInv, DeliveredAsWritten
    <3>6. DOMAIN written = 1..Len(written) /\ written' = written
      BY DEF IInv, TypeOK, LengthStore
    <3> QED
      BY <3>4, <3>5, <3>6
  <2>3. CASE ~(slot.occupied /\ slot.consumed)
    <3>1. Seen = taken /\ Seen' = taken /\ written' = written
      BY <2>1, <2>3, <1>2 DEF Seen, LengthStore
    <3> QED
      BY <3>1, <1>3, <1>6 DEF IInv, DeliveredAsWritten
  <2> QED
    BY <2>2, <2>3
<1>7. ASSUME mishaps' \cap {"moved", "reset", "remeasured"} = {}
      PROVE  \A i \in DOMAIN Seen' : Seen'[i].qwords = Seen'[i].answer.len
  <2>1. ~slot'.consumed
    BY <1>3, <1>7
  <2>2. Seen' = taken
    BY <2>1 DEF Seen, LengthStore
  <2>3. \A i \in DOMAIN Seen : Seen[i].qwords = Seen[i].answer.len
    BY <1>3, <1>7 DEF IInv, DeliveredAsWritten
  <2>4. \A i \in DOMAIN taken : i \in DOMAIN Seen /\ Seen[i] = taken[i]
    <3>1. taken \in Seq([answer : Answer, qwords : Lens \cup {0}])
          /\ [answer |-> mem[slot.desc], qwords |-> slot.qwords]
               \in [answer : Answer, qwords : Lens \cup {0}]
      BY DEF IInv, TypeOK, Slot
    <3> QED
      BY <3>1 DEF Seen
  <2> QED
    BY <2>2, <2>3, <2>4
<1> QED
  BY <1>5, <1>6, <1>7 DEF IInv, DeliveredAsWritten

LEMMA CopyKeeps ==
  ASSUME IInv, TypeOK', Copy
  PROVE  IInv'
<1>1. daemon'.at = "copied" /\ daemon'.desc = daemon.desc /\ daemon'.req = daemon.req /\ Looked
  BY DEF Copy, Looked, IInv, TypeOK, Daemon
<1>2. Seen' = Seen
  BY DEF Copy, Seen
<1>3. mem'[daemon.desc] = daemon.req /\ ~slot.consumed
      /\ (mishaps \cap {"reset", "dequeued"} = {} => slot.occupied)
  BY DEF Copy, IInv, TypeOK, Daemon, FoundStays
<1>4. DeliveredAsWritten'
  BY <1>2 DEF Copy, IInv, DeliveredAsWritten
<1> QED
  BY <1>1, <1>3, <1>4
     DEF Copy, IInv, SameDescriptor, Measured, Remeasured, FoundStays, CopiedWaits, Looked

LEMMA PublishKeeps ==
  ASSUME IInv, TypeOK', NEW wide \in BOOLEAN, Publish(wide)
  PROVE  IInv'
<1> DEFINE old == IF wide THEN daemon.word ELSE slot
<1>1. daemon.at = "marking" /\ daemon.req \in Request /\ daemon.desc \in Descs
      /\ daemon'.at = "poll" /\ Looked
  BY RequestType DEF Publish, IInv, TypeOK, Daemon, Looked
<1>2. slot' = [old EXCEPT !.consumed = TRUE, !.occupied = daemon.word.occupied] /\ old \in Slot
  BY DEF Publish, IInv, TypeOK, Daemon
<1>3. slot'.consumed /\ slot'.occupied = daemon.word.occupied /\ slot'.desc = old.desc
      /\ slot'.qwords = old.qwords
  BY <1>2 DEF Slot
<1>4. DeliveredAsWritten'
  <2>1. CASE mishaps \cap {"moved", "reset", "dequeued"} = {}
    <3>1. slot.occupied /\ ~slot.consumed /\ mem[slot.desc] = daemon.req
          /\ slot.qwords = daemon.req.len /\ daemon.word = slot
      BY <1>1, <2>1 DEF IInv, CopiedWaits, SameDescriptor, Measured, Looked
    <3>2. Seen = taken
      BY <3>1 DEF Seen
    <3>3. slot'.occupied /\ mem' = mem /\ taken' = taken /\ old = slot
      BY <1>3, <3>1 DEF Publish
    <3>4. Seen' = Append(taken, [answer |-> daemon.req, qwords |-> daemon.req.len])
      BY <1>3, <3>1, <3>3 DEF Seen
    <3>5. written' = Append(written, daemon.req) /\ mishaps' = mishaps
      BY DEF Publish
    <3> QED
      BY <1>1, <3>2, <3>4, <3>5, SeenGrows
  <2>2. CASE mishaps \cap {"moved", "reset", "dequeued"} # {}
    <3>1. mishaps \cap {"moved", "reset", "remeasured"} # {}
      BY <2>2 DEF IInv, Remeasured
    <3> QED
      BY <2>2, <3>1 DEF Publish, DeliveredAsWritten
  <2> QED
    BY <2>1, <2>2
<1>5. Remeasured'
  BY <1>1 DEF Publish, IInv, Remeasured, Looked
<1> QED
  BY <1>1, <1>4, <1>5 DEF IInv, SameDescriptor, Measured, FoundStays, CopiedWaits, Looked

(* A step of the daemon. *)
LEMMA DaemonKeeps ==
  ASSUME IInv, TypeOK', Process \/ Restart
  PROVE  IInv'
<1>0. daemon \in Daemon /\ daemon.desc \in Descs /\ \A d \in Descs : Idle(d).at = "poll"
  BY RequestType DEF IInv, TypeOK, Daemon
<1>1. CASE ReadSilent \/ ReadRequest \/ Restart \/ CheckGo \/ WriteDropped \/ Activate
           \/ PollLast \/ Refuse
  <2>1. UNCHANGED <<slot, mem, written, taken, mishaps>>
    BY <1>1 DEF ReadSilent, ReadRequest, Restart, CheckGo, WriteDropped, StoreCtrl, Activate,
                PollLast, Refuse
  <2>2. daemon'.at \in {"poll", "write", "drop", "activate", "ready"}
    BY <1>0, <1>1 DEF ReadSilent, ReadRequest, Restart, CheckGo, WriteDropped, Activate,
                PollLast, Refuse, GiveUp, Daemon
  <2> QED
    BY <2>1, <2>2, AwayKeeps
<1>2. CASE LengthLoad
  <2>1. Seen' = Seen
    BY <1>2, SeenUnchanged DEF LengthLoad
  <2>2. daemon'.at = "loaded" /\ daemon'.desc = slot.desc /\ daemon'.word.desc = slot.desc
    BY <1>0, <1>2 DEF LengthLoad, Daemon
  <2> QED
    BY <1>2, <2>1, <2>2
       DEF LengthLoad, IInv, SameDescriptor, Measured, Remeasured, FoundStays, CopiedWaits,
          DeliveredAsWritten, Looked
<1>3. ASSUME NEW wide \in BOOLEAN, LengthStore(wide) PROVE IInv'
  BY <1>3, LengthStoreKeeps
<1>4. CASE LookEmpty \/ PollEmpty
  <2>1. Seen' = Seen
    BY <1>4, SeenUnchanged DEF LookEmpty, PollEmpty
  <2>2. daemon'.at = "wait" /\ daemon'.desc = daemon.desc /\ daemon'.req = daemon.req /\ Looked
    BY <1>0, <1>4 DEF LookEmpty, PollEmpty, Daemon, Looked
  <2>3. UNCHANGED <<slot, mem, written, taken, mishaps>>
    BY <1>4 DEF LookEmpty, PollEmpty
  <2> QED
    BY <2>1, <2>2, <2>3
       DEF IInv, SameDescriptor, Measured, Remeasured, FoundStays, CopiedWaits,
          DeliveredAsWritten, Looked
<1>5. CASE Copy
  BY <1>5, CopyKeeps
<1>6. ASSUME NEW wide \in BOOLEAN, Publish(wide) PROVE IInv'
  BY <1>6, PublishKeeps
<1>7. CASE EntryFound \/ MarkLoad
  <2>1. Seen' = Seen
    BY <1>7, SeenUnchanged DEF EntryFound, MarkLoad
  <2>2. daemon'.desc = daemon.desc /\ daemon'.req = daemon.req /\ Looked
    BY <1>0, <1>7 DEF EntryFound, MarkLoad, Daemon, Looked
  <2>3. \/ daemon'.at = "found" /\ slot.occupied
        \/ daemon'.at = "marking" /\ daemon'.word = slot /\ daemon.at = "copied"
    BY <1>0, <1>7 DEF EntryFound, MarkLoad, Daemon
  <2>4. UNCHANGED <<slot, mem, written, taken, mishaps>>
    BY <1>7 DEF EntryFound, MarkLoad
  <2> QED
    BY <2>1, <2>2, <2>3, <2>4
       DEF IInv, SameDescriptor, Measured, Remeasured, FoundStays, CopiedWaits,
           DeliveredAsWritten, Looked
<1> QED
  BY <1>1, <1>2, <1>3, <1>4, <1>5, <1>6, <1>7 DEF Process, Write

LEMMA InitHolds == Init => IInv
<1> SUFFICES ASSUME Init PROVE IInv
  OBVIOUS
<1>1. TypeOK
  BY InitType
<1>2. daemon.at = "poll" /\ ~slot.occupied /\ written = <<>> /\ taken = <<>> /\ mishaps = {}
  BY DEF Init, Idle, FreeSlot
<1>3. Seen = <<>>
  BY <1>2 DEF Seen
<1> QED
  BY <1>1, <1>2, <1>3
     DEF IInv, SameDescriptor, Measured, Remeasured, FoundStays, CopiedWaits,
          DeliveredAsWritten, Looked

LEMMA StepHolds == IInv /\ [Next]_vars => IInv'
<1> SUFFICES ASSUME IInv, [Next]_vars PROVE IInv'
  OBVIOUS
<1>1. CASE Host
  BY <1>1, HostKeepsType, HostKeeps DEF IInv
<1>2. CASE Process \/ Restart
  BY <1>2, DaemonKeepsType, DaemonKeeps DEF IInv
<1>3. CASE UNCHANGED vars
  <2>1. TypeOK' /\ Seen' = Seen
    BY <1>3, SeenUnchanged DEF vars, IInv, TypeOK
  <2> QED
    BY <1>3, <2>1
       DEF vars, IInv, SameDescriptor, Measured, Remeasured, FoundStays, CopiedWaits,
          DeliveredAsWritten, Looked
<1> QED
  BY <1>1, <1>2, <1>3 DEF Next

-----------------------------------------------------------------------------
(* The results. *)

(* The inductive invariant of the response direction. *)
THEOREM Invariant == Spec => []IInv
<1> QED
  BY InitHolds, StepHolds, PTL DEF Spec

(* The state of the daemon, the entry and the history keep their types.      *)
THEOREM TypeCorrect == Spec => []TypeOK
<1>1. IInv => TypeOK
  BY DEF IInv
<1> QED
  BY <1>1, Invariant, PTL

(* The host gets the answers that were written, once, in order and of their  *)
(* length, but for the interferences that DeliveredAsWritten names.          *)
THEOREM AnswersDelivered == Spec => []DeliveredAsWritten
<1>1. IInv => DeliveredAsWritten
  BY DEF IInv
<1> QED
  BY <1>1, Invariant, PTL
=============================================================================

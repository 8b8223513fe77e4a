----------------------------- MODULE ChifProofs -----------------------------
(***************************************************************************)
(* Two components around the CHIF daemon: the driver's ring, which hands   *)
(* it the requests of the host (ChifQueue), and the map of I2C segments by *)
(* which it serves one kind of them (SegmentMap).  What holds of the first *)
(* for every number of slots, every FIFO and any number of packets, and of *)
(* the second for every ROM image, id, channel and request.                *)
(*                                                                         *)
(* Positions on the ring are computed with % in the code; Place is the     *)
(* same position by a comparison, and all that follows is linear.  The     *)
(* last part, on nothing being left out of the map, follows the walk over  *)
(* the offsets of a sound image.                                           *)
(***************************************************************************)
EXTENDS ChifQueue, SegmentMap, SequenceTheorems, WellFoundedInduction, TLAPS

-----------------------------------------------------------------------------
(* Positions. *)

(* The k-th slot from slot h on. *)
Place(h, k) == IF h + k < Slots THEN h + k ELSE h + k - Slots

(* A number below twice the divisor is reduced by at most one subtraction.   *)
LEMMA ModOnce ==
  ASSUME NEW n \in Nat \ {0}, NEW k \in Nat, k < n + n
  PROVE  k % n = IF k < n THEN k ELSE k - n
<1>1. k = n * (k \div n) + (k % n) /\ k % n \in 0..n-1 /\ k \div n \in Int
  BY Z3
<1> QED
  BY <1>1, Z3

LEMMA PlaceIsMod ==
  ASSUME NEW h \in 0..Slots-1, NEW k \in 0..Slots
  PROVE  (h + k) % Slots = Place(h, k)
<1>1. Slots \in Nat \ {0} /\ h + k \in Nat /\ h + k < Slots + Slots
  BY ConstantsAssumption
<1>2. (h + k) % Slots = IF h + k < Slots THEN h + k ELSE (h + k) - Slots
  BY <1>1, ModOnce
<1> QED
  BY <1>1, <1>2 DEF Place

LEMMA AfterIsPlace ==
  ASSUME NEW h \in 0..Slots-1
  PROVE  After(h) = Place(h, 1)
BY PlaceIsMod, ConstantsAssumption DEF After

(* Walking round the ring: a step from a place is the next place, and no two *)
(* of the places 0..Slots-1 are the same.                                    *)
LEMMA RingPlaces ==
  ASSUME NEW h \in 0..Slots-1
  PROVE  /\ \A k \in 0..Slots : Place(h, k) \in 0..Slots-1
         /\ \A k \in 0..Slots-1 : /\ Place(Place(h, k), 1) = Place(h, k+1)
                                  /\ Place(Place(h, 1), k) = Place(h, k+1)
         /\ \A k, j \in 0..Slots-1 : Place(h, k) = Place(h, j) => k = j
BY ConstantsAssumption DEF Place

-----------------------------------------------------------------------------
(* The invariant.                                                            *)

(* The size is loaded from a ring that has something on it. *)
LoadedSome == reader.at = "loaded" => reader.reg # 0

Copying == reader.at \in {"popped", "half"}

(* RingExact, and where the reader is on the ring: an interrupt in the       *)
(* window of size-- is the only thing that sets the count apart from the     *)
(* packets, and a reader that copies has just moved the head.                *)
RingFollows ==
  "raced" \notin mishaps =>
    /\ Popped <= Len(pushed)
    /\ ring.size = Len(pushed) - Popped
    /\ ring.tail = Place(ring.head, ring.size)
    /\ \A j \in 0..ring.size-1 : ring.slot[Place(ring.head, j)] = pushed[Popped + j + 1]
    /\ reader.at = "loaded" => reader.reg = ring.size
    /\ Copying => ring.head = After(reader.ptr)

(* What has been read, and the packet that is being copied. *)
ReadFollows ==
  mishaps = {} =>
    /\ \A j \in 1..Len(delivered) : delivered[j] = pushed[j]
    /\ Copying => ring.slot[reader.ptr] = pushed[Popped]
    /\ reader.at = "half" => reader.half = pushed[Popped]

QueueInv == TypeOK /\ LoadedSome /\ RingFollows /\ ReadFollows

LEMMA QueueInitHolds == Init => QueueInv
<1> SUFFICES ASSUME Init PROVE QueueInv
  OBVIOUS
<1>1. FreeEntry \in Entry \cup {FreeEntry} /\ ClearRing \in Ring /\ IdleReader \in Reader
  BY ConstantsAssumption DEF ClearRing, Ring, IdleReader, Reader
<1>2. fifo \in [Entries -> Entry \cup {FreeEntry}]
  BY <1>1 DEF Init
<1>3. pushed \in Seq(Packet) /\ delivered \in Seq(Packet \cup {Torn})
  BY EmptySeq DEF Init
<1>a. go \in BOOLEAN /\ doorbell \in BOOLEAN
  BY DEF Init
<1>b. posts \in 0..MaxPosts
  BY ConstantsAssumption DEF Init
<1>4. TypeOK
  BY <1>1, <1>2, <1>3, <1>a, <1>b DEF Init, TypeOK
<1>5. reader.at = "idle" /\ ring.size = 0 /\ ring.head = 0 /\ ring.tail = 0
      /\ pushed = <<>> /\ delivered = <<>>
  BY DEF Init, ClearRing, IdleReader
<1>6. Popped = 0 /\ ~Copying
  BY <1>5 DEF Popped, Copying
<1>7. Place(0, 0) = 0
  BY ConstantsAssumption DEF Place
<1>8. LoadedSome /\ RingFollows /\ ReadFollows
  BY <1>5, <1>6, <1>7 DEF LoadedSome, RingFollows, ReadFollows
<1> QED
  BY <1>4, <1>8 DEF QueueInv

(* A step that leaves ring, reader and history alone. *)
LEMMA RingUntouched ==
  ASSUME QueueInv, TypeOK', UNCHANGED <<ring, reader, pushed, delivered, mishaps>>
  PROVE  QueueInv'
<1>1. LoadedSome' /\ RingFollows' /\ ReadFollows'
  BY DEF QueueInv, LoadedSome, RingFollows, ReadFollows, Popped, Copying
<1> QED
  BY <1>1 DEF QueueInv

LEMMA HostKeeps ==
  ASSUME QueueInv, Host
  PROVE  QueueInv'
<1>1. ASSUME NEW i \in Entries, NEW seq \in SeqNums, NEW empty \in BOOLEAN,
             HostPost(i, seq, empty)
      PROVE  QueueInv'
  <2>1. posts + 1 \in 1..MaxPosts
    BY <1>1, ConstantsAssumption DEF QueueInv, TypeOK, HostPost
  <2> DEFINE e == [packet |-> posts + 1, seq |-> seq, empty |-> empty, consumed |-> FALSE]
  <2>2. e \in Entry
    BY <2>1 DEF Entry, Packet
  <2>3. fifo' = [fifo EXCEPT ![i] = e]
    BY <1>1 DEF HostPost
  <2>4. fifo' \in [Entries -> Entry \cup {FreeEntry}]
    BY <2>2, <2>3 DEF QueueInv, TypeOK
  <2>5. TypeOK'
    BY <1>1, <2>1, <2>4 DEF QueueInv, TypeOK, HostPost
  <2> QED
    BY <1>1, <2>5, RingUntouched DEF HostPost
<1>2. ASSUME HostBoot PROVE QueueInv'
  <2>1. TypeOK'
    BY <1>2 DEF QueueInv, TypeOK, HostBoot
  <2> QED
    BY <1>2, <2>1, RingUntouched DEF HostBoot
<1>3. ASSUME HostReset PROVE QueueInv'
  <2>1. TypeOK'
    BY <1>3 DEF QueueInv, TypeOK, HostReset
  <2> QED
    BY <1>3, <2>1, RingUntouched DEF HostReset
<1> QED
  BY <1>1, <1>2, <1>3 DEF Host

(* consumed set in an entry of the FIFO. *)
LEMMA ConsumedEntry ==
  ASSUME NEW e \in Entry \cup {FreeEntry}, NEW b \in BOOLEAN
  PROVE  [e EXCEPT !.consumed = @ \/ b] \in Entry \cup {FreeEntry}
         /\ [e EXCEPT !.consumed = TRUE] \in Entry \cup {FreeEntry}
<1>1. CASE e \in Entry
  BY <1>1 DEF Entry
<1>2. CASE e = FreeEntry
  <2> DEFINE Free == [packet : {0}, seq : {0}, empty : {FALSE}, consumed : {TRUE}]
  <2>1. FreeEntry \in Free
    BY DEF FreeEntry
  <2>2. \A x \in Free : [x EXCEPT !.consumed = TRUE] = x /\ (x.consumed \/ b) = TRUE
    OBVIOUS
  <2>3. \A x \in Free : [x EXCEPT !.consumed = @ \/ b] = [x EXCEPT !.consumed = TRUE]
    BY <2>2
  <2> QED
    BY <1>2, <2>1, <2>2, <2>3
<1> QED
  BY <1>1, <1>2

LEMMA TypesOfRing ==
  ASSUME TypeOK
  PROVE  /\ ring.head \in 0..Slots-1 /\ ring.tail \in 0..Slots-1 /\ ring.size \in 0..Slots
         /\ ring.slot \in [0..Slots-1 -> Packet \cup {0}]
         /\ reader.at \in {"idle", "opening", "loaded", "popped", "half"}
         /\ reader.reg \in 0..Slots /\ reader.ptr \in 0..Slots-1
         /\ reader.half \in Packet \cup {0}
         /\ Len(pushed) \in Nat /\ Len(delivered) \in Nat
         /\ Popped = (IF Copying THEN Len(delivered) + 1 ELSE Len(delivered))
         /\ Popped \in Nat
<1>1. ring \in Ring /\ reader \in Reader
  BY DEF TypeOK
<1>2. Len(pushed) \in Nat /\ Len(delivered) \in Nat
  BY LenProperties DEF TypeOK
<1>3. Popped = (IF Copying THEN Len(delivered) + 1 ELSE Len(delivered))
  BY <1>2 DEF Popped, Copying
<1> QED
  BY <1>1, <1>2, <1>3 DEF Ring, Reader

(* A packet put on the ring behind the others.  If the reader has loaded the *)
(* size, or copies from the slot that is filled, that is a mishap, and the   *)
(* invariant asks no more.                                                   *)
LEMMA PushKeeps ==
  ASSUME QueueInv, NEW p \in Packet, Push(p), UNCHANGED <<reader, delivered>>
  PROVE  /\ ring' \in Ring /\ pushed' \in Seq(Packet)
         /\ mishaps' \subseteq {"raced", "overrun", "wiped"}
         /\ LoadedSome' /\ RingFollows' /\ ReadFollows'
<1>1. CASE ring.size = Slots
  <2>1. UNCHANGED <<ring, reader, pushed, delivered, mishaps>>
    BY <1>1 DEF Push
  <2> QED
    BY <2>1 DEF QueueInv, TypeOK, LoadedSome, RingFollows, ReadFollows, Popped, Copying
<1>2. CASE ring.size # Slots
  <2> DEFINE h == ring.head
             m == ring.size
  <2>1. TypeOK /\ LoadedSome /\ RingFollows /\ ReadFollows
    BY DEF QueueInv
  <2>2. ring' = [ring EXCEPT !.slot[ring.tail] = p, !.tail = After(@), !.size = @ + 1]
    BY <1>2 DEF Push
  <2>3. pushed' = Append(pushed, p) /\ Mishap
    BY <1>2 DEF Push
  <2>4. /\ pushed' \in Seq(Packet) /\ Len(pushed') = Len(pushed) + 1
        /\ \A i \in 1..Len(pushed) : pushed'[i] = pushed[i]
        /\ pushed'[Len(pushed) + 1] = p
    BY <2>1, <2>3, AppendProperties DEF TypeOK
  <2>5. After(ring.tail) = Place(ring.tail, 1) /\ Place(ring.tail, 1) \in 0..Slots-1
    <3>1. Slots \in Nat \ {0} /\ ring.tail \in 0..Slots-1 /\ 1 \in 0..Slots
      BY <2>1, TypesOfRing, ConstantsAssumption
    <3> QED
      BY <3>1, AfterIsPlace, RingPlaces
  <2>6. m \in 0..Slots-1 /\ m + 1 \in 0..Slots
    BY <1>2, <2>1, TypesOfRing, ConstantsAssumption
  <2>7. /\ ring'.head = h /\ ring'.size = m + 1 /\ ring'.tail = Place(ring.tail, 1)
        /\ ring'.slot = [ring.slot EXCEPT ![ring.tail] = p]
    BY <2>1, <2>2, <2>5 DEF TypeOK, Ring
  <2>8. ring' \in Ring
    BY <2>1, <2>2, <2>5, <2>6 DEF TypeOK, Ring
  <2>9. mishaps' \subseteq {"raced", "overrun", "wiped"}
    BY <2>1, <2>3 DEF TypeOK, Mishap
  <2>10. /\ reader.at = "loaded" => "raced" \in mishaps'
         /\ "raced" \notin mishaps' => "raced" \notin mishaps
         /\ mishaps' = {} => mishaps = {} /\ ~(Copying /\ ring.tail = reader.ptr)
    BY <2>3 DEF Mishap, Copying
  <2>11. Popped' = Popped /\ Copying' = Copying /\ LoadedSome'
    BY <2>1 DEF Popped, Copying, LoadedSome
  <2>12. RingFollows'
    <3> SUFFICES ASSUME "raced" \notin mishaps'
                 PROVE  /\ Popped <= Len(pushed')
                        /\ ring'.size = Len(pushed') - Popped
                        /\ ring'.tail = Place(ring'.head, ring'.size)
                        /\ \A j \in 0..ring'.size-1 :
                             ring'.slot[Place(ring'.head, j)] = pushed'[Popped + j + 1]
                        /\ reader.at # "loaded"
                        /\ Copying => ring'.head = After(reader.ptr)
      BY <2>11 DEF RingFollows, Place
    <3>1. "raced" \notin mishaps /\ reader.at # "loaded"
      BY <2>10
    <3>2. /\ Popped <= Len(pushed) /\ m = Len(pushed) - Popped /\ ring.tail = Place(h, m)
          /\ \A j \in 0..m-1 : ring.slot[Place(h, j)] = pushed[Popped + j + 1]
          /\ Copying => h = After(reader.ptr)
      BY <2>1, <3>1 DEF RingFollows
    <3>3. h \in 0..Slots-1 /\ Len(pushed) \in Nat /\ Popped \in Nat
      BY <2>1, TypesOfRing
    <3>4. ring'.tail = Place(h, m + 1)
      BY <2>6, <2>7, <3>2, <3>3, RingPlaces
    <3>5. ASSUME NEW j \in 0..m
          PROVE  ring'.slot[Place(h, j)] = pushed'[Popped + j + 1]
      <4>1. Place(h, j) \in 0..Slots-1 /\ ring.slot \in [0..Slots-1 -> Packet \cup {0}]
        <5>1. j \in 0..Slots
          BY <2>6, ConstantsAssumption
        <5> QED
          BY <2>1, <3>3, <5>1, RingPlaces, TypesOfRing
      <4>2. CASE j = m
        <5>1. ring'.slot[Place(h, j)] = p
          BY <2>7, <3>2, <4>1, <4>2
        <5>2. Popped + j + 1 = Len(pushed) + 1
          BY <3>2, <3>3, <4>2
        <5> QED
          BY <2>4, <5>1, <5>2
      <4>3. CASE j # m
        <5>1. j \in 0..m-1 /\ j \in 0..Slots-1
          BY <2>6, <4>3, ConstantsAssumption
        <5>2. Place(h, j) # Place(h, m)
          BY <2>6, <3>3, <4>3, <5>1, RingPlaces
        <5>3. ring'.slot[Place(h, j)] = pushed[Popped + j + 1]
          BY <2>7, <3>2, <4>1, <5>1, <5>2
        <5>4. Popped + j + 1 \in 1..Len(pushed)
          BY <2>6, <3>2, <3>3, <5>1
        <5> QED
          BY <2>4, <5>3, <5>4
      <4> QED
        BY <4>2, <4>3
    <3> QED
      BY <2>4, <2>6, <2>7, <3>1, <3>2, <3>3, <3>4, <3>5
  <2>13. ReadFollows'
    <3> SUFFICES ASSUME mishaps' = {}
                 PROVE  /\ \A j \in 1..Len(delivered) : delivered[j] = pushed'[j]
                        /\ Copying => ring'.slot[reader.ptr] = pushed'[Popped]
                        /\ reader.at = "half" => reader.half = pushed'[Popped]
      BY <2>11 DEF ReadFollows
    <3>1. mishaps = {} /\ "raced" \notin mishaps /\ (Copying => ring.tail # reader.ptr)
      BY <2>10
    <3>2. /\ Popped <= Len(pushed)
          /\ \A j \in 1..Len(delivered) : delivered[j] = pushed[j]
          /\ Copying => ring.slot[reader.ptr] = pushed[Popped]
          /\ reader.at = "half" => reader.half = pushed[Popped]
      BY <2>1, <3>1 DEF RingFollows, ReadFollows
    <3>3. /\ Len(pushed) \in Nat /\ Len(delivered) \in Nat
          /\ Popped = (IF Copying THEN Len(delivered) + 1 ELSE Len(delivered))
          /\ ring.slot \in [0..Slots-1 -> Packet \cup {0}] /\ reader.ptr \in 0..Slots-1
      BY <2>1, TypesOfRing
    <3>4. \A j \in 1..Len(delivered) : j \in 1..Len(pushed)
      BY <3>2, <3>3
    <3>5. Copying => Popped \in 1..Len(pushed)
      BY <3>2, <3>3
    <3>6. Copying => ring'.slot[reader.ptr] = ring.slot[reader.ptr]
      BY <2>7, <3>1, <3>3
    <3>7. reader.at = "half" => Copying
      BY DEF Copying
    <3> QED
      BY <2>4, <3>2, <3>4, <3>5, <3>6, <3>7
  <2> QED
    BY <2>4, <2>8, <2>9, <2>11, <2>12, <2>13
<1> QED
  BY <1>1, <1>2

LEMMA IrqKeeps ==
  ASSUME QueueInv, Irq
  PROVE  QueueInv'
<1>1. ASSUME IrqAck PROVE QueueInv'
  <2>1. TypeOK'
    BY <1>1 DEF QueueInv, TypeOK, IrqAck
  <2> QED
    BY <1>1, <2>1, RingUntouched DEF IrqAck
<1>2. ASSUME IrqScan PROVE QueueInv'
  <2> DEFINE Kept(e) == e \in Entry \cup {FreeEntry}
  <2>0. /\ \A e \in Entry : e.empty \in BOOLEAN
        /\ FreeEntry.empty \in BOOLEAN
    BY DEF Entry, FreeEntry
  <2>1. \A i \in Entries : Kept(fifo[i]) /\ fifo[i].empty \in BOOLEAN
    BY <2>0 DEF QueueInv, TypeOK
  <2>2. \A i \in Entries :
          [fifo[i] EXCEPT !.consumed = @ \/ fifo[i].empty] \in Entry \cup {FreeEntry}
    BY <2>1, ConsumedEntry
  <2>3. fifo' \in [Entries -> Entry \cup {FreeEntry}]
    BY <1>2, <2>2 DEF IrqScan, QueueInv, TypeOK
  <2>4. irq' \in {"off", "acked", "taking"}
    BY <1>2 DEF IrqScan
  <2>5. TypeOK'
    BY <1>2, <2>3, <2>4 DEF QueueInv, TypeOK, IrqScan
  <2> QED
    BY <1>2, <2>5, RingUntouched DEF IrqScan
<1>3. ASSUME NEW i \in Entries, IrqTake(i) PROVE QueueInv'
  <2>1. fifo[i] \in Entry
    BY <1>3 DEF IrqTake, Chosen, Waiting, QueueInv, TypeOK, FreeEntry
  <2>2. fifo[i].packet \in Packet
    BY <2>1 DEF Entry
  <2>3. /\ ring' \in Ring /\ pushed' \in Seq(Packet)
        /\ mishaps' \subseteq {"raced", "overrun", "wiped"}
        /\ LoadedSome' /\ RingFollows' /\ ReadFollows'
    BY <1>3, <2>2, PushKeeps DEF IrqTake
  <2>4. [fifo[i] EXCEPT !.consumed = TRUE] \in Entry \cup {FreeEntry}
    BY <2>1, ConsumedEntry
  <2>5. fifo' \in [Entries -> Entry \cup {FreeEntry}]
    BY <1>3, <2>4 DEF IrqTake, QueueInv, TypeOK
  <2>6. TypeOK'
    BY <1>3, <2>3, <2>5 DEF IrqTake, QueueInv, TypeOK
  <2> QED
    BY <2>3, <2>6 DEF QueueInv
<1>4. ASSUME IrqDone PROVE QueueInv'
  <2>1. TypeOK'
    BY <1>4 DEF QueueInv, TypeOK, IrqDone
  <2> QED
    BY <1>4, <2>1, RingUntouched DEF IrqDone
<1> QED
  BY <1>1, <1>2, <1>3, <1>4 DEF Irq

LEMMA PopLoadKeeps ==
  ASSUME QueueInv, PopLoad
  PROVE  QueueInv'
<1>1. TypeOK /\ RingFollows /\ ReadFollows
  BY DEF QueueInv
<1>2. /\ ring.size \in 0..Slots /\ ring.size # 0
      /\ reader' = [reader EXCEPT !.at = "loaded", !.reg = ring.size]
      /\ reader.at = "idle"
  BY <1>1, TypesOfRing DEF PopLoad
<1>3. /\ reader' \in Reader /\ reader'.at = "loaded" /\ reader'.reg = ring.size
  BY <1>1, <1>2 DEF TypeOK, Reader
<1>4. UNCHANGED <<ring, pushed, delivered, mishaps>>
  BY DEF PopLoad
<1>5. Popped' = Popped /\ ~Copying'
  BY <1>2, <1>3, <1>4 DEF Popped, Copying
<1>6. TypeOK'
  BY <1>1, <1>3 DEF TypeOK, PopLoad
<1>7. LoadedSome' /\ RingFollows' /\ ReadFollows'
  BY <1>1, <1>2, <1>3, <1>4, <1>5 DEF LoadedSome, RingFollows, ReadFollows
<1> QED
  BY <1>6, <1>7 DEF QueueInv

(* The packet taken off is the first on the ring, and the head has moved     *)
(* behind it.                                                                *)
LEMMA PopStoreKeeps ==
  ASSUME QueueInv, PopStore
  PROVE  QueueInv'
<1> DEFINE h == ring.head
           m == ring.size
<1>1. TypeOK /\ LoadedSome /\ RingFollows /\ ReadFollows
  BY DEF QueueInv
<1>2. /\ reader.at = "loaded" /\ reader.reg \in 1..Slots /\ h \in 0..Slots-1
      /\ Len(pushed) \in Nat /\ Len(delivered) \in Nat
      /\ Slots \in Nat \ {0}
  BY <1>1, TypesOfRing, ConstantsAssumption DEF PopStore, LoadedSome
<1>3. After(h) = Place(h, 1) /\ Place(h, 1) \in 0..Slots-1 /\ Place(h, 0) = h
  BY <1>2, AfterIsPlace, RingPlaces DEF Place
<1>4. /\ ring' = [ring EXCEPT !.size = reader.reg - 1, !.head = After(@)]
      /\ reader' = [reader EXCEPT !.at = "popped", !.ptr = h]
      /\ UNCHANGED <<pushed, delivered, mishaps>>
  BY DEF PopStore
<1>5. /\ ring' \in Ring /\ ring'.head = Place(h, 1) /\ ring'.size = reader.reg - 1
      /\ ring'.tail = ring.tail /\ ring'.slot = ring.slot
  <2>1. ring' = [ring EXCEPT !.size = reader.reg - 1, !.head = Place(h, 1)]
    BY <1>3, <1>4
  <2>2. reader.reg - 1 \in 0..Slots /\ Place(h, 1) \in 0..Slots-1 /\ ring \in Ring
    BY <1>1, <1>2, <1>3 DEF TypeOK
  <2> QED
    BY <2>1, <2>2 DEF Ring
<1>6. reader' \in Reader /\ reader'.at = "popped" /\ reader'.ptr = h
  BY <1>1, <1>2, <1>4 DEF TypeOK, Reader
<1>7. TypeOK'
  BY <1>1, <1>5, <1>6 DEF TypeOK, PopStore
<1>8. Popped = Len(delivered) /\ Popped' = Popped + 1 /\ Copying' /\ LoadedSome'
  BY <1>2, <1>4, <1>6 DEF Popped, Copying, LoadedSome
<1>9. ASSUME "raced" \notin mishaps
      PROVE  /\ m = reader.reg /\ m \in 1..Slots
             /\ m = Len(pushed) - Popped
             /\ ring.tail = Place(h, m)
             /\ \A j \in 0..m-1 : ring.slot[Place(h, j)] = pushed[Popped + j + 1]
  BY <1>1, <1>2, <1>9 DEF RingFollows
<1>10. RingFollows'
  <2> SUFFICES ASSUME "raced" \notin mishaps
               PROVE  /\ Popped + 1 <= Len(pushed)
                      /\ m - 1 = Len(pushed) - (Popped + 1)
                      /\ ring.tail = Place(Place(h, 1), m - 1)
                      /\ \A j \in 0..m-2 : ring.slot[Place(Place(h, 1), j)]
                                             = pushed[(Popped + 1) + j + 1]
    BY <1>3, <1>4, <1>5, <1>6, <1>8, <1>9 DEF RingFollows, Copying
  <2>1. m - 1 \in 0..Slots-1 /\ \A j \in 0..m-2 : j \in 0..Slots-1 /\ j + 1 \in 0..m-1
    BY <1>2, <1>9
  <2>2. ring.tail = Place(Place(h, 1), m - 1)
    <3> DEFINE b == m - 1
    <3>1. b \in 0..Slots-1 /\ b + 1 = m
      BY <1>2, <1>9
    <3> HIDE DEF b
    <3>2. Place(Place(h, 1), b) = Place(h, b + 1)
      BY <1>2, <3>1, RingPlaces
    <3>3. ring.tail = Place(Place(h, 1), b)
      BY <1>9, <3>1, <3>2
    <3> QED
      BY <3>3 DEF b
  <2>3. ASSUME NEW j \in 0..m-2
        PROVE  ring.slot[Place(Place(h, 1), j)] = pushed[(Popped + 1) + j + 1]
    <3>1. Place(Place(h, 1), j) = Place(h, j + 1)
      BY <1>2, <2>1, RingPlaces
    <3>2. Popped + (j + 1) + 1 = (Popped + 1) + j + 1
      BY <1>2, <1>8, <2>1
    <3> QED
      BY <1>9, <2>1, <3>1, <3>2
  <2> QED
    BY <1>2, <1>8, <1>9, <2>2, <2>3
<1>11. ReadFollows'
  <2> SUFFICES ASSUME mishaps = {}
               PROVE  /\ \A j \in 1..Len(delivered) : delivered[j] = pushed[j]
                      /\ ring.slot[h] = pushed[Popped + 1]
    BY <1>4, <1>5, <1>6, <1>8 DEF ReadFollows
  <2>1. 0 \in 0..m-1 /\ ring.slot[Place(h, 0)] = pushed[Popped + 0 + 1]
    BY <1>2, <1>9
  <2> QED
    BY <1>1, <1>2, <1>3, <1>8, <2>1 DEF ReadFollows
<1> QED
  BY <1>7, <1>8, <1>10, <1>11 DEF QueueInv

LEMMA CopyFirstKeeps ==
  ASSUME QueueInv, CopyFirst
  PROVE  QueueInv'
<1>1. TypeOK /\ RingFollows /\ ReadFollows
  BY DEF QueueInv
<1>2. /\ reader.at = "popped"
      /\ reader' = [reader EXCEPT !.at = "half", !.half = ring.slot[reader.ptr]]
      /\ UNCHANGED <<ring, pushed, delivered, mishaps>>
      /\ ring.slot[reader.ptr] \in Packet \cup {0}
  BY <1>1, TypesOfRing DEF CopyFirst
<1>3. /\ reader' \in Reader /\ reader'.at = "half" /\ reader'.ptr = reader.ptr
      /\ reader'.half = ring.slot[reader.ptr]
  BY <1>1, <1>2 DEF TypeOK, Reader
<1>4. Popped' = Popped /\ Copying /\ Copying'
  BY <1>2, <1>3 DEF Popped, Copying
<1>5. TypeOK'
  BY <1>1, <1>3 DEF TypeOK, CopyFirst
<1>6. LoadedSome' /\ RingFollows' /\ ReadFollows'
  BY <1>1, <1>2, <1>3, <1>4 DEF LoadedSome, RingFollows, ReadFollows
<1> QED
  BY <1>5, <1>6 DEF QueueInv

(* Both halves came from the same packet unless the slot was filled again.   *)
LEMMA CopyLastKeeps ==
  ASSUME QueueInv, CopyLast
  PROVE  QueueInv'
<1> DEFINE d == IF ring.slot[reader.ptr] = reader.half THEN reader.half ELSE Torn
<1>1. TypeOK /\ RingFollows /\ ReadFollows
  BY DEF QueueInv
<1>2. /\ reader.at = "half" /\ Copying
      /\ delivered' = Append(delivered, d) /\ reader' = IdleReader
      /\ UNCHANGED <<ring, pushed, mishaps>>
  BY DEF CopyLast, Copying
<1>3. d \in Packet \cup {Torn}
  BY <1>1, TypesOfRing DEF Torn
<1>4. /\ delivered' \in Seq(Packet \cup {Torn}) /\ Len(delivered') = Len(delivered) + 1
      /\ \A j \in 1..Len(delivered) : delivered'[j] = delivered[j]
      /\ delivered'[Len(delivered) + 1] = d
  BY <1>1, <1>2, <1>3, AppendProperties DEF TypeOK
<1>5. IdleReader \in Reader /\ IdleReader.at = "idle"
  BY ConstantsAssumption DEF IdleReader, Reader
<1>6. TypeOK'
  BY <1>1, <1>2, <1>4, <1>5 DEF TypeOK, CopyLast
<1>7. Len(delivered) \in Nat /\ Popped = Len(delivered) + 1
  BY <1>1, <1>2, TypesOfRing
<1>8. Popped' = Popped /\ ~Copying' /\ LoadedSome'
  BY <1>2, <1>4, <1>5, <1>7 DEF Popped, Copying, LoadedSome
<1>9. RingFollows'
  BY <1>1, <1>2, <1>5, <1>8 DEF RingFollows
<1>10. ReadFollows'
  <2> SUFFICES ASSUME mishaps = {}
               PROVE  \A j \in 1..Len(delivered') : delivered'[j] = pushed[j]
    BY <1>2, <1>5, <1>8 DEF ReadFollows
  <2>1. d = pushed[Len(delivered) + 1]
    BY <1>1, <1>2, <1>7 DEF ReadFollows
  <2>2. \A j \in 1..Len(delivered) : delivered[j] = pushed[j]
    BY <1>1 DEF ReadFollows
  <2> QED
    BY <1>4, <1>7, <2>1, <2>2
<1> QED
  BY <1>6, <1>8, <1>9, <1>10 DEF QueueInv

LEMMA OpenKeeps ==
  ASSUME QueueInv, OpenCheck \/ OpenClear
  PROVE  QueueInv'
<1>1. CASE OpenCheck
  <2>1. TypeOK /\ RingFollows /\ ReadFollows
    BY DEF QueueInv
  <2>2. /\ reader' = [reader EXCEPT !.at = "opening"] /\ reader.at = "idle"
        /\ UNCHANGED <<ring, pushed, delivered, mishaps>>
    BY <1>1 DEF OpenCheck
  <2>3. reader' \in Reader /\ reader'.at = "opening"
    BY <2>1, <2>2 DEF TypeOK, Reader
  <2>4. TypeOK'
    BY <1>1, <2>1, <2>3 DEF TypeOK, OpenCheck
  <2>5. Popped' = Popped /\ ~Copying'
    BY <2>2, <2>3 DEF Popped, Copying
  <2>6. LoadedSome' /\ RingFollows' /\ ReadFollows'
    BY <2>1, <2>2, <2>3, <2>5 DEF LoadedSome, RingFollows, ReadFollows
  <2> QED
    BY <2>4, <2>6 DEF QueueInv
<1>2. CASE OpenClear
  <2>1. /\ ring' = ClearRing /\ reader' = IdleReader
        /\ pushed' = <<>> /\ delivered' = <<>>
        /\ mishaps' \subseteq mishaps \cup {"wiped"}
    BY <1>2 DEF OpenClear
  <2>2. ClearRing \in Ring /\ IdleReader \in Reader
    BY ConstantsAssumption DEF ClearRing, Ring, IdleReader, Reader
  <2>3. pushed' \in Seq(Packet) /\ delivered' \in Seq(Packet \cup {Torn})
    BY <2>1, EmptySeq
  <2>4. mishaps' \subseteq {"raced", "overrun", "wiped"}
    BY <2>1 DEF QueueInv, TypeOK
  <2>5. TypeOK'
    BY <1>2, <2>1, <2>2, <2>3, <2>4 DEF QueueInv, TypeOK, OpenClear
  <2>6. reader'.at = "idle" /\ ring'.size = 0 /\ ring'.head = 0 /\ ring'.tail = 0
        /\ Len(pushed') = 0 /\ Len(delivered') = 0
    BY <2>1 DEF ClearRing, IdleReader
  <2>7. Popped' = 0 /\ ~Copying'
    BY <2>6 DEF Popped, Copying
  <2>8. Place(0, 0) = 0
    BY ConstantsAssumption DEF Place
  <2>9. LoadedSome' /\ RingFollows' /\ ReadFollows'
    BY <2>6, <2>7, <2>8 DEF LoadedSome, RingFollows, ReadFollows
  <2> QED
    BY <2>5, <2>9 DEF QueueInv
<1> QED
  BY <1>1, <1>2

LEMMA NextKeeps == QueueInv /\ [Next]_vars => QueueInv'
<1> SUFFICES ASSUME QueueInv, [Next]_vars PROVE QueueInv'
  OBVIOUS
<1>1. CASE Host
  BY <1>1, HostKeeps
<1>2. CASE Irq
  BY <1>2, IrqKeeps
<1>3. CASE Read
  BY <1>3, PopLoadKeeps, PopStoreKeeps, CopyFirstKeeps, CopyLastKeeps DEF Read
<1>4. CASE OpenCheck \/ OpenClear
  BY <1>4, OpenKeeps
<1>5. CASE UNCHANGED vars
  <2>1. TypeOK'
    BY <1>5 DEF vars, QueueInv, TypeOK
  <2> QED
    BY <1>5, <2>1, RingUntouched DEF vars
<1> QED
  BY <1>1, <1>2, <1>3, <1>4, <1>5 DEF Next

-----------------------------------------------------------------------------
(* The theorems.                                                             *)

(* The ring, the reader and the history stay together, whatever the host     *)
(* posts and wherever the interrupt falls in read().                         *)
THEOREM QueueInvariant == Spec => []QueueInv
<1> QED
  BY QueueInitHolds, NextKeeps, PTL DEF Spec

(* Every variable keeps its type: head and tail stay on the ring and the     *)
(* count between 0 and its length, even after a lost update.                 *)
THEOREM QueueTypeCorrect == Spec => []TypeOK
<1>1. QueueInv => TypeOK
  BY DEF QueueInv
<1> QED
  BY <1>1, QueueInvariant, PTL

(* As long as no interrupt has fallen into size--, the ring holds exactly    *)
(* what was pushed and not popped, in order.                                 *)
THEOREM RingIsExact == Spec => []RingExact
<1>1. QueueInv => RingExact
  <2> SUFFICES ASSUME QueueInv, "raced" \notin mishaps
               PROVE  /\ ring.size = Len(pushed) - Popped
                      /\ ring.tail = (ring.head + ring.size) % Slots
                      /\ \A j \in 0..ring.size-1 :
                           ring.slot[(ring.head + j) % Slots] = pushed[Popped + j + 1]
    BY DEF RingExact
  <2>1. TypeOK /\ RingFollows
    BY DEF QueueInv
  <2>2. ring.head \in 0..Slots-1 /\ ring.size \in 0..Slots
    BY <2>1, TypesOfRing
  <2>3. \A j \in 0..ring.size-1 : j \in 0..Slots
    BY <2>2, ConstantsAssumption
  <2>4. /\ (ring.head + ring.size) % Slots = Place(ring.head, ring.size)
        /\ \A j \in 0..ring.size-1 : (ring.head + j) % Slots = Place(ring.head, j)
    BY <2>2, <2>3, PlaceIsMod
  <2> QED
    BY <2>1, <2>4 DEF RingFollows
<1> QED
  BY <1>1, QueueInvariant, PTL

(* Without a mishap, what the daemon has read is the front part of what was  *)
(* pushed: whole, once and in order.                                         *)
THEOREM ReadsInOrder == Spec => []ReadsAreFifo
<1>1. QueueInv => ReadsAreFifo
  <2> SUFFICES ASSUME QueueInv, mishaps = {}
               PROVE  delivered = SubSeq(pushed, 1, Len(delivered))
    BY DEF ReadsAreFifo
  <2> DEFINE k == Len(delivered)
  <2>1. TypeOK /\ RingFollows /\ ReadFollows
    BY DEF QueueInv
  <2>2. k \in Nat /\ Len(pushed) \in Nat /\ k <= Len(pushed)
    BY <2>1, TypesOfRing DEF RingFollows
  <2>3. \A i \in 1..k : pushed[i] \in Packet \cup {Torn}
    BY <2>1, <2>2, ElementOfSeq DEF TypeOK
  <2>4. /\ SubSeq(pushed, 1, k) \in Seq(Packet \cup {Torn})
        /\ Len(SubSeq(pushed, 1, k)) = k
        /\ \A i \in 1..k : SubSeq(pushed, 1, k)[i] = pushed[i]
    BY <2>2, <2>3, SubSeqProperties
  <2>5. \A i \in 1..k : delivered[i] = pushed[i]
    BY <2>1 DEF ReadFollows
  <2>6. delivered \in Seq(Packet \cup {Torn})
    BY <2>1 DEF TypeOK
  <2> QED
    BY <2>4, <2>5, <2>6, SeqEqual
<1> QED
  BY <1>1, QueueInvariant, PTL

(* The slot under the reader is filled again only by the packet that fills   *)
(* the ring: with one slot to spare, a copy is never torn.                   *)
THEOREM OverrunNeedsFullRing == Spec => OverrunOnlyWhenFull
<1> DEFINE A == "overrun" \notin mishaps /\ "overrun" \in mishaps' /\ "raced" \notin mishaps
                  => ring'.size = Slots
<1>1. QueueInv /\ [Next]_vars => [A]_vars
  <2> SUFFICES ASSUME QueueInv, Next, "overrun" \notin mishaps, "overrun" \in mishaps',
                      "raced" \notin mishaps
               PROVE  ring'.size = Slots
    OBVIOUS
  <2>1. PICK i \in Entries : IrqTake(i)
    BY DEF Next, Host, HostPost, HostBoot, HostReset, Irq, IrqAck, IrqScan, IrqDone,
           Read, PopLoad, PopStore, CopyFirst, CopyLast, OpenCheck, OpenClear
  <2>2. Push(fifo[i].packet) /\ ring.size # Slots
    BY <2>1 DEF IrqTake, Push
  <2>3. Mishap /\ ring'.size = ring.size + 1
    BY <2>2 DEF Push, QueueInv, TypeOK, Ring
  <2>4. Copying /\ ring.tail = reader.ptr
    BY <2>3 DEF Mishap, Copying
  <2>5. TypeOK /\ RingFollows
    BY DEF QueueInv
  <2>6. /\ reader.ptr \in 0..Slots-1 /\ ring.size \in 0..Slots-1 /\ Slots \in Nat \ {0}
    BY <2>2, <2>5, TypesOfRing, ConstantsAssumption
  <2>7. ring.head = Place(reader.ptr, 1) /\ ring.tail = Place(ring.head, ring.size)
    BY <2>4, <2>5, <2>6, AfterIsPlace DEF RingFollows
  <2>8. Place(reader.ptr, ring.size + 1) = reader.ptr
    <3>1. Place(Place(reader.ptr, 1), ring.size) = Place(reader.ptr, ring.size + 1)
      BY <2>6, RingPlaces
    <3> QED
      BY <2>4, <2>7, <3>1
  <2>9. ring.size + 1 = Slots
    BY <2>6, <2>8 DEF Place
  <2> QED
    BY <2>3, <2>9
<1> QED
  BY <1>1, QueueInvariant, PTL DEF Spec, OverrunOnlyWhenFull
-----------------------------------------------------------------------------
(* The I2C segments. *)

WalkType(w) == DOMAIN w = DOMAIN StartWalk

LoaderType ==
  /\ DOMAIN daemon = {"at", "id", "walk", "offset", "matched", "failed"}
  /\ WalkType(daemon.walk)
  /\ rom \in DOMAIN Images /\ published \subseteq Ids /\ bound \subseteq Channels

(* A definition is looked for with the id of the board. *)
OwnId == daemon.at \in {"open", "walk"} => daemon.id \in Board

(* A walk is among the files of a volume of the image, and has found one of  *)
(* the name that it looks for.                                               *)
FoundIn(w, img) ==
  /\ w.at = "files" => w.fv \in DOMAIN img.volumes
  /\ w.found => /\ w.at = "done" /\ w.fv \in DOMAIN img.volumes
                /\ w.file \in DOMAIN img.volumes[w.fv].files
                /\ IsCarrier(img.volumes[w.fv].files[w.file])

InImage == daemon.at = "walk" => FoundIn(daemon.walk, image)

(* Each bus in the map is that of a channel that a definition for the board  *)
(* names.                                                                    *)
Backed(segment, bus) ==
  \E id \in Board, c \in Channels :
    Defined(id, segment, c) /\ BusOf(c) = bus

MapBacked == \A s \in DOMAIN map : Backed(s, map[s])

SegmentInv == LoaderType /\ OwnId /\ InImage /\ MapBacked /\ RightBus

-----------------------------------------------------------------------------
(* The definition. *)

(* The first and the last of some numbers. *)
LEMMA Least ==
  ASSUME NEW S \in SUBSET Nat, S # {}
  PROVE  \E m \in S : \A x \in S : m <= x
<1>1. PICK m \in S : \A y \in S : ~ (<<y, m>> \in OpToRel(<, Nat))
  BY NatLessThanWellFounded, WFMin
<1>2. \A y \in S : ~ (y < m)
  BY <1>1 DEF OpToRel
<1> QED
  BY <1>2


LEMMA MinOf ==
  ASSUME NEW S \in SUBSET Nat, S # {}
  PROVE  Min(S) \in S /\ \A x \in S : Min(S) <= x
<1>1. PICK m \in S : \A x \in S : m <= x
  BY Least
<1> QED
  BY <1>1 DEF Min


LEMMA Greatest ==
  ASSUME NEW S \in SUBSET Nat, S # {}, NEW n \in Nat, \A x \in S : x <= n
  PROVE  \E m \in S : \A x \in S : x <= m
<1> DEFINE T == {k \in Nat : \A x \in S : x <= k}
<1>1. T \in SUBSET Nat /\ T # {}
  OBVIOUS
<1> HIDE DEF T
<1>2. PICK m \in T : \A k \in T : m <= k
  BY <1>1, Least
<1>3. m \in Nat /\ \A x \in S : x <= m
  BY <1>2 DEF T
<1>4. m \in S
  <2> SUFFICES ASSUME m \notin S PROVE FALSE
    OBVIOUS
  <2>1. PICK x \in S : TRUE
    OBVIOUS
  <2>2. \A y \in S : y <= m - 1
    BY <1>3
  <2>3. m - 1 \in Nat
    BY <1>3, <2>1, <2>2
  <2>4. m - 1 \in T
    BY <2>2, <2>3 DEF T
  <2> QED
    BY <1>2, <1>3, <2>4
<1> QED
  BY <1>3, <1>4


LEMMA Induct ==
  ASSUME NEW T, 0 \in T, \A n \in Nat : n \in T => n + 1 \in T
  PROVE  Nat \subseteq T
<1> SUFFICES ASSUME Nat \ T # {} PROVE FALSE
  OBVIOUS
<1>1. PICK n \in Nat \ T : \A m \in Nat \ T : n <= m
  BY Least
<1>2. n - 1 \in Nat /\ n - 1 \in T
  BY <1>1
<1> QED
  BY <1>2


(* A step of the walk keeps it in the image. *)
LEMMA VolumeStepIn ==
  ASSUME NEW w, NEW img, WalkType(w), w.at = "volumes", FoundIn(w, img)
  PROVE  WalkType(VolumeStep(w, img)) /\ FoundIn(VolumeStep(w, img), img)
BY DEF WalkType, FoundIn, VolumeStep, StartWalk, AfterVolume

LEMMA FileStepIn ==
  ASSUME NEW w, NEW img, WalkType(w), w.at = "files", FoundIn(w, img)
  PROVE  WalkType(FileStep(w, img)) /\ FoundIn(FileStep(w, img), img)
BY DEF WalkType, FoundIn, FileStep, StartWalk, AfterVolume, IsCarrier

(* The carriers and the numbers of an image. *)
LEMMA CarrierIs ==
  ASSUME NEW img, NEW p \in Carriers(img)
  PROVE  /\ p = <<p[1], p[2]>> /\ p[1] \in DOMAIN img.volumes
         /\ p[2] \in DOMAIN img.volumes[p[1]].files
         /\ IsCarrier(img.volumes[p[1]].files[p[2]])
BY DEF Carriers

LEMMA IsACarrier ==
  ASSUME NEW img, NEW o \in DOMAIN img.volumes, NEW a \in DOMAIN img.volumes[o].files,
         IsCarrier(img.volumes[o].files[a])
  PROVE  <<o, a>> \in Carriers(img)
BY DEF Carriers

(* The numbers of an image. *)
LEMMA ImageNumbers ==
  ASSUME NEW img, IsImage(img)
  PROVE  /\ img.size \in Nat /\ DOMAIN img.volumes \subseteq Nat
         /\ \A o \in DOMAIN img.volumes :
              /\ img.volumes[o].len \in Nat /\ img.volumes[o].ext \in Nat
              /\ img.volumes[o].extSize \in Nat /\ DOMAIN img.volumes[o].files \subseteq Nat
              /\ \A a \in DOMAIN img.volumes[o].files :
                   /\ img.volumes[o].files[a].size \in Nat
                   /\ img.volumes[o].files[a].lead \in Nat
                   /\ IsCarrier(img.volumes[o].files[a])
                        => IsDefinition(img.volumes[o].files[a].blob)
<1>1. img.size \in Nat /\ DOMAIN img.volumes \subseteq Nat
  BY DEF IsImage
<1>2. ASSUME NEW o \in DOMAIN img.volumes PROVE IsVolume(img.volumes[o])
  BY DEF IsImage, Range
<1>3. ASSUME NEW o \in DOMAIN img.volumes, NEW a \in DOMAIN img.volumes[o].files
      PROVE  IsFile(img.volumes[o].files[a])
  BY <1>2 DEF IsVolume, Range
<1> QED
  BY <1>1, <1>2, <1>3 DEF IsVolume, IsFile

(* What is extracted is a file's definition, or none.                        *)
LEMMA ExtractedFrom ==
  ASSUME rom \in DOMAIN Images, NEW w, FoundIn(w, image)
  PROVE  LET blob == Extracted(w, image)
         IN \/ blob = NoBlob
            \/ /\ IsDefinition(blob)
               /\ \E p \in Carriers(image) : FileAt(image, p).blob = blob
<1>1. CASE w.found
  <2> DEFINE p == <<w.fv, w.file>>
             f == image.volumes[w.fv].files[w.file]
  <2>1. w.fv \in DOMAIN image.volumes /\ w.file \in DOMAIN image.volumes[w.fv].files /\ IsCarrier(f)
    BY <1>1 DEF FoundIn
  <2>2. p \in Carriers(image) /\ FileAt(image, p) = f
    BY <2>1, IsACarrier DEF FileAt
  <2>3. IsImage(image)
    BY ImagesAssumption DEF image
  <2>4. IsDefinition(f.blob)
    BY <2>1, <2>3, ImageNumbers
  <2>5. Extracted(w, image) \in {f.blob, NoBlob}
    BY DEF Extracted
  <2> HIDE DEF p, f
  <2> QED
    BY <2>2, <2>4, <2>5
<1>2. CASE ~w.found
  BY <1>2 DEF Extracted
<1> QED
  BY <1>1, <1>2

(* The bundle at which the walk stops covers the platform.                   *)
LEMMA SelectedCovers ==
  ASSUME NEW blob, IsDefinition(blob), NEW o, NEW id, id # NoId
  PROVE  \/ Selected(blob, o, id) = NoTable
         \/ \E t \in TablesFor(blob, id) :
              /\ DOMAIN Selected(blob, o, id) = DOMAIN NoTable
              /\ Selected(blob, o, id).records = t.records
<1> DEFINE bundles == blob.bundles
<1>1. CASE ~Bundled(blob)
  BY <1>1 DEF Selected, TablesFor, IsDefinition, IsTable
<1>2. CASE Bundled(blob) /\ Selected(blob, o, id) # NoTable
  <2>1. o \in DOMAIN bundles /\ Covers(blob, o, id) /\ Selected(blob, o, id) = TableOf(bundles[o])
    BY <1>2 DEF Selected
  <2> DEFINE b == bundles[o]
  <2>2. id \in ToSet(b.ids) /\ b \in Range(bundles)
    BY <2>1 DEF Covers, Range
  <2>3. b.table \in TablesFor(blob, id)
    BY <1>2, <2>2 DEF TablesFor
  <2>4. IsTable(b.table)
    BY <2>2 DEF IsDefinition
  <2> HIDE DEF b
  <2> QED
    BY <2>1, <2>3, <2>4 DEF b, TableOf, IsTable
<1> QED
  BY <1>1, <1>2

(* The records stay the same when a table is decompressed.                   *)
LEMMA DecompressedRecords ==
  ASSUME NEW t, DOMAIN t = DOMAIN NoTable
  PROVE  \/ Decompressed(t) = NoTable
         \/ Decompressed(t).records = t.records
BY DEF Decompressed, NoTable

(* A segment that is mapped is one that the table names.                     *)
LEMMA MappedIsNamed ==
  ASSUME NEW t, NEW id \in DOMAIN SegmentMapping(t)
  PROVE  <<id, Channel(SegmentMapping(t)[id])>> \in NamedIn(t)
<1> DEFINE segs == IF Gen11(t) THEN {Segment(t, p) : p \in LastSegments(t)}
                                        ELSE {}
           s == CHOOSE s \in segs : s.id = id
<1>1. id \in {x.id : x \in segs} /\ SegmentMapping(t)[id] = s
  BY DEF SegmentMapping
<1>2. s \in segs /\ s.id = id
  BY <1>1
<1> HIDE DEF s
<1>3. PICK p \in LastSegments(t) : s = Segment(t, p)
  BY <1>2
<1>4. p \in SegmentsAt(t)
  BY <1>3 DEF LastSegments
<1>5. PICK i \in EnginesOf(t) : \E j \in DOMAIN t.records[i].segments :
        p = <<i, j>> /\ t.records[i].segments[j].cpld
  BY <1>4 DEF SegmentsAt
<1>6. i \in Said(t.records) /\ t.records[i].type = "engine"
  BY <1>5 DEF EnginesOf, Walked, Ends, Said
<1>7. t.records[i] \in {t.records[j] : j \in {j \in Said(t.records) : t.records[j].type = "engine"}}
  BY <1>6
<1>8. s \in ToSet(t.records[i].segments) /\ s.cpld
  BY <1>3, <1>5 DEF Segment, ToSet
<1> QED
  BY <1>1, <1>2, <1>7, <1>8 DEF NamedIn

(* No segments come of no definition.                                        *)
LEMMA NothingMapped ==
  /\ SegmentMapping(NoTable) = [id \in {} |-> 0]
  /\ \A o, id : Selected(NoBlob, o, id) = NoTable
  /\ Decompressed(NoTable) = NoTable
BY DEF SegmentMapping, NoTable, Gen11, NoBlob, Bundled,
   Selected, Decompressed, RecordHeader, TableHeader

(* What a load makes of a definition that it has found.                      *)
LEMMA BuiltIsDefined ==
  ASSUME LoaderType, NEW w, FoundIn(w, image), NEW o, NEW id \in Ids,
         NEW t \in {Decompressed(Selected(Extracted(w, image), o, id)), NoTable},
         NEW m, m = SegmentMapping(t)
  PROVE  \A s \in DOMAIN m : Defined(id, s, Channel(m[s]))
<1> DEFINE blob == Extracted(w, image)
           selected == Selected(blob, o, id)
<1> SUFFICES ASSUME NEW s \in DOMAIN m PROVE Defined(id, s, Channel(m[s]))
  OBVIOUS
<1>1. rom \in DOMAIN Images /\ id # NoId
  BY IdsAssumption DEF LoaderType
<1>2. t # NoTable /\ t = Decompressed(selected)
  BY NothingMapped
<1>3. selected # NoTable
  BY <1>2, NothingMapped
<1>4. blob # NoBlob
  BY <1>3, NothingMapped
<1>5. /\ IsDefinition(blob)
      /\ \E p \in Carriers(image) : FileAt(image, p).blob = blob
  BY <1>1, <1>4, ExtractedFrom
<1> HIDE DEF blob
<1>6. PICK u \in TablesFor(blob, id) :
        DOMAIN selected = DOMAIN NoTable /\ selected.records = u.records
  BY <1>1, <1>3, <1>5, SelectedCovers
<1> HIDE DEF selected
<1>7. t.records = u.records
  BY <1>2, <1>6, DecompressedRecords
<1>9. <<s, Channel(m[s])>> \in NamedIn(u)
  BY <1>7, MappedIsNamed DEF NamedIn
<1>10. <<s, Channel(m[s])>> \in DefinitionsIn(image, id)
  BY <1>5, <1>6, <1>9 DEF DefinitionsIn
<1>11. <<rom, id, s, Channel(m[s])>> \in Definitions
  <2> DEFINE Named(i, j) == {<<i, j, d[1], d[2]>> : d \in DefinitionsIn(Images[i], j)}
  <2>1. <<rom, id, s, Channel(m[s])>> \in Named(rom, id)
    BY <1>10 DEF image
  <2>2. Definitions = UNION {Named(i, j) : i \in DOMAIN Images, j \in Ids}
    BY DEF Definitions
  <2> HIDE DEF Named
  <2> QED
    BY <1>1, <2>1, <2>2
<1> QED
  BY <1>11 DEF Defined

-----------------------------------------------------------------------------
(* Multiples of a block. *)

LEMMA Remainder ==
  ASSUME NEW b \in Nat \ {0}, NEW n \in Nat
  PROVE  /\ n = b * (n \div b) + (n % b) /\ n % b \in Nat /\ n % b < b /\ n \div b \in Nat
BY Z3

LEMMA SameRemainder ==
  ASSUME NEW b \in Nat \ {0}, NEW q \in Int, NEW r \in Nat, r < b
  PROVE  (b * q + r) % b = r
BY Z3

LEMMA MultiplesAdd ==
  ASSUME NEW b \in Nat \ {0}, NEW n \in Nat, NEW m \in Nat, n % b = 0, m % b = 0
  PROVE  (n + m) % b = 0
<1> DEFINE x == n \div b
           y == m \div b
<1>1. n = b * x /\ m = b * y /\ x \in Nat /\ y \in Nat
  BY Remainder
<1> HIDE DEF x, y
<1>2. n + m = b * (x + y) + 0 /\ x + y \in Int /\ 0 \in Nat /\ 0 < b
  BY <1>1, Z3
<1>3. (b * (x + y) + 0) % b = 0
  BY <1>2, SameRemainder
<1> QED
  BY <1>2, <1>3

LEMMA BlockIsMultiple ==
  ASSUME NEW b \in Nat \ {0}, NEW n \in Nat
  PROVE  b % b = 0 /\ (n - (n % b)) \in Nat /\ (n - (n % b)) % b = 0
<1> DEFINE x == n \div b
<1>1. n - (n % b) = b * x /\ x \in Nat /\ n % b \in Nat
  BY Remainder
<1> HIDE DEF x
<1>2. b * x = b * x + 0 /\ b * x \in Nat /\ b = b * 1 + 0 /\ 0 < b
  BY <1>1, Z3
<1>3. (b * x + 0) % b = 0 /\ (b * 1 + 0) % b = 0
  BY <1>2, <1>1, SameRemainder
<1> QED
  BY <1>1, <1>2, <1>3

LEMMA MultiplesApart ==
  ASSUME NEW b \in Nat \ {0}, NEW n \in Nat, NEW m \in Nat, n % b = 0, m % b = 0, n < m
  PROVE  n + b <= m
<1> DEFINE x == n \div b
           y == m \div b
<1>1. n = b * x /\ m = b * y /\ x \in Nat /\ y \in Nat
  BY Remainder
<1> HIDE DEF x, y
<1>2. x < y
  <2>1. CASE y <= x
    <3>1. b * (x - y) >= 0
      BY <1>1, <2>1, Z3
    <3> QED
      BY <1>1, <3>1, Z3
  <2> QED
    BY <1>1, <2>1
<1>3. b * (y - x - 1) >= 0
  BY <1>1, <1>2, Z3
<1> QED
  BY <1>1, <1>3, Z3

(* From a volume to the next, which does not go round: no volume is passed.  *)
LEMMA WrapSmall ==
  ASSUME NEW n \in Nat, n < AddrSpace
  PROVE  Wrap(n) = n
<1>1. AddrSpace \in Nat \ {0}
  BY SizesAssumption
<1>2. n % AddrSpace = n
  <2>1. AddrSpace * 0 + n = n
    BY <1>1
  <2>2. (AddrSpace * 0 + n) % AddrSpace = n
    BY <1>1, SameRemainder
  <2> QED
    BY <2>1, <2>2
<1> QED
  BY <1>2 DEF Wrap

LEMMA StepsTo ==
  ASSUME NEW o \in Nat, NEW len \in Nat, NEW p \in Nat,
         o % Block = 0, p % Block = 0, o < p, o + len <= p, p < AddrSpace
  PROVE  LET n == o + FvStep(len)
         IN n \in Nat /\ n % Block = 0 /\ n <= p /\ Wrap(n) = n
<1> DEFINE n == o + FvStep(len)
           r == len % Block
<1>1. Block \in Nat \ {0}
  BY SizesAssumption
<1>2. Wrap(len) = len
  <2>1. len < AddrSpace
    BY SizesAssumption
  <2> QED
    BY <2>1, WrapSmall
<1>3. r \in Nat /\ r < Block /\ len - r \in Nat /\ (len - r) % Block = 0 /\ Block % Block = 0
  BY <1>1, Remainder, BlockIsMultiple
<1>4. n \in Nat /\ n % Block = 0 /\ n <= p
  <2>1. CASE len = 0
    <3>1. Aligned(len) = 0
      <4>1. r = 0
        BY <1>3, <2>1
      <4> QED
        BY <1>2, <2>1, <4>1 DEF Aligned
    <3>2. n = o + Block
      BY <3>1 DEF FvStep
    <3>3. o + Block <= p /\ (o + Block) % Block = 0
      BY <1>1, <1>3, MultiplesApart, MultiplesAdd
    <3> HIDE DEF n
    <3> QED
      BY <1>1, <3>2, <3>3
  <2>2. CASE len # 0 /\ r = 0
    <3>1. Aligned(len) = len
      BY <1>2, <2>2 DEF Aligned
    <3>2. n = o + len
      BY <2>2, <3>1 DEF FvStep
    <3>3. (o + len) % Block = 0
      BY <1>1, <2>2, MultiplesAdd
    <3> HIDE DEF n
    <3> QED
      BY <3>2, <3>3
  <2>3. CASE r # 0
    <3> DEFINE m == o + (len - r)
    <3> HIDE DEF r
    <3>1. m \in Nat /\ m % Block = 0
      <4> DEFINE l == len - r
      <4>1. l \in Nat /\ l % Block = 0
        BY <1>3
      <4> HIDE DEF l
      <4>2. (o + l) % Block = 0
        BY <1>1, <4>1, MultiplesAdd, Zenon
      <4>3. o + l \in Nat
        BY <4>1
      <4> QED
        BY <4>2, <4>3 DEF l
    <3>2. m < p
      BY <1>3, <2>3
    <3>3. m + Block <= p /\ (m + Block) % Block = 0
      BY <1>1, <1>3, <3>1, <3>2, MultiplesApart, MultiplesAdd
    <3>4. /\ len - r + Block \in Nat /\ len - r + Block < AddrSpace /\ len - r + Block # 0
      BY <1>1, <1>3, <3>3, SizesAssumption
    <3>5. Wrap(len - r + Block) = len - r + Block
      BY <3>4, WrapSmall
    <3>6. Aligned(len) = len - r + Block
      BY <1>2, <2>3, <3>5 DEF Aligned, r
    <3>7. n = m + Block
      <4>1. FvStep(len) = len - r + Block
        BY <3>4, <3>6 DEF FvStep
      <4> HIDE DEF n
      <4> QED
        BY <1>1, <1>3, <4>1 DEF n
    <3> HIDE DEF m, n
    <3> QED
      BY <1>1, <3>1, <3>3, <3>7
  <2> QED
    BY <2>1, <2>2, <2>3
<1> HIDE DEF n
<1>5. Wrap(n) = n
  BY <1>4, WrapSmall, SizesAssumption
<1> QED
  BY <1>4, <1>5 DEF n

(* The next multiple of 8. *)
LEMMA Align8Is ==
  ASSUME NEW n \in Nat
  PROVE  /\ Align8(n) \in Nat /\ n <= Align8(n) /\ Align8(n) <= n + 7
         /\ \A a \in Nat : a % 8 = 0 /\ n <= a => Align8(n) <= a
BY Z3 DEF Align8

-----------------------------------------------------------------------------
(* The walk over a sound image. *)

(* The walk goes on towards each carrier: none is in what it has passed.     *)
Ahead(w, img) ==
  /\ w.at \in {"volumes", "files", "done"}
  /\ w.at = "volumes" => /\ w.good /\ w.fv \in Nat /\ w.fv % Block = 0
                         /\ \A p \in Carriers(img) : w.fv <= p[1]
  /\ w.at = "files" => /\ w.good /\ w.fv \in DOMAIN img.volumes
                       /\ w.file \in FileEnds(w.fv, img.volumes[w.fv])
                       /\ w.file <= w.fv + img.volumes[w.fv].len
                       /\ \A p \in Carriers(img) :
                            w.fv < p[1] \/ (w.fv = p[1] /\ w.file <= p[2])
  /\ w.at = "done" => w.found /\ <<w.fv, w.file>> \in Carriers(img)

(* Where a carrier lies in a sound image. *)
LEMMA CarrierLies ==
  ASSUME NEW img, IsImage(img), Sound(img), NEW p \in Carriers(img)
  PROVE  LET o == p[1]
             a == p[2]
             v == img.volumes[o]
             f == v.files[a]
         IN /\ o \in DOMAIN img.volumes /\ o \in Nat /\ o % Block = 0
            /\ o + VolumeHeader < img.size /\ o + v.len <= img.size
            /\ v.ffs2 /\ v.ext # 0 /\ v.apml /\ o + v.ext + ExtHeader <= img.size
            /\ a \in DOMAIN v.files /\ a \in Nat /\ a % 8 = 0
            /\ FirstFile(o, v) <= a /\ a + f.size <= o + v.len
            /\ IsCarrier(f) /\ SoundCarrier(f) /\ f.size \in Nat /\ FileHeader < f.size
<1> DEFINE o == p[1]
           a == p[2]
           v == img.volumes[o]
           f == v.files[a]
<1>1. o \in DOMAIN img.volumes /\ a \in DOMAIN v.files /\ IsCarrier(f)
  BY CarrierIs
<1>2. o \in Nat /\ a \in Nat /\ f.size \in Nat /\ f.lead \in Nat /\ IsDefinition(f.blob)
  BY <1>1, ImageNumbers
<1>3. SoundVolume(img, o)
  BY <1>1 DEF Sound
<1>4. /\ o % Block = 0 /\ o + VolumeHeader < img.size /\ o + v.len <= img.size
      /\ v.ffs2 /\ v.ext # 0 /\ v.apml /\ o + v.ext + ExtHeader <= img.size
      /\ SoundFiles(o, v)
  <2> HIDE DEF v
  <2>1. \E q \in Carriers(img) : q[1] = o
    OBVIOUS
  <2> QED
    BY <1>3, <2>1 DEF SoundVolume, v
<1>5. /\ a % 8 = 0 /\ FirstFile(o, v) <= a /\ a + f.size <= o + v.len /\ SoundCarrier(f)
  BY <1>1, <1>4 DEF SoundFiles
<1>6. f.blob.size \in Nat /\ f.blob.size > 0 /\ f.size = FileHeader + f.lead + f.blob.size
  BY <1>2, <1>5 DEF SoundCarrier, IsDefinition
<1>7. FileHeader < f.size
  <2> DEFINE size == f.size
             lead == f.lead
             rest == f.blob.size
  <2>1. size \in Nat /\ lead \in Nat /\ rest \in Nat /\ rest > 0 /\ size = FileHeader + lead + rest
    BY <1>2, <1>6
  <2> HIDE DEF size, lead, rest
  <2>2. FileHeader < size
    BY <2>1 DEF FileHeader
  <2> QED
    BY <2>2 DEF size
<1> QED
  BY <1>1, <1>2, <1>4, <1>5, <1>7

(* From a volume that has no carrier, or none any more, to the next.         *)
LEMMA VolumePassed ==
  ASSUME NEW img, IsImage(img), Sound(img), NEW o \in DOMAIN img.volumes,
         NEW p \in Carriers(img), o < p[1]
  PROVE  LET n == Wrap(o + FvStep(img.volumes[o].len))
         IN n \in Nat /\ n % Block = 0 /\ n <= p[1]
<1> DEFINE len == img.volumes[o].len
           q == p[1]
<1>1. o \in Nat /\ len \in Nat /\ img.size \in Nat
  BY ImageNumbers
<1>2. q \in DOMAIN img.volumes /\ q \in Nat /\ q % Block = 0 /\ q + VolumeHeader < img.size
  BY CarrierLies
<1>3. o % Block = 0 /\ o + len <= q
  BY <1>2 DEF Sound, SoundVolume
<1>4. img.size + Block <= AddrSpace
  BY DEF Sound
<1> HIDE DEF len, q
<1>5. q < AddrSpace
  BY <1>1, <1>2, <1>4, SizesAssumption DEF VolumeHeader
<1>6. o < q
  BY DEF q
<1> HIDE DEF len, q
<1>7. LET n == o + FvStep(len) IN n \in Nat /\ n % Block = 0 /\ n <= q /\ Wrap(n) = n
  BY <1>1, <1>2, <1>3, <1>5, <1>6, StepsTo
<1> QED
  BY <1>7 DEF len, q

LEMMA VolumeStepAhead ==
  ASSUME NEW img, IsImage(img), Sound(img), Carriers(img) # {},
         NEW w, WalkType(w), w.at = "volumes", Ahead(w, img)
  PROVE  Ahead(VolumeStep(w, img), img)
<1> DEFINE v == img.volumes[w.fv]
           n == VolumeStep(w, img)
<1>1. PICK q : q \in Carriers(img)
  OBVIOUS
<1>2. w.good /\ w.fv \in Nat /\ w.fv % Block = 0 /\ \A p \in Carriers(img) : w.fv <= p[1]
  BY DEF Ahead
<1>3. img.size \in Nat /\ img.size + Block <= AddrSpace /\ Block \in Nat \ {0}
  BY ImageNumbers, SizesAssumption DEF Sound
<1>4. w.fv + VolumeHeader < img.size
  <2>1. q[1] \in Nat /\ q[1] + VolumeHeader < img.size /\ w.fv <= q[1]
    BY <1>1, <1>2, CarrierLies
  <2> QED
    BY <1>2, <1>3, <2>1 DEF VolumeHeader
<1>5. CASE w.fv \notin DOMAIN img.volumes
  <2>1. n = [w EXCEPT !.fv = Wrap(@ + Block)]
    BY <1>2, <1>4, <1>5 DEF VolumeStep
  <2>2. \A p \in Carriers(img) : /\ p[1] \in Nat /\ w.fv + Block <= p[1]
                                 /\ p[1] + VolumeHeader < img.size
    <3> SUFFICES ASSUME NEW p \in Carriers(img)
                 PROVE  /\ p[1] \in Nat /\ w.fv + Block <= p[1]
                        /\ p[1] + VolumeHeader < img.size
      OBVIOUS
    <3>1. /\ p[1] \in DOMAIN img.volumes /\ p[1] \in Nat /\ p[1] % Block = 0
          /\ p[1] + VolumeHeader < img.size
      BY CarrierLies
    <3>2. w.fv < p[1]
      BY <1>2, <1>5, <3>1
    <3> QED
      BY <1>2, <1>3, <3>1, <3>2, MultiplesApart
  <2>3. (w.fv + Block) % Block = 0 /\ w.fv + Block \in Nat
    <3>1. Block % Block = 0 /\ Block \in Nat
      BY <1>3, BlockIsMultiple
    <3>2. w.fv + Block \in Nat
      BY <1>2, <1>3
    <3>3. (w.fv + Block) % Block = 0
      BY <1>2, <1>3, <3>1, MultiplesAdd, Zenon
    <3> QED
      BY <3>2, <3>3
  <2>4. w.fv + Block < AddrSpace
    <3>1. w.fv + Block <= q[1] /\ q[1] + VolumeHeader < img.size /\ q[1] \in Nat
      BY <1>1, <2>2
    <3> QED
      BY <1>2, <1>3, <3>1, SizesAssumption DEF VolumeHeader
  <2>5. Wrap(w.fv + Block) = w.fv + Block
    BY <2>3, <2>4, WrapSmall
  <2>6. n.at = "volumes" /\ n.good = w.good /\ n.fv = w.fv + Block
    BY <2>1, <2>5 DEF WalkType, StartWalk
  <2>9. Ahead(n, img)
    <3> HIDE DEF n
    <3> QED
      BY <1>2, <2>2, <2>3, <2>6 DEF Ahead
  <2> QED
    BY <2>9
<1>6. CASE w.fv \in DOMAIN img.volumes /\ Wanted(w, img, v)
  <2>0. /\ FirstFile(w.fv, v) \in Nat /\ FirstFile(w.fv, v) <= w.fv + v.len
        /\ Wrap(FirstFile(w.fv, v)) = FirstFile(w.fv, v)
    <3> DEFINE first == FirstFile(w.fv, v)
               len == v.len
    <3>1. first \in Nat /\ len \in Nat
      BY <1>2, <1>6, ImageNumbers DEF FirstFile
    <3>2. first <= w.fv + len /\ w.fv + len <= img.size
      BY <1>6 DEF Wanted, Sound, SoundVolume
    <3> HIDE DEF first, len
    <3>3. first < AddrSpace
      BY <1>2, <1>3, <3>1, <3>2, SizesAssumption
    <3>4. Wrap(first) = first
      BY <3>1, <3>3, WrapSmall
    <3> QED
      BY <3>1, <3>2, <3>4 DEF first, len
  <2>1. n = [w EXCEPT !.at = "files", !.file = FirstFile(w.fv, v)]
    BY <1>2, <1>4, <1>6, <2>0 DEF VolumeStep
  <2>2. n.at = "files" /\ n.good = w.good /\ n.fv = w.fv /\ n.file = FirstFile(w.fv, v)
    BY <2>1 DEF WalkType, StartWalk
  <2>3. \A p \in Carriers(img) :
          w.fv < p[1] \/ (w.fv = p[1] /\ FirstFile(w.fv, v) <= p[2])
    <3> SUFFICES ASSUME NEW p \in Carriers(img), ~(w.fv < p[1])
                 PROVE  w.fv = p[1] /\ FirstFile(w.fv, v) <= p[2]
      OBVIOUS
    <3>1. p[1] \in Nat /\ FirstFile(p[1], img.volumes[p[1]]) <= p[2]
      BY CarrierLies
    <3>2. w.fv = p[1]
      BY <1>2, <3>1
    <3> QED
      BY <3>1, <3>2
  <2>4. FirstFile(w.fv, v) \in FileEnds(w.fv, v)
    BY DEF FileEnds
  <2>9. Ahead(n, img)
    <3> HIDE DEF n
    <3> QED
      BY <1>2, <1>6, <2>0, <2>2, <2>3, <2>4 DEF Ahead
  <2> QED
    BY <2>9
<1>7. CASE w.fv \in DOMAIN img.volumes /\ ~Wanted(w, img, v)
  <2>1. n = [AfterVolume(w, v) EXCEPT !.good = v.ffs2 /\ v.ext # 0 => NameReads(w, img, v)]
    BY <1>2, <1>4, <1>7 DEF VolumeStep
  <2>2. v.ffs2 /\ v.ext # 0 => NameReads(w, img, v)
    <3>1. v.ffs2 /\ v.ext # 0 => w.fv + v.ext + ExtHeader <= img.size
      BY <1>7 DEF Sound, SoundVolume
    <3> QED
      BY <1>2, <3>1 DEF NameReads, ReadsWell
  <2>3. ASSUME NEW p \in Carriers(img) PROVE w.fv < p[1]
    <3>1. /\ p[1] \in Nat
          /\ img.volumes[p[1]].ffs2 /\ img.volumes[p[1]].ext # 0 /\ img.volumes[p[1]].apml
      BY CarrierLies
    <3>2. p[1] # w.fv
      BY <1>7, <2>2, <3>1 DEF Wanted
    <3> QED
      BY <1>2, <3>1, <3>2
  <2>4. /\ n.at = "volumes" /\ n.good = TRUE
        /\ n.fv = Wrap(w.fv + FvStep(img.volumes[w.fv].len))
    BY <2>1, <2>2 DEF WalkType, StartWalk, AfterVolume
  <2>5. ASSUME NEW p \in Carriers(img)
        PROVE  n.fv \in Nat /\ n.fv % Block = 0 /\ n.fv <= p[1]
    BY <1>7, <2>3, <2>4, VolumePassed
  <2>9. Ahead(n, img)
    <3> HIDE DEF n
    <3> QED
      BY <1>1, <2>4, <2>5 DEF Ahead
  <2> QED
    BY <2>9
<1> QED
  BY <1>5, <1>6, <1>7

(* The numbers of a volume that the walk is in. *)
LEMMA FvEndIs ==
  ASSUME NEW img, IsImage(img), Sound(img), NEW w, w.fv \in DOMAIN img.volumes
  PROVE  LET v == img.volumes[w.fv]
         IN FvEnd(w, img, v) = w.fv + v.len /\ w.fv + v.len <= img.size
<1> DEFINE o == w.fv
           len == img.volumes[o].len
<1>1. o \in Nat /\ len \in Nat /\ img.size \in Nat
  BY ImageNumbers
<1>2. o + len <= img.size
  BY DEF Sound, SoundVolume
<1>3. img.size + Block <= AddrSpace /\ Block \in Nat \ {0} /\ AddrSpace \in Nat
  BY SizesAssumption DEF Sound
<1> HIDE DEF len, o
<1>4. o + len \in Nat /\ o + len < AddrSpace /\ len < AddrSpace
  BY <1>1, <1>2, <1>3
<1>5. Wrap(len) = len /\ Wrap(o + len) = o + len
  BY <1>1, <1>4, WrapSmall
<1>6. ~(o + len > img.size)
  BY <1>1, <1>2
<1> USE DEF len, o
<1> QED
  BY <1>2, <1>5, <1>6, Zenon DEF FvEnd

(* A file that a carrier follows in its volume. *)
LEMMA EndNumbers ==
  ASSUME NEW img, IsImage(img), NEW o \in DOMAIN img.volumes,
         NEW e \in FileEnds(o, img.volumes[o])
  PROVE  e \in Nat
BY ImageNumbers DEF FileEnds, FirstFile

LEMMA FileStepAhead ==
  ASSUME NEW img, IsImage(img), Sound(img), Carriers(img) # {},
         NEW w, WalkType(w), w.at = "files", Ahead(w, img)
  PROVE  Ahead(FileStep(w, img), img)
<1> DEFINE o == w.fv
           v == img.volumes[o]
           e == w.file
           at == Align8(e)
           f == v.files[at]
           n == FileStep(w, img)
<1>1. PICK q : q \in Carriers(img)
  OBVIOUS
<1>2. /\ w.good /\ o \in DOMAIN img.volumes /\ e \in FileEnds(o, v) /\ e <= o + v.len
      /\ \A p \in Carriers(img) : o < p[1] \/ (o = p[1] /\ e <= p[2])
  BY DEF Ahead
<1>3. /\ o \in Nat /\ v.len \in Nat /\ img.size \in Nat /\ e \in Nat
      /\ o + v.len <= img.size /\ FvEnd(w, img, v) = o + v.len
      /\ DOMAIN v.files \subseteq Nat
      /\ \A a \in DOMAIN v.files : v.files[a].size \in Nat
  BY <1>2, ImageNumbers, EndNumbers, FvEndIs
<1>4. SoundFiles(o, v)
  BY <1>2 DEF Sound, SoundVolume
<1>5. /\ at \in Nat /\ e <= at /\ at <= e + 7
      /\ \A a \in Nat : a % 8 = 0 /\ e <= a => at <= a
  BY <1>3, Align8Is
<1>0. Wrap(at) = at /\ Wrap(e + FileHeader) = e + FileHeader
  <2> DEFINE len == v.len
  <2>1. /\ e \in Nat /\ o \in Nat /\ len \in Nat /\ img.size \in Nat
        /\ e <= o + len /\ o + len <= img.size
    BY <1>2, <1>3
  <2>2. img.size + Block <= AddrSpace /\ Block > VolumeHeader /\ Block \in Nat /\ AddrSpace \in Nat
    BY SizesAssumption, BlockAssumption DEF Sound
  <2> HIDE DEF len, e, o, at
  <2>3. /\ e + FileHeader \in Nat /\ e + FileHeader < AddrSpace /\ at < AddrSpace
    BY <1>5, <2>1, <2>2 DEF FileHeader, VolumeHeader
  <2> QED
    BY <1>5, <2>3, WrapSmall
<1>6. ASSUME NEW p \in Carriers(img), ~(o < p[1])
      PROVE  /\ p[1] = o /\ p[2] \in DOMAIN v.files /\ p[2] \in Nat
             /\ e <= p[2] /\ at <= p[2] /\ p[2] + FileHeader < o + v.len
             /\ IsCarrier(v.files[p[2]])
  <2>1. p[1] = o /\ e <= p[2]
    BY <1>2, <1>6
  <2>2. /\ p[2] \in DOMAIN v.files /\ p[2] \in Nat /\ p[2] % 8 = 0
        /\ p[2] + v.files[p[2]].size <= o + v.len /\ IsCarrier(v.files[p[2]])
        /\ v.files[p[2]].size \in Nat /\ FileHeader < v.files[p[2]].size
    BY <2>1, CarrierLies
  <2>3. at <= p[2]
    BY <1>5, <2>1, <2>2
  <2>4. p[2] + FileHeader < o + v.len
    <3> DEFINE size == v.files[p[2]].size
               len == v.len
               a == p[2]
    <3>1. size \in Nat /\ len \in Nat /\ a \in Nat /\ a + size <= o + len /\ FileHeader < size
      BY <1>3, <2>2
    <3> HIDE DEF size, len, a
    <3>2. a + FileHeader < o + len
      BY <1>3, <3>1 DEF FileHeader
    <3> QED
      BY <3>2 DEF a, len
  <2> QED
    BY <2>1, <2>2, <2>3, <2>4
<1>7. ASSUME n = AfterVolume(w, v), \A p \in Carriers(img) : o < p[1]
      PROVE  Ahead(n, img)
  <2>1. n.at = "volumes" /\ n.good = w.good /\ n.fv = Wrap(o + FvStep(v.len))
    BY <1>7 DEF AfterVolume, WalkType, StartWalk
  <2>2. ASSUME NEW p \in Carriers(img)
        PROVE  n.fv \in Nat /\ n.fv % Block = 0 /\ n.fv <= p[1]
    BY <1>2, <1>7, <2>1, VolumePassed
  <2> HIDE DEF n
  <2> QED
    BY <1>1, <1>2, <2>1, <2>2 DEF Ahead
<1>8. CASE ~(e + FileHeader < FvEnd(w, img, v))
  <2>1. n = AfterVolume(w, v)
    BY <1>0, <1>8 DEF FileStep
  <2>2. ASSUME NEW p \in Carriers(img) PROVE o < p[1]
    <3> SUFFICES ASSUME ~(o < p[1]) PROVE FALSE
      OBVIOUS
    <3>1. /\ p[2] \in Nat /\ e <= p[2] /\ p[2] + FileHeader < o + v.len
      BY <1>6
    <3>2. ~(e + FileHeader < o + v.len)
      BY <1>3, <1>8
    <3> QED
      BY <1>3, <3>1, <3>2 DEF FileHeader
  <2> QED
    BY <1>7, <2>1, <2>2
<1>9. CASE e + FileHeader < FvEnd(w, img, v)
  <2>1. e + FileHeader < o + v.len
    BY <1>3, <1>9
  <2>2. ReadsWell(w, img, at, FileHeader)
    <3>1. CASE o < q[1]
      <4>1. /\ q[1] \in DOMAIN img.volumes /\ q[1] \in Nat /\ q[1] + VolumeHeader < img.size
        BY <1>1, CarrierLies
      <4>2. o + v.len <= q[1]
        BY <1>2, <3>1, <4>1 DEF Sound, SoundVolume
      <4>3. at + FileHeader <= img.size
        <5> DEFINE len == v.len
                   size == img.size
                   b == q[1]
        <5>1. /\ len \in Nat /\ size \in Nat /\ b \in Nat /\ e \in Nat /\ o \in Nat /\ at \in Nat
              /\ e + FileHeader < o + len /\ o + len <= b /\ b + VolumeHeader < size /\ at <= e + 7
          BY <1>3, <1>5, <2>1, <4>1, <4>2
        <5> HIDE DEF len, size, b, at, e, o
        <5>2. at + FileHeader <= size
          BY <5>1 DEF FileHeader, VolumeHeader
        <5> QED
          BY <5>2 DEF size
      <4> QED
        BY <1>2, <4>3 DEF ReadsWell
    <3>2. CASE ~(o < q[1])
      <4>1. at <= q[2] /\ q[2] \in Nat /\ q[2] + FileHeader < o + v.len
        BY <1>1, <1>6, <3>2
      <4>2. at + FileHeader <= img.size
        BY <1>3, <1>5, <4>1 DEF FileHeader
      <4> QED
        BY <1>2, <4>2 DEF ReadsWell
    <3> QED
      BY <3>1, <3>2
  <2>3. CASE at \notin DOMAIN v.files
    <3>1. n = AfterVolume(w, v)
      BY <1>0, <1>9, <2>2, <2>3 DEF FileStep
    <3>2. \A a \in DOMAIN v.files : a < e
      BY <1>2, <1>4, <2>3 DEF SoundFiles
    <3>3. ASSUME NEW p \in Carriers(img) PROVE o < p[1]
      <4> SUFFICES ASSUME ~(o < p[1]) PROVE FALSE
        OBVIOUS
      <4>1. p[2] \in DOMAIN v.files /\ p[2] \in Nat /\ e <= p[2]
        BY <1>6
      <4> QED
        BY <1>3, <3>2, <4>1
    <3> QED
      BY <1>7, <3>1, <3>3
  <2>4. CASE at \in DOMAIN v.files
    <3>1. /\ at % 8 = 0 /\ f.size \in Nat /\ f.size >= FileHeader /\ at + f.size <= o + v.len
          /\ \A b \in DOMAIN v.files : at < b => at + f.size <= b
          /\ IsCarrier(f) => SoundCarrier(f)
      BY <1>3, <1>4, <2>4 DEF SoundFiles
    <3>2. ~(f.size < FileHeader)
      BY <3>1 DEF FileHeader
    <3>3. CASE ~IsCarrier(f)
      <4>1. n = [w EXCEPT !.file = at + f.size]
        BY <1>0, <1>9, <2>2, <2>4, <3>2, <3>3 DEF FileStep, IsCarrier
      <4>2. n.at = "files" /\ n.good = w.good /\ n.fv = o /\ n.file = at + f.size
        BY <4>1 DEF WalkType, StartWalk
      <4>3. at + f.size \in FileEnds(o, v)
        BY <2>4 DEF FileEnds
      <4>4. ASSUME NEW p \in Carriers(img), ~(o < p[1])
            PROVE  o = p[1] /\ at + f.size <= p[2]
        <5>1. /\ p[1] = o /\ p[2] \in DOMAIN v.files /\ p[2] \in Nat /\ at <= p[2]
              /\ IsCarrier(v.files[p[2]])
          BY <1>6, <4>4
        <5>2. p[2] # at
          BY <3>3, <5>1
        <5>3. at < p[2]
          BY <1>5, <5>1, <5>2
        <5> QED
          BY <3>1, <5>1, <5>3
      <4>5. Ahead(n, img)
        <5> HIDE DEF n
        <5> QED
          BY <1>2, <3>1, <4>2, <4>3, <4>4 DEF Ahead
      <4> QED
        BY <4>5
    <3>4. CASE IsCarrier(f)
      <4>1. ~TooShort(f)
        <5> DEFINE lead == f.lead
                   rest == f.blob.size
        <5>1. lead = Skipped(f) /\ lead \in Nat /\ rest \in Nat /\ rest > 0
          <6>1. IsDefinition(f.blob) /\ lead \in Nat
            BY <1>2, <2>4, <3>4, ImageNumbers
          <6> QED
            BY <3>1, <3>4, <6>1 DEF SoundCarrier, IsDefinition
        <5>2. f.size = FileHeader + lead + rest
          BY <3>1, <3>4 DEF SoundCarrier
        <5> HIDE DEF lead, rest, f
        <5>3. ~(f.size - FileHeader <= lead)
          BY <5>1, <5>2 DEF FileHeader
        <5> QED
          BY <5>1, <5>3 DEF TooShort
      <4>2. n = [w EXCEPT !.at = "done", !.file = at, !.found = ReadsWell(w, img, at, f.size)]
        BY <1>0, <1>9, <2>2, <2>4, <3>2, <3>4, <4>1 DEF FileStep, IsCarrier
      <4>3. ReadsWell(w, img, at, f.size)
        <5> DEFINE size == f.size
                   len == v.len
        <5>1. size \in Nat /\ len \in Nat /\ at + size <= o + len /\ o + len <= img.size
          BY <1>3, <3>1
        <5> HIDE DEF size, len, at, o
        <5>2. at + size <= img.size
          BY <1>3, <1>5, <5>1
        <5> QED
          BY <1>2, <5>2 DEF size, ReadsWell
      <4>4. n.at = "done" /\ n.fv = o /\ n.file = at /\ n.found = TRUE
        BY <4>2, <4>3 DEF WalkType, StartWalk
      <4>5. <<o, at>> \in Carriers(img)
        BY <1>2, <2>4, <3>4, IsACarrier
      <4>6. Ahead(n, img)
        <5> HIDE DEF n
        <5> QED
          BY <4>4, <4>5 DEF Ahead
      <4> QED
        BY <4>6
    <3> QED
      BY <3>3, <3>4
  <2> QED
    BY <2>3, <2>4
<1> QED
  BY <1>8, <1>9

(* What a walk that is over has found, in a sound image. *)
LEMMA ExtractedWhole ==
  ASSUME NEW img, IsImage(img), Sound(img), NEW p \in Carriers(img),
         NEW w, w.at = "done", Ahead(w, img)
  PROVE  /\ Extracted(w, img) = FileAt(img, p).blob
         /\ SoundBlob(Extracted(w, img)) /\ IsDefinition(Extracted(w, img))
         /\ Extracted(w, img).size < AddrSpace
<1> DEFINE q == <<w.fv, w.file>>
           f == img.volumes[w.fv].files[w.file]
<1>1. w.found /\ q \in Carriers(img)
  BY DEF Ahead
<1>2. q[1] = w.fv /\ q[2] = w.file
  OBVIOUS
<1>3. FileAt(img, q) = f
  BY <1>2 DEF FileAt
<1>4. /\ w.fv \in DOMAIN img.volumes /\ w.file \in DOMAIN img.volumes[w.fv].files
      /\ IsCarrier(f) /\ SoundCarrier(f)
  <2> HIDE DEF q
  <2>1. LET o == q[1] a == q[2]
            g == img.volumes[o].files[a]
        IN /\ o \in DOMAIN img.volumes /\ a \in DOMAIN img.volumes[o].files
           /\ IsCarrier(g) /\ SoundCarrier(g)
    BY <1>1, CarrierLies
  <2> QED
    BY <1>2, <2>1
<1>5. Extracted(w, img) = f.blob
  BY <1>1, <1>4 DEF Extracted, SoundCarrier
<1>6. f.blob = FileAt(img, p).blob
  BY <1>1, <1>3 DEF Sound
<1>7. SoundBlob(f.blob) /\ IsDefinition(f.blob)
  BY <1>4, ImageNumbers DEF SoundCarrier
<1>8. f.blob.size < AddrSpace
  <2> DEFINE o == q[1]
             a == q[2]
             size == f.size
             len == img.volumes[o].len
             lead == f.lead
             rest == f.blob.size
  <2>1. /\ o \in Nat /\ a \in Nat /\ size \in Nat /\ o + len <= img.size /\ a + size <= o + len
        /\ img.size \in Nat /\ len \in Nat /\ lead \in Nat
    <3>1. LET g == img.volumes[o].files[a]
          IN /\ o \in DOMAIN img.volumes /\ o \in Nat /\ a \in Nat /\ g.size \in Nat
             /\ o + len <= img.size /\ a + g.size <= o + len
      <4> HIDE DEF q
      <4> QED
        BY <1>1, CarrierLies
    <3> QED
      BY <1>2, <1>4, <3>1, ImageNumbers
  <2>2. size = FileHeader + lead + rest /\ rest \in Nat
    BY <1>4, <1>7 DEF SoundCarrier, IsDefinition
  <2>3. img.size < AddrSpace
    BY <2>1, SizesAssumption DEF Sound
  <2> HIDE DEF o, a, size, len, lead, rest
  <2>4. rest < AddrSpace
    BY <2>1, <2>2, <2>3, SizesAssumption DEF FileHeader
  <2> QED
    BY <2>4 DEF rest
<1> QED
  BY <1>5, <1>6, <1>7, <1>8

-----------------------------------------------------------------------------
(* What a sound definition makes of a load. *)

(* Of some positions of segments, one is the last. *)
LEMMA LastIs ==
  ASSUME NEW ps, ps # {}, NEW n \in Nat, NEW m \in [1..n -> Nat],
         \A q \in ps : q[1] \in 1..n /\ q[2] \in 1..m[q[1]]
  PROVE  \E p \in ps : IsLast(p, ps)
<1> DEFINE I == {q[1] : q \in ps}
<1>1. I \in SUBSET Nat /\ I # {} /\ \A x \in I : x <= n
  OBVIOUS
<1> HIDE DEF I
<1>2. PICK i \in I : \A x \in I : x <= i
  BY <1>1, Greatest
<1> DEFINE Q == {q \in ps : q[1] = i}
           J == {q[2] : q \in Q}
<1>3. i \in 1..n /\ m[i] \in Nat /\ Q # {}
  BY <1>2 DEF I
<1>4. J \in SUBSET Nat /\ J # {} /\ \A x \in J : x <= m[i]
  BY <1>3
<1> HIDE DEF J
<1>5. PICK j \in J : \A x \in J : x <= j
  BY <1>3, <1>4, Greatest
<1>6. PICK p \in Q : p[2] = j
  BY <1>5 DEF J
<1>7. ASSUME NEW q \in ps
      PROVE  q[1] < p[1] \/ (q[1] = p[1] /\ q[2] <= p[2])
  <2>1. q[1] \in I /\ q[1] \in Nat
    BY DEF I
  <2>2. CASE q[1] = i
    BY <1>5, <1>6, <2>2 DEF J
  <2>3. CASE q[1] # i
    BY <1>2, <1>3, <1>6, <2>1, <2>3
  <2> QED
    BY <2>2, <2>3
<1> QED
  BY <1>6, <1>7 DEF IsLast

(* Where a record lies. *)
PositionsUpto(f, records, k) ==
  f = [j \in 1..k |-> IF j = 1 THEN 0 ELSE f[j - 1] + 16 * records[j - 1].size]

LEMMA PositionsExist ==
  ASSUME NEW records, NEW n \in Nat, \A i \in 1..n : records[i].size \in Nat,
         NEW i \in 1..n
  PROVE  \E f \in [1..i -> Nat] : PositionsUpto(f, records, i)
<1> DEFINE T == {k \in Nat : k <= n => \E f \in [1..k -> Nat] : PositionsUpto(f, records, k)}
<1>1. 0 \in T
  <2> DEFINE f == [j \in 1..0 |-> 0]
  <2>1. f \in [1..0 -> Nat] /\ PositionsUpto(f, records, 0)
    BY DEF PositionsUpto
  <2> QED
    BY <2>1
<1>2. ASSUME NEW k \in Nat, k \in T PROVE k + 1 \in T
  <2> SUFFICES ASSUME k + 1 <= n
               PROVE  \E f \in [1..k + 1 -> Nat] : PositionsUpto(f, records, k + 1)
    OBVIOUS
  <2>1. PICK f \in [1..k -> Nat] : PositionsUpto(f, records, k)
    BY <1>2
  <2> DEFINE x == IF k = 0 THEN 0 ELSE f[k] + 16 * records[k].size
             g == [j \in 1..k + 1 |-> IF j = k + 1 THEN x ELSE f[j]]
  <2>2. x \in Nat
    BY <2>1
  <2>3. \A j \in 1..k : j # 1 => j - 1 \in 1..k /\ f[j] = f[j - 1] + 16 * records[j - 1].size
    BY <2>1 DEF PositionsUpto
  <2>4. \A j \in 1..k : j = 1 => f[j] = 0
    BY <2>1 DEF PositionsUpto
  <2>5. g \in [1..k + 1 -> Nat]
    <3> HIDE DEF x
    <3> QED
      BY <2>1, <2>2
  <2>6. ASSUME NEW j \in 1..k + 1
        PROVE  g[j] = IF j = 1 THEN 0 ELSE g[j - 1] + 16 * records[j - 1].size
    <3>1. CASE j = k + 1 /\ k = 0
      BY <3>1
    <3>2. CASE j = k + 1 /\ k # 0
      <4>1. j # 1 /\ j - 1 = k /\ k \in 1..k + 1 /\ k # k + 1
        BY <3>2
      <4>2. g[j] = x /\ g[k] = f[k]
        BY <3>2, <4>1
      <4> QED
        BY <3>2, <4>1, <4>2
    <3>3. CASE j # k + 1
      <4>1. j \in 1..k /\ g[j] = f[j]
        BY <3>3
      <4>2. j # 1 => j - 1 \in 1..k + 1 /\ j - 1 # k + 1
        BY <4>1
      <4>3. j # 1 => g[j - 1] = f[j - 1]
        BY <4>2
      <4> HIDE DEF g
      <4> QED
        BY <2>3, <2>4, <4>1, <4>3
    <3> QED
      BY <3>1, <3>2, <3>3
  <2>7. PositionsUpto(g, records, k + 1)
    BY <2>6, Zenon DEF PositionsUpto, g
  <2> QED
    BY <2>5, <2>7
<1> HIDE DEF T
<1>3. Nat \subseteq T
  BY <1>1, <1>2, Induct
<1>4. i \in Nat /\ i <= n
  OBVIOUS
<1>5. i \in T
  BY <1>3, <1>4
<1> QED
  BY <1>4, <1>5, Zenon DEF T

LEMMA PositionIsNat ==
  ASSUME NEW records, NEW n \in Nat, \A i \in 1..n : records[i].size \in Nat,
         NEW i \in 1..n
  PROVE  Position(records, i) \in Nat
<1> DEFINE f == CHOOSE f : PositionsUpto(f, records, i)
<1>1. PICK h \in [1..i -> Nat] : PositionsUpto(h, records, i)
  BY PositionsExist
<1>2. PositionsUpto(f, records, i)
  BY <1>1
<1>3. Position(records, i) = f[i]
  BY DEF Position, PositionsUpto
<1> HIDE DEF f
<1> DEFINE T == {k \in Nat : k + 1 <= i => f[k + 1] \in Nat}
<1>0. i \in Nat
  OBVIOUS
<1>4. \A j \in 1..i : f[j] = IF j = 1 THEN 0 ELSE f[j - 1] + 16 * records[j - 1].size
  BY <1>2, Zenon DEF PositionsUpto
<1>5. 0 \in T
  BY <1>4
<1>6. ASSUME NEW k \in Nat, k \in T PROVE k + 1 \in T
  <2> SUFFICES ASSUME k + 2 <= i PROVE f[k + 2] \in Nat
    BY <1>6
  <2>1. k + 2 \in 1..i /\ k + 2 # 1 /\ (k + 2) - 1 = k + 1 /\ k + 1 \in 1..n
    BY <1>0
  <2>2. f[k + 2] = f[k + 1] + 16 * records[k + 1].size
    BY <1>4, <2>1, Zenon
  <2>3. f[k + 1] \in Nat
    BY <1>0, <1>6
  <2> QED
    BY <2>1, <2>2, <2>3
<1> HIDE DEF T
<1>7. Nat \subseteq T
  BY <1>5, <1>6, Induct
<1>8. i - 1 \in Nat /\ (i - 1) + 1 = i
  BY <1>0
<1>9. f[i] \in Nat
  <2>1. i - 1 \in T /\ (i - 1) + 1 <= i
    BY <1>0, <1>7, <1>8
  <2>2. f[(i - 1) + 1] \in Nat
    BY <2>1, Zenon DEF T
  <2> QED
    BY <1>8, <2>2
<1> QED
  BY <1>3, <1>9

(* The walk over the bundles is at one that the platform's does not lie      *)
(* before.                                                                   *)
Toward(blob, o, id) ==
  \A k \in DOMAIN blob.bundles :
    id \in ToSet(blob.bundles[k].ids) => o \in DOMAIN blob.bundles /\ o <= k

LEMMA TowardAtFirst ==
  ASSUME NEW blob, IsDefinition(blob), Bundled(blob), NEW id
  PROVE  Toward(blob, 0, id)
BY DEF Toward, Bundled, IsDefinition

(* A step of it passes none but bundles for other platforms.                 *)
LEMMA TowardStays ==
  ASSUME NEW blob, IsDefinition(blob), SoundBlob(blob), Bundled(blob), blob.size < AddrSpace,
         NEW id, id # NoId, NEW o, Toward(blob, o, id), Passes(blob, o, id)
  PROVE  Toward(blob, NextBundle(blob, o), id)
<1> DEFINE bundles == blob.bundles
           total == bundles[o].total
<1>1. o \in DOMAIN bundles /\ id \notin ToSet(bundles[o].ids)
  BY DEF Passes, Covers
<1>2. o \in Nat /\ total \in Nat /\ DOMAIN bundles \subseteq Nat /\ blob.size \in Nat
  BY <1>1 DEF IsDefinition, Range
<1>3. /\ o + total <= blob.size
      /\ \A p \in DOMAIN bundles : o < p => o + total <= p
      /\ o + total \in DOMAIN bundles \/ \A p \in DOMAIN bundles : p <= o
  BY <1>1 DEF SoundBlob
<1>4. NextBundle(blob, o) = o + total
  <2> HIDE DEF total
  <2>1. o + total \in Nat /\ o + total < AddrSpace
    BY <1>2, <1>3, SizesAssumption
  <2> QED
    BY <2>1, WrapSmall DEF NextBundle, total
<1> SUFFICES ASSUME NEW k \in DOMAIN bundles, id \in ToSet(bundles[k].ids)
             PROVE  o + total \in DOMAIN bundles /\ o + total <= k
  BY <1>4 DEF Toward
<1>5. o <= k /\ o # k /\ k \in Nat
  BY <1>1, <1>2 DEF Toward
<1>6. o < k
  BY <1>2, <1>5
<1> QED
  BY <1>2, <1>3, <1>6

(* A sound definition has the platform's table in one bundle, at which the   *)
(* walk stops.                                                               *)
LEMMA SelectedWhole ==
  ASSUME NEW blob, IsDefinition(blob), SoundBlob(blob), NEW id, id # NoId,
         NEW u \in TablesFor(blob, id),
         NEW o, Bundled(blob) => Toward(blob, o, id) /\ ~Passes(blob, o, id)
  PROVE  /\ IsTable(Selected(blob, o, id)) /\ SoundTable(Selected(blob, o, id))
         /\ Selected(blob, o, id).records = u.records /\ ~Overruns(blob, o)
<1> DEFINE bundles == blob.bundles
<1>1. CASE ~Bundled(blob)
  BY <1>1 DEF Selected, TablesFor, IsDefinition, SoundBlob, Overruns
<1>2. CASE Bundled(blob)
  <2>1. PICK k \in DOMAIN bundles : id \in ToSet(bundles[k].ids) /\ u = bundles[k].table
    BY <1>2 DEF TablesFor, Range
  <2>2. o \in DOMAIN bundles
    BY <1>2, <2>1 DEF Toward
  <2>3. \A i \in DOMAIN bundles :
          /\ ~Malformed(blob, i) /\ SoundTable(TableOf(bundles[i]))
          /\ i + bundles[i].total <= blob.size
          /\ id \in ToSet(bundles[i].ids) => i = k
    BY <1>2, <2>1 DEF SoundBlob
  <2>4. Covers(blob, o, id) /\ id \in ToSet(bundles[o].ids)
    BY <1>2, <2>2, <2>3 DEF Passes, Covers
  <2>5. o = k
    BY <2>2, <2>3, <2>4
  <2>6. ~Malformed(blob, k) /\ SoundTable(TableOf(bundles[k]))
    BY <2>3
  <2>7. Selected(blob, o, id) = TableOf(bundles[k])
    BY <1>2, <2>2, <2>4, <2>5, <2>6 DEF Selected
  <2>8. IsTable(u) /\ {bundles[k].header, bundles[k].total} \subseteq Nat
    BY <2>1 DEF IsDefinition, Range
  <2>9. bundles[k].total - bundles[k].header \in Nat
    BY <2>6, <2>8 DEF Malformed
  <2>10. IsTable(TableOf(bundles[k])) /\ TableOf(bundles[k]).records = u.records
    <3> DEFINE size == bundles[k].total - bundles[k].header
               t == [u EXCEPT !.size = size]
    <3>1. TableOf(bundles[k]) = t
      BY <2>1 DEF TableOf
    <3>2. /\ DOMAIN t = DOMAIN u /\ t.size = size /\ t.packed = u.packed /\ t.total = u.total
          /\ t.needs = u.needs /\ t.records = u.records
      BY <2>8 DEF IsTable, NoTable
    <3> HIDE DEF t, size
    <3>3. IsTable(t)
      BY <2>8, <2>9, <3>2 DEF IsTable, size
    <3> QED
      BY <3>1, <3>2, <3>3
  <2>11. ~Overruns(blob, o)
    <3>1. k \in Nat /\ blob.size \in Nat /\ bundles[k].total \in Nat
      BY <2>8 DEF IsDefinition
    <3> QED
      BY <2>3, <2>5, <3>1 DEF Overruns
  <2> QED
    BY <2>6, <2>7, <2>10, <2>11
<1> QED
  BY <1>1, <1>2

(* A sound table is decompressed, and the walk over its records comes to its *)
(* end marker.                                                               *)
LEMMA RecordsWalked ==
  ASSUME NEW t, IsTable(t), SoundTable(t)
  PROVE  LET d == Decompressed(t)
         IN /\ d.records = t.records /\ Gen11(d) /\ Said(t.records) \subseteq Walked(d)
<1> DEFINE d == Decompressed(t)
           size == IF t.zlib THEN TableHeader + t.needs ELSE t.size
           records == t.records
<1>1. /\ t.size \in Nat /\ t.packed \in Nat /\ t.needs \in Nat /\ DOMAIN t = DOMAIN NoTable
      /\ records \in Seq(Range(records)) /\ \A r \in Range(records) : IsRecord(r)
  BY DEF IsTable, IsSequence
<1>2. /\ t.size >= TableHeader
      /\ t.zlib => TableHeader <= t.packed /\ t.packed <= t.size /\ t.needs <= Room(t.total)
      /\ records # <<>> /\ 16 * records[1].size = TableHeader
      /\ \A i \in Said(records) :
           /\ RecordHeader <= 16 * records[i].size
           /\ Position(records, i) + 16 * records[i].size <= size
           /\ records[i].type = "engine" =>
                /\ records[i].count = Len(records[i].segments)
                /\ EngineEnd + records[i].count * SegmentSize <= 16 * records[i].size
  BY DEF SoundTable
<1>3. Len(records) \in Nat /\ DOMAIN records = 1..Len(records)
  BY <1>1
<1>4. \A i \in 1..Len(records) : IsRecord(records[i]) /\ records[i].size \in Nat
  BY <1>1, <1>3 DEF Range, IsRecord
<1>5. ~(t.size < TableHeader)
  BY <1>1, <1>2 DEF TableHeader
<1>6. d.records = records /\ d.size = size
  <2>1. CASE ~t.zlib
    BY <1>5, <2>1 DEF Decompressed
  <2>2. CASE t.zlib
    <3>1. ~(t.packed < TableHeader) /\ ~(t.packed > t.size)
      BY <1>1, <1>2, <2>2 DEF TableHeader
    <3>2. ~(t.needs > Room(t.total))
      <4>1. t.total \in Nat
        BY DEF IsTable
      <4>2. Room(t.total) \in Nat
        BY <4>1 DEF Room
      <4> QED
        BY <1>1, <1>2, <2>2, <4>2
    <3>3. d = [t EXCEPT !.size = TableHeader + t.needs]
      BY <1>5, <2>2, <3>1, <3>2 DEF Decompressed
    <3> QED
      BY <1>1, <2>2, <3>3 DEF NoTable
  <2> QED
    BY <2>1, <2>2
<1>7. size \in Nat /\ size >= TableHeader
  BY <1>1, <1>2 DEF TableHeader
<1> HIDE DEF size, records, d
<1>8. ASSUME NEW i \in Said(records) PROVE ~Ends(d, i)
  <2> DEFINE r == records[i]
             pos == Position(records, i)
  <2>1. i \in 1..Len(records) /\ r.type # "end"
    BY <1>3 DEF Said
  <2>2. r.size \in Nat /\ pos \in Nat
    BY <1>3, <1>4, <2>1, PositionIsNat
  <2>3. r.type = "engine" => Len(r.segments) \in Nat /\ r.count \in Nat
    BY <1>4, <2>1 DEF IsRecord
  <2>4. /\ RecordHeader <= 16 * r.size /\ pos + 16 * r.size <= size
        /\ r.type = "engine" => EngineEnd + r.count * SegmentSize <= 16 * r.size
    BY <1>2
  <2> DEFINE s == r.size
             c == r.count
             engine == r.type = "engine"
  <2>5. /\ s \in Nat /\ RecordHeader <= 16 * s /\ pos + 16 * s <= size
        /\ engine => c \in Nat /\ EngineEnd + c * SegmentSize <= 16 * s
    BY <2>2, <2>3, <2>4
  <2> HIDE DEF s, c, engine, pos, r
  <2>6. s # 0 /\ ~(pos + RecordHeader > size) /\ ~(pos + 16 * s > size)
    BY <1>7, <2>2, <2>5 DEF RecordHeader
  <2>7. engine => ~(pos + EngineEnd > size)
    BY <1>7, <2>2, <2>5 DEF EngineEnd, SegmentSize
  <2> QED
    BY <1>6, <2>1, <2>6, <2>7, Zenon DEF Ends, s, engine, pos, r
<1>9. Said(records) \subseteq Walked(d)
  <2> SUFFICES ASSUME NEW i \in Said(records) PROVE i \in Walked(d)
    OBVIOUS
  <2>1. i \in DOMAIN d.records
    BY <1>6 DEF Said
  <2>2. ASSUME NEW j \in 1..i PROVE ~Ends(d, j)
    <3>1. i \in 1..Len(records)
      BY <1>3 DEF Said
    <3>2. j \in 1..Len(records) /\ \A k \in 1..j : k \in 1..i
      BY <1>3, <3>1
    <3>3. j \in Said(records)
      BY <1>3, <3>2 DEF Said
    <3> QED
      BY <1>8, <3>3
  <2> QED
    BY <2>1, <2>2 DEF Walked
<1>10. Gen11(d)
  <2>1. size >= RecordHeader
    BY <1>7 DEF TableHeader, RecordHeader
  <2> QED
    BY <1>2, <1>6, <2>1 DEF Gen11
<1> QED
  BY <1>6, <1>9, <1>10 DEF d, records

(* What a sound table names is mapped. *)
LEMMA NamedIsMapped ==
  ASSUME NEW t, IsTable(t), SoundTable(t), NEW x \in NamedIn(t)
  PROVE  x[1] \in DOMAIN SegmentMapping(Decompressed(t))
<1> DEFINE d == Decompressed(t)
           records == t.records
           Of(i) == ToSet(records[i].segments)
           ps == SegmentsAt(d)
<1>1. d.records = records /\ Gen11(d) /\ Said(records) \subseteq Walked(d)
  BY RecordsWalked
<1> HIDE DEF d
<1>2. PICK i \in Said(records) :
        records[i].type = "engine" /\ \E s \in Of(i) : s.cpld /\ x = <<s.id, Channel(s)>>
  BY DEF NamedIn
<1>3. PICK s \in Of(i) : s.cpld /\ x = <<s.id, Channel(s)>>
  BY <1>2
<1>4. PICK j \in DOMAIN records[i].segments : s = records[i].segments[j]
  BY DEF ToSet
<1>5. /\ Len(records) \in Nat /\ DOMAIN records = 1..Len(records)
      /\ \A k \in 1..Len(records) : IsRecord(records[k])
  <2>1. records \in Seq(Range(records)) /\ \A r \in Range(records) : IsRecord(r)
    BY DEF IsTable, IsSequence
  <2>2. Len(records) \in Nat /\ DOMAIN records = 1..Len(records)
    BY <2>1
  <2> QED
    BY <2>1, <2>2 DEF Range
<1>6. \A k \in 1..Len(records) : records[k].type = "engine" =>
        /\ Len(records[k].segments) \in Nat
        /\ DOMAIN records[k].segments = 1..Len(records[k].segments)
  <2> SUFFICES ASSUME NEW k \in 1..Len(records), records[k].type = "engine"
               PROVE  /\ Len(records[k].segments) \in Nat
                      /\ DOMAIN records[k].segments = 1..Len(records[k].segments)
    OBVIOUS
  <2>1. records[k].segments \in Seq(Range(records[k].segments))
    BY <1>5 DEF IsRecord, IsSequence
  <2> QED
    BY <2>1
<1>7. i \in 1..Len(records)
  BY <1>5 DEF Said
<1>8. <<i, j>> \in ps
  <2> DEFINE r == records[i]
  <2>1. /\ r.size \in Nat /\ Len(r.segments) \in Nat /\ j \in 1..Len(r.segments)
        /\ r.count = Len(r.segments) /\ EngineEnd + r.count * SegmentSize <= 16 * r.size
    <3>1. IsRecord(r) /\ Len(r.segments) \in Nat /\ j \in 1..Len(r.segments)
      BY <1>2, <1>5, <1>6, <1>7
    <3>2. r.count = Len(r.segments) /\ EngineEnd + r.count * SegmentSize <= 16 * r.size
      BY <1>2 DEF SoundTable
    <3> QED
      BY <3>1, <3>2 DEF IsRecord
  <2>2. HasRoom(r, j)
    <3> DEFINE c == r.count
               n == r.size
    <3>1. c \in Nat /\ n \in Nat /\ j \in Nat /\ j <= c /\ EngineEnd + c * SegmentSize <= 16 * n
      BY <2>1
    <3> HIDE DEF c, n
    <3>2. EngineEnd + j * SegmentSize <= 16 * n
      BY <3>1 DEF EngineEnd, SegmentSize
    <3> QED
      BY <3>1, <3>2 DEF HasRoom, c, n
  <2>3. i \in EnginesOf(d)
    BY <1>1, <1>2 DEF EnginesOf
  <2>4. records[i] = d.records[i]
    BY <1>1
  <2> HIDE DEF records
  <2> QED
    BY <1>3, <1>4, <2>2, <2>3, <2>4 DEF SegmentsAt
<1> DEFINE Q == {q \in ps : Segment(d, q).id = s.id}
<1>9. <<i, j>> \in Q
  <2>1. Segment(d, <<i, j>>) = s
    BY <1>1, <1>4 DEF Segment
  <2> QED
    BY <1>8, <2>1
<1>10. \E p \in Q : IsLast(p, Q)
  <2> DEFINE n == Len(records)
             m == [k \in 1..n |-> IF records[k].type = "engine" THEN Len(records[k].segments) ELSE 0]
  <2>1. m \in [1..n -> Nat]
    BY <1>6
  <2>2. ASSUME NEW q \in ps PROVE q[1] \in 1..n /\ q[2] \in 1..m[q[1]]
    <3>1. PICK k \in EnginesOf(d) : \E l \in DOMAIN d.records[k].segments : q = <<k, l>>
      BY DEF SegmentsAt
    <3>2. k \in 1..n /\ records[k].type = "engine"
      BY <1>1, <1>5, <3>1 DEF EnginesOf, Walked
    <3>3. PICK l \in DOMAIN records[k].segments : q = <<k, l>>
      BY <1>1, <3>1
    <3>4. l \in 1..Len(records[k].segments)
      BY <1>6, <3>2, <3>3
    <3> QED
      BY <3>2, <3>3, <3>4
  <2> HIDE DEF m, n
  <2>3. \A q \in Q : q[1] \in 1..n /\ q[2] \in 1..m[q[1]]
    BY <2>2
  <2>4. Q # {} /\ n \in Nat
    BY <1>5, <1>9 DEF n
  <2> HIDE DEF Q
  <2> QED
    BY <2>1, <2>3, <2>4, LastIs
<1>11. PICK p \in Q : IsLast(p, Q)
  BY <1>10
<1>12. p \in LastSegments(d) /\ Segment(d, p).id = s.id
  BY <1>11 DEF LastSegments
<1> DEFINE segs == IF Gen11(d) THEN {Segment(d, q) : q \in LastSegments(d)} ELSE {}
<1>13. s.id \in {y.id : y \in segs}
  BY <1>1, <1>12
<1>14. DOMAIN SegmentMapping(d) = {y.id : y \in segs}
  BY DEF SegmentMapping
<1>15. x[1] = s.id
  BY <1>3
<1> QED
  BY <1>13, <1>14, <1>15 DEF d

-----------------------------------------------------------------------------
(* The steps. *)

LEMMA SegmentInitHolds == SegmentInit => SegmentInv
BY DEF SegmentInit, StartDaemon, SegmentInv, LoaderType, WalkType, OwnId, InImage, FoundIn,
   MapBacked, RightBus, Nothing, NoBus, StartWalk

(* The board stays what it is, and with it what is defined for it.           *)
LEMMA BackedStays ==
  ASSUME UNCHANGED rom, published \subseteq published', NEW s, NEW b, Backed(s, b)
  PROVE  Backed(s, b)'
BY DEF Backed, Board, Defined

LEMMA StartIs ==
  /\ StartDaemon.at = "id" /\ WalkType(StartDaemon.walk)
  /\ DOMAIN StartDaemon = {"at", "id", "walk", "offset", "matched", "failed"}
BY DEF StartDaemon, WalkType

LEMMA AroundKeeps ==
  ASSUME SegmentInv,
         \/ \E id \in Ids : Publish(id)
         \/ PublishOther
         \/ \E c \in Channels : Bind(c)
         \/ RegisterMatch
         \/ OnInterfacesAdded
         \/ NoPlatformId
         \/ InventoryFails
         \/ Abort
  PROVE  SegmentInv'
<1>1. /\ UNCHANGED rom /\ (map' = map \/ map' = <<>>) /\ published \subseteq published' /\ published' \subseteq Ids
      /\ bound' \subseteq Channels /\ reply' = Nothing
  BY DEF SegmentInv, LoaderType, Publish, PublishOther, Bind,
     RegisterMatch, OnInterfacesAdded, NoPlatformId,
     InventoryFails, Abort, mapped, world, NoReply
<1>2. LoaderType'
  BY <1>1, StartIs DEF SegmentInv, LoaderType, Publish, PublishOther, Bind,
     RegisterMatch, OnInterfacesAdded, NoPlatformId,
     InventoryFails, LoadFails, Abort, world
<1>3. daemon' = daemon \/ daemon'.at \in {"id", "idle", "match"}
  BY StartIs DEF SegmentInv, LoaderType, Publish, PublishOther, Bind,
     RegisterMatch, OnInterfacesAdded, NoPlatformId,
     InventoryFails, LoadFails, AfterLoad, Abort
<1>4. OwnId' /\ InImage'
  BY <1>1, <1>3 DEF SegmentInv, OwnId, InImage, image, Board
<1>5. MapBacked'
  BY <1>1, BackedStays DEF SegmentInv, MapBacked
<1>6. RightBus'
  BY <1>1 DEF RightBus, Nothing
<1> QED
  BY <1>2, <1>4, <1>5, <1>6 DEF SegmentInv

LEMMA WalkKeeps ==
  ASSUME SegmentInv,
         \/ \E id \in Ids : ReadPlatformId(id)
         \/ OpenRom
         \/ WalkVolumes
         \/ WalkFiles
         \/ WalkBundles
  PROVE  SegmentInv'
<1>1. /\ UNCHANGED <<rom, published, bound, map>> /\ reply' = Nothing
  BY DEF ReadPlatformId, OpenRom, WalkVolumes, WalkFiles, WalkBundles,
     mapped, world, NoReply
<1>2. /\ daemon'.at \in {"open", "walk"} => daemon'.id \in Board
      /\ DOMAIN daemon' = {"at", "id", "walk", "offset", "matched", "failed"}
  BY DEF SegmentInv, LoaderType, OwnId, ReadPlatformId, OpenRom,
     WalkVolumes, WalkFiles, WalkBundles, FilesWalked, Board, LoadFails,
     AfterLoad
<1>3. WalkType(daemon'.walk) /\ (daemon'.at = "walk" => FoundIn(daemon'.walk, image))
  <2>1. CASE \E id \in Ids : ReadPlatformId(id)
    BY <2>1 DEF SegmentInv, LoaderType, ReadPlatformId
  <2>2. CASE OpenRom
    <3>1. \/ daemon'.walk = StartWalk
          \/ daemon'.walk = daemon.walk /\ daemon'.at # "walk"
      BY <2>2 DEF SegmentInv, LoaderType, OpenRom, LoadFails,
         AfterLoad
    <3>2. WalkType(StartWalk) /\ FoundIn(StartWalk, image)
      BY DEF WalkType, FoundIn, StartWalk
    <3> QED
      BY <3>1, <3>2 DEF SegmentInv, LoaderType
  <2>3. CASE WalkVolumes
    BY <2>3, VolumeStepIn DEF SegmentInv, LoaderType, InImage, WalkVolumes,
       image
  <2>4. CASE WalkFiles
    BY <2>4, FileStepIn DEF SegmentInv, LoaderType, InImage, WalkFiles,
       image
  <2>5. CASE WalkBundles
    BY <2>5 DEF SegmentInv, LoaderType, InImage, WalkBundles, FilesWalked, image
  <2> QED
    BY <2>1, <2>2, <2>3, <2>4, <2>5
<1>4. LoaderType' /\ OwnId' /\ InImage'
  BY <1>1, <1>2, <1>3 DEF SegmentInv, LoaderType, OwnId, InImage, image, Board,
     WalkType, FoundIn
<1>5. MapBacked'
  BY <1>1, BackedStays DEF SegmentInv, MapBacked
<1>6. RightBus'
  BY <1>1 DEF RightBus, Nothing
<1> QED
  BY <1>4, <1>5, <1>6 DEF SegmentInv

LEMMA BuildKeeps ==
  ASSUME SegmentInv, NEW seen \in SUBSET bound, NEW failed, Build(seen, failed)
  PROVE  SegmentInv'
<1>0. PICK t \in TablesRead : \E b \in {MapOf(t, seen)} : Install(b, seen)
  BY DEF Build
<1> DEFINE m == SegmentMapping(t)
           buses == BusMap(m, [c \in seen |-> BusOf(c)])
<1>1. /\ UNCHANGED <<rom, published, bound>> /\ reply' = Nothing
      /\ daemon' = [daemon EXCEPT !.at = AfterLoad, !.walk = StartWalk, !.offset = 0,
                                  !.failed = failed]
      /\ daemon.at = "walk"
      /\ Install(buses, seen)
  BY <1>0 DEF Build, FilesWalked, world, NoReply, MapOf
<1>t. t \in {Decompressed(Selected(Extracted(daemon.walk, image), daemon.offset, daemon.id)),
            NoTable}
  BY DEF TablesRead, Raw
<1> HIDE DEF m
<1>2. daemon.id \in Board /\ daemon.id \in Ids
  BY <1>1 DEF SegmentInv, OwnId, LoaderType, Board
<1>3. \A s \in DOMAIN m : Defined(daemon.id, s, Channel(m[s]))
  BY <1>1, <1>2, <1>t, BuiltIsDefined DEF SegmentInv, InImage, m
<1>4. \A s \in DOMAIN buses : Backed(s, buses[s])
  <2> SUFFICES ASSUME NEW s \in DOMAIN buses PROVE Backed(s, buses[s])
    OBVIOUS
  <2> DEFINE c == Channel(m[s])
  <2>1. s \in DOMAIN m /\ c \in seen /\ buses[s] = BusOf(c)
    BY DEF BusMap
  <2>2. c \in Channels
    BY <2>1 DEF SegmentInv, LoaderType
  <2> QED
    BY <1>2, <1>3, <2>1, <2>2 DEF Backed
<1> HIDE DEF buses
<1>5. map' = map \/ map' = buses
  BY <1>1 DEF Install, mapped
<1>6. \A s \in DOMAIN map' : Backed(s, map'[s])
  BY <1>4, <1>5 DEF SegmentInv, MapBacked
<1>7. MapBacked'
  BY <1>1, <1>6, BackedStays DEF MapBacked
<1>8. LoaderType' /\ OwnId' /\ InImage' /\ RightBus'
  BY <1>1 DEF SegmentInv, LoaderType, WalkType, OwnId, InImage, RightBus,
     Nothing, AfterLoad
<1> QED
  BY <1>7, <1>8 DEF SegmentInv

(* A transfer is on the bus that the map has for its segment.                *)
LEMMA ProxyKeeps ==
  ASSUME SegmentInv, NEW req \in Requests, I2cProxy(req)
  PROVE  SegmentInv'
<1>1. UNCHANGED <<rom, published, bound, daemon, map>>
  BY DEF I2cProxy, I2cMalformed, I2cProbe, I2cTooLong,
     I2cNoSegment, I2cNoTransfer, I2cTransfer, Refuse,
     world, mapped
<1>2. \/ reply'.bus = NoBus
      \/ /\ reply'.segment = req.segment /\ req.segment \in DOMAIN map
         /\ reply'.bus = map[req.segment]
  BY DEF I2cProxy, I2cMalformed, I2cProbe, I2cTooLong,
     I2cNoSegment, I2cNoTransfer, I2cTransfer, Refuse,
     Answer
<1>3. LoaderType' /\ OwnId' /\ InImage' /\ MapBacked'
  BY <1>1 DEF SegmentInv, LoaderType, WalkType, OwnId, InImage, image, FoundIn, MapBacked,
     Backed, Board, Defined
<1>4. RightBus'
  BY <1>1, <1>2 DEF SegmentInv, MapBacked, Backed, RightBus, Board,
     Defined
<1> QED
  BY <1>3, <1>4 DEF SegmentInv

LEMMA SegmentStepHolds ==
  SegmentInv /\ [SegmentNext]_segmentVars => SegmentInv'
<1> SUFFICES ASSUME SegmentInv, [SegmentNext]_segmentVars PROVE SegmentInv'
  OBVIOUS
<1>1. CASE Environment \/ RegisterMatch \/ OnInterfacesAdded
  BY <1>1, AroundKeeps, BuildKeeps DEF Environment, ScanFails
<1>2. CASE Load
  BY <1>2, AroundKeeps, WalkKeeps, BuildKeeps DEF Load, BuildMap
<1>3. CASE \E req \in Requests : I2cProxy(req)
  BY <1>3, ProxyKeeps
<1>4. CASE UNCHANGED segmentVars
  BY <1>4 DEF SegmentInv, LoaderType, WalkType, OwnId, InImage, image, FoundIn, MapBacked,
     Backed, RightBus, Board, Defined, segmentVars,
     world, mapped
<1> QED
  BY <1>1, <1>2, <1>3, <1>4 DEF SegmentNext

(* The inductive invariant of a load: the walk stays in the image, the       *)
(* definition is looked for with the board's id, and the map has its buses.  *)
THEOREM SegmentInvariant == SegmentSpec => []SegmentInv
BY SegmentInitHolds, SegmentStepHolds, PTL DEF SegmentSpec

(* A transfer of the host is on the bus of a channel that a definition for   *)
(* this board names for its segment, whatever the ROM holds and whenever the *)
(* daemon has loaded it.                                                     *)
THEOREM TransfersOnTheRightBus ==
  SegmentSpec => []RightBus
<1>1. SegmentInv => RightBus
  BY DEF SegmentInv
<1> QED
  BY <1>1, SegmentInvariant, PTL

-----------------------------------------------------------------------------
(* Nothing is left out. *)

(* There is one board, and a map only for a board.                           *)
OneBoard == \A a, b \in Board : a = b

LoadedForBoard == loaded => Board # {}

(* The walk over the bundles begins at the first.                            *)
AtFirst == daemon.at = "walk" /\ daemon.walk.at # "done" => daemon.offset = 0

(* In a sound image, the walk is on its way to the definition, and in it to  *)
(* the bundle for the board.                                                 *)
WalkOn(d) ==
  /\ Ahead(d.walk, image)
  /\ d.walk.at = "done" =>
       LET blob == Extracted(d.walk, image)
       IN Bundled(blob) => Toward(blob, d.offset, d.id)

OnItsWay ==
  daemon.at = "walk" /\ rom \in SoundRoms /\ Carriers(image) # {} => WalkOn(daemon)

WholeInv == OneBoard /\ LoadedForBoard /\ AtFirst /\ OnItsWay /\ MapWhole

(* The register of a segment that is mapped is a number.                     *)
LEMMA MappedRegister ==
  ASSUME NEW t, IsTable(t), NEW d, d.records = t.records, NEW id \in DOMAIN SegmentMapping(d)
  PROVE  SegmentMapping(d)[id].register \in Int
<1> DEFINE segs == IF Gen11(d) THEN {Segment(d, p) : p \in LastSegments(d)} ELSE {}
           s == CHOOSE s \in segs : s.id = id
<1>1. id \in {x.id : x \in segs} /\ SegmentMapping(d)[id] = s
  BY DEF SegmentMapping
<1>2. s \in segs
  BY <1>1
<1> HIDE DEF s
<1>3. PICK p \in SegmentsAt(d) : s = Segment(d, p)
  BY <1>2 DEF LastSegments
<1>4. PICK i \in EnginesOf(d) : \E j \in DOMAIN d.records[i].segments : p = <<i, j>>
  BY <1>3 DEF SegmentsAt
<1>5. i \in DOMAIN t.records /\ t.records[i].type = "engine"
  BY <1>4 DEF EnginesOf, Walked
<1>6. IsRecord(t.records[i])
  BY <1>5 DEF IsTable, Range
<1>7. s \in Range(t.records[i].segments)
  BY <1>3, <1>4 DEF Segment, Range
<1>8. s.register \in Int
  BY <1>5, <1>6, <1>7 DEF IsRecord
<1> QED
  BY <1>1, <1>8

(* What a definition names comes from a carrier of the image.                *)
LEMMA DefinedBy ==
  ASSUME NEW id, NEW s, NEW c, Defined(id, s, c)
  PROVE  /\ c \in AllChannels
         /\ \E p \in Carriers(image) : \E t \in TablesFor(FileAt(image, p).blob, id) :
              \E x \in NamedIn(t) : x[1] = s
<1>1. <<rom, id, s, c>> \in Definitions
  BY DEF Defined
<1>2. c \in AllChannels
  <2>1. <<rom, id, s, c>>[4] = c
    OBVIOUS
  <2> QED
    BY <1>1, <2>1 DEF AllChannels
<1> DEFINE Named(i, j) == {<<i, j, x[1], x[2]>> : x \in DefinitionsIn(Images[i], j)}
<1>3. Definitions = UNION {Named(i, j) : i \in DOMAIN Images, j \in Ids}
  BY DEF Definitions
<1>4. PICK i \in DOMAIN Images, j \in Ids : <<rom, id, s, c>> \in Named(i, j)
  <2> HIDE DEF Named
  <2> QED
    BY <1>1, <1>3
<1>5. PICK x \in DefinitionsIn(Images[i], j) : <<rom, id, s, c>> = <<i, j, x[1], x[2]>>
  BY <1>4
<1>6. i = rom /\ j = id /\ x[1] = s
  BY <1>5
<1>7. x \in DefinitionsIn(image, id)
  BY <1>5, <1>6 DEF image
<1>8. PICK p \in Carriers(image) : \E t \in TablesFor(FileAt(image, p).blob, id) : x \in NamedIn(t)
  BY <1>7 DEF DefinitionsIn
<1> QED
  BY <1>2, <1>6, <1>8

(* A load from a sound image takes in each segment that can be served.       *)
LEMMA BuiltIsWhole ==
  ASSUME LoaderType, rom \in SoundRoms, FilesWalked, ~Passing, FoundIn(daemon.walk, image),
         Carriers(image) # {} => WalkOn(daemon), daemon.id \in Ids,
         NEW t \in TablesRead, NEW seen \in SUBSET bound,
         NEW m, m = SegmentMapping(t)
  PROVE  Resolvable(daemon.id, seen) \subseteq DOMAIN BusMap(m, [c \in seen |-> BusOf(c)])
<1> DEFINE id == daemon.id
           topology == [c \in seen |-> BusOf(c)]
<1> SUFFICES ASSUME NEW s \in Resolvable(id, seen)
             PROVE  s \in DOMAIN BusMap(m, topology)
  OBVIOUS
<1> DEFINE blob == Extracted(daemon.walk, image)
           u == Selected(blob, daemon.offset, id)
           d == Decompressed(u)
<1>1. IsImage(image) /\ Sound(image) /\ id # NoId
  BY ImagesAssumption, IdsAssumption DEF SoundRoms, image
<1>2. PICK c \in Channels : Defined(id, s, c)
  BY DEF Resolvable
<1>0. PICK p \in Carriers(image) : \E y \in TablesFor(FileAt(image, p).blob, id) :
        \E x \in NamedIn(y) : x[1] = s
  BY <1>2, DefinedBy
<1>3. PICK y \in TablesFor(FileAt(image, p).blob, id) : \E x \in NamedIn(y) : x[1] = s
  BY <1>0
<1>a. WalkOn(daemon) /\ daemon.walk.at = "done"
  BY DEF FilesWalked
<1>4. blob = FileAt(image, p).blob /\ SoundBlob(blob) /\ IsDefinition(blob)
  BY <1>1, <1>3, <1>a, ExtractedWhole DEF WalkOn
<1>b. Bundled(blob) => Toward(blob, daemon.offset, id) /\ ~Passes(blob, daemon.offset, id)
  BY <1>a DEF WalkOn, Passing, Raw
<1>c. blob = Raw
  BY DEF Raw
<1> HIDE DEF blob
<1>5. IsTable(u) /\ SoundTable(u) /\ u.records = y.records /\ ~Overruns(blob, daemon.offset)
  BY <1>1, <1>3, <1>4, <1>b, SelectedWhole
<1>d. t = d
  BY <1>5, <1>c DEF TablesRead
<1> HIDE DEF u
<1>6. NamedIn(u) = NamedIn(y)
  BY <1>5 DEF NamedIn
<1>7. d.records = u.records
  BY <1>5, RecordsWalked
<1>8. s \in DOMAIN SegmentMapping(d)
  BY <1>3, <1>5, <1>6, NamedIsMapped
<1>9. m = SegmentMapping(d)
  BY <1>d
<1>10. m[s].register \in Int
  BY <1>5, <1>7, <1>8, <1>9, MappedRegister
<1>11. Defined(id, s, Channel(m[s]))
  <2>1. d \in {Decompressed(Selected(Extracted(daemon.walk, image), daemon.offset, id)), NoTable}
    BY DEF blob, u
  <2> HIDE DEF d
  <2> QED
    BY <1>8, <1>9, <2>1, BuiltIsDefined
<1>12. Channel(m[s]) \in seen
  BY <1>11, DefinedBy DEF Resolvable
<1>13. m[s].register >= CpldBase
  <2>1. Channel(m[s])[1] \in Nat
    BY <1>12, ChannelsAssumption DEF LoaderType
  <2>2. m[s].register - CpldBase \in Nat
    BY <2>1 DEF Channel
  <2> QED
    BY <1>10, <2>2 DEF CpldBase
<1> QED
  BY <1>8, <1>9, <1>12, <1>13 DEF BusMap

LEMMA WholeInitHolds == SegmentInit => WholeInv
BY DEF SegmentInit, StartDaemon, WholeInv, OneBoard, LoadedForBoard, AtFirst, OnItsWay, MapWhole,
   Board

(* What does not touch the map keeps it whole, if the board stays.           *)
LEMMA MapStays ==
  ASSUME MapWhole, UNCHANGED <<rom, map, loaded, scanned>>, loaded => Board' = Board
  PROVE  MapWhole'
BY DEF MapWhole, Resolvable, Defined

LEMMA AroundKeepsWhole ==
  ASSUME SegmentInv, WholeInv,
         \/ \E id \in Ids : Publish(id)
         \/ PublishOther
         \/ \E c \in Channels : Bind(c)
         \/ RegisterMatch
         \/ OnInterfacesAdded
         \/ NoPlatformId
         \/ InventoryFails
         \/ Abort
  PROVE  WholeInv'
<1>1. UNCHANGED rom /\ (UNCHANGED <<map, loaded, scanned>> \/ loaded' = FALSE)
  BY DEF Publish, PublishOther, Bind, RegisterMatch, OnInterfacesAdded, NoPlatformId,
     InventoryFails, Abort, mapped, world
<1>2. daemon' = daemon \/ daemon'.at \in {"id", "idle", "match"}
  BY StartIs DEF SegmentInv, LoaderType, Publish, PublishOther, Bind, RegisterMatch,
     OnInterfacesAdded, NoPlatformId, InventoryFails, LoadFails, AfterLoad, Abort
<1>3. AtFirst' /\ OnItsWay'
  BY <1>1, <1>2 DEF WholeInv, AtFirst, OnItsWay, WalkOn, image, SoundRoms
<1>4. /\ OneBoard' /\ (Board # {} => Board' = Board)
  <2>1. CASE UNCHANGED published
    BY <2>1 DEF WholeInv, OneBoard, Board
  <2>2. CASE \E id \in Ids : Publish(id)
    <3>1. PICK id \in Ids : Publish(id)
      BY <2>2
    <3>2. CASE id \in WideIds
      BY <3>1, <3>2 DEF Publish, WholeInv, OneBoard, Board
    <3>3. CASE id \notin WideIds
      BY <3>1, <3>3 DEF Publish, WholeInv, OneBoard, Board
    <3> QED
      BY <3>2, <3>3
  <2>3. UNCHANGED published \/ \E id \in Ids : Publish(id)
    BY DEF PublishOther, Bind, RegisterMatch, OnInterfacesAdded, NoPlatformId,
       InventoryFails, Abort, world
  <2> QED
    BY <2>1, <2>2, <2>3
<1>5. LoadedForBoard' /\ (loaded => Board' = Board)
  BY <1>1, <1>4 DEF WholeInv, LoadedForBoard
<1>6. MapWhole'
  BY <1>1, <1>5, MapStays DEF WholeInv, MapWhole
<1> QED
  BY <1>3, <1>4, <1>5, <1>6 DEF WholeInv

LEMMA WalkKeepsWhole ==
  ASSUME SegmentInv, WholeInv,
         \/ \E id \in Ids : ReadPlatformId(id)
         \/ OpenRom
         \/ WalkVolumes
         \/ WalkFiles
         \/ WalkBundles
  PROVE  WholeInv'
<1>1. UNCHANGED <<rom, published, map, loaded, scanned>>
  BY DEF ReadPlatformId, OpenRom, WalkVolumes, WalkFiles, WalkBundles, mapped, world
<1>a. AtFirst' /\ (daemon.at = "walk" => UNCHANGED <<daemon.at, daemon.id>>)
  BY DEF WholeInv, AtFirst, SegmentInv, LoaderType, ReadPlatformId, OpenRom, LoadFails, AfterLoad,
     WalkVolumes, WalkFiles, WalkBundles, FilesWalked, StartWalk
<1>2. OnItsWay'
  <2> SUFFICES ASSUME daemon'.at = "walk", rom \in SoundRoms, Carriers(image) # {}
               PROVE  WalkOn(daemon')
    BY <1>1 DEF OnItsWay, WalkOn, image, SoundRoms
  <2>1. IsImage(image) /\ Sound(image)
    BY ImagesAssumption DEF SoundRoms, image
  <2>2. CASE \E id \in Ids : ReadPlatformId(id)
    BY <2>2 DEF ReadPlatformId, SegmentInv, LoaderType
  <2>3. CASE OpenRom
    <3>1. daemon'.walk = StartWalk
      BY <2>3 DEF OpenRom, LoadFails, AfterLoad, SegmentInv, LoaderType
    <3>2. \A p \in Carriers(image) : 0 <= p[1]
      BY <2>1, CarrierLies
    <3>3. 0 % Block = 0
      <4>1. Block \in Nat \ {0} /\ Block * 0 + 0 = 0 /\ 0 < Block
        BY SizesAssumption
      <4>2. (Block * 0 + 0) % Block = 0
        BY <4>1, SameRemainder
      <4> QED
        BY <4>1, <4>2
    <3>4. /\ StartWalk.at = "volumes" /\ StartWalk.good = TRUE /\ StartWalk.fv = 0
      BY DEF StartWalk
    <3> QED
      BY <3>1, <3>2, <3>3, <3>4 DEF Ahead, WalkOn
  <2>6. ASSUME daemon.at = "walk", daemon.walk.at # "done", Ahead(daemon'.walk, image),
               daemon'.offset = daemon.offset
        PROVE  WalkOn(daemon')
    <3> DEFINE blob == Extracted(daemon'.walk, image)
    <3>1. daemon'.offset = 0
      BY <2>6 DEF WholeInv, AtFirst
    <3>2. daemon'.walk.at = "done" => IsDefinition(blob)
      <4>1. PICK p : p \in Carriers(image)
        OBVIOUS
      <4> QED
        BY <2>1, <2>6, <4>1, ExtractedWhole
    <3> HIDE DEF blob
    <3>3. daemon'.walk.at = "done" /\ Bundled(blob) => Toward(blob, 0, daemon'.id)
      BY <3>2, TowardAtFirst
    <3> QED
      BY <2>6, <3>1, <3>3 DEF WalkOn, blob
  <2>4. CASE WalkVolumes
    <3>1. /\ daemon.at = "walk" /\ daemon.walk.at = "volumes"
          /\ daemon'.walk = VolumeStep(daemon.walk, image)
      BY <2>4 DEF WalkVolumes, SegmentInv, LoaderType
    <3>2. Ahead(daemon.walk, image) /\ WalkType(daemon.walk)
      BY <3>1 DEF WholeInv, OnItsWay, WalkOn, SegmentInv, LoaderType
    <3>3. Ahead(daemon'.walk, image)
      BY <2>1, <3>1, <3>2, VolumeStepAhead
    <3> QED
      BY <2>4, <3>1, <3>3, <2>6 DEF WalkVolumes
  <2>5. CASE WalkFiles
    <3>1. /\ daemon.at = "walk" /\ daemon.walk.at = "files"
          /\ daemon'.walk = FileStep(daemon.walk, image)
      BY <2>5 DEF WalkFiles, SegmentInv, LoaderType
    <3>2. Ahead(daemon.walk, image) /\ WalkType(daemon.walk)
      BY <3>1 DEF WholeInv, OnItsWay, WalkOn, SegmentInv, LoaderType
    <3>3. Ahead(daemon'.walk, image)
      BY <2>1, <3>1, <3>2, FileStepAhead
    <3> QED
      BY <2>5, <3>1, <3>3, <2>6 DEF WalkFiles
  <2>7. CASE WalkBundles
    <3> DEFINE blob == Extracted(daemon.walk, image)
    <3>1. /\ daemon.at = "walk" /\ daemon.walk.at = "done" /\ Passes(blob, daemon.offset, daemon.id)
          /\ daemon' = [daemon EXCEPT !.offset = NextBundle(blob, @)]
      BY <2>7 DEF WalkBundles, FilesWalked, Passing, Raw
    <3>2. /\ daemon'.walk = daemon.walk /\ daemon'.id = daemon.id
          /\ daemon'.offset = NextBundle(blob, daemon.offset)
      BY <3>1 DEF SegmentInv, LoaderType
    <3>3. Ahead(daemon.walk, image) /\ (Bundled(blob) => Toward(blob, daemon.offset, daemon.id))
      BY <3>1 DEF WholeInv, OnItsWay, WalkOn
    <3>4. SoundBlob(blob) /\ IsDefinition(blob) /\ blob.size < AddrSpace
      <4>1. PICK p : p \in Carriers(image)
        OBVIOUS
      <4> QED
        BY <2>1, <3>1, <3>3, <4>1, ExtractedWhole
    <3>5. daemon.id # NoId
      BY <3>1, IdsAssumption DEF SegmentInv, OwnId, LoaderType, Board
    <3> HIDE DEF blob
    <3>6. Bundled(blob) => Toward(blob, NextBundle(blob, daemon.offset), daemon.id)
      BY <3>1, <3>3, <3>4, <3>5, TowardStays
    <3> QED
      BY <3>2, <3>3, <3>6 DEF WalkOn, blob
  <2> QED
    BY <2>2, <2>3, <2>4, <2>5, <2>7
<1>3. Board' = Board
  BY <1>1 DEF Board
<1>4. MapWhole'
  BY <1>1, <1>3, MapStays DEF WholeInv
<1> QED
  BY <1>1, <1>2, <1>3, <1>4, <1>a DEF WholeInv, OneBoard, LoadedForBoard

LEMMA BuildKeepsWhole ==
  ASSUME SegmentInv, WholeInv, NEW seen \in SUBSET bound, NEW failed, Build(seen, failed)
  PROVE  WholeInv'
<1>0. PICK t \in TablesRead : \E b \in {MapOf(t, seen)} : Install(b, seen)
  BY DEF Build
<1> DEFINE m == SegmentMapping(t)
           buses == BusMap(m, [c \in seen |-> BusOf(c)])
<1>1. /\ UNCHANGED <<rom, published, bound>>
      /\ daemon' = [daemon EXCEPT !.at = AfterLoad, !.walk = StartWalk, !.offset = 0,
                                  !.failed = failed]
      /\ daemon.at = "walk" /\ FilesWalked /\ ~Passing
      /\ Install(buses, seen)
  BY <1>0 DEF Build, FilesWalked, world, MapOf
<1> HIDE DEF m
<1>2. daemon.id \in Board /\ daemon.id \in Ids
  BY <1>1 DEF SegmentInv, OwnId, LoaderType, Board
<1>3. Board' = Board
  BY <1>1 DEF Board
<1>4. OneBoard' /\ LoadedForBoard' /\ AtFirst' /\ OnItsWay'
  BY <1>1, <1>2, <1>3 DEF WholeInv, OneBoard, LoadedForBoard, AtFirst, OnItsWay, AfterLoad,
     SegmentInv, LoaderType, Install, mapped
<1>5. MapWhole'
  <2>1. CASE UNCHANGED mapped
    BY <1>1, <1>3, <2>1, MapStays DEF WholeInv, mapped
  <2>2. CASE map' = buses /\ loaded' = TRUE /\ scanned' = seen
    <3> SUFFICES ASSUME rom \in SoundRoms, NEW id \in Board
                 PROVE  Resolvable(id, seen) \subseteq DOMAIN buses
      <4>1. \A id : Resolvable(id, scanned)' = Resolvable(id, seen)
        BY <1>1, <2>2 DEF Resolvable, Defined
      <4> QED
        BY <1>1, <1>3, <2>2, <4>1 DEF MapWhole
    <3>1. id = daemon.id
      BY <1>2 DEF WholeInv, OneBoard
    <3>2. Carriers(image) # {} => WalkOn(daemon)
      BY <1>1 DEF WholeInv, OnItsWay
    <3>3. LoaderType /\ FoundIn(daemon.walk, image)
      BY <1>1 DEF SegmentInv, InImage
    <3> QED
      BY <1>1, <1>2, <3>1, <3>2, <3>3, BuiltIsWhole DEF m
  <2> QED
    BY <1>1, <2>1, <2>2 DEF Install
<1> QED
  BY <1>4, <1>5 DEF WholeInv

LEMMA WholeStepHolds ==
  SegmentInv /\ WholeInv /\ [SegmentNext]_segmentVars => WholeInv'
<1> SUFFICES ASSUME SegmentInv, WholeInv, [SegmentNext]_segmentVars PROVE WholeInv'
  OBVIOUS
<1>1. CASE Environment \/ RegisterMatch \/ OnInterfacesAdded
  BY <1>1, AroundKeepsWhole, BuildKeepsWhole DEF Environment, ScanFails
<1>2. CASE Load
  BY <1>2, AroundKeepsWhole, WalkKeepsWhole, BuildKeepsWhole DEF Load, BuildMap
<1>3. CASE (\E req \in Requests : I2cProxy(req)) \/ UNCHANGED segmentVars
  <2>1. UNCHANGED <<rom, published, daemon, map, loaded, scanned>>
    BY <1>3 DEF I2cProxy, I2cMalformed, I2cProbe, I2cTooLong, I2cNoSegment, I2cNoTransfer,
       I2cTransfer, Refuse, world, mapped, segmentVars
  <2>2. Board' = Board
    BY <2>1 DEF Board
  <2>3. MapWhole'
    BY <2>1, <2>2, MapStays DEF WholeInv
  <2> QED
    BY <2>1, <2>2, <2>3 DEF WholeInv, OneBoard, LoadedForBoard, AtFirst, OnItsWay, WalkOn, image
<1> QED
  BY <1>1, <1>2, <1>3 DEF SegmentNext

(* From a sound image, whatever else is in it and wherever the definition    *)
(* lies, the map that the daemon keeps leaves out no segment for this board  *)
(* whose channels all had their bus when it was made.                        *)
THEOREM NothingLeftOutOfMap ==
  SegmentSpec => []MapWhole
<1>1. SegmentInit => WholeInv
  BY WholeInitHolds
<1>2. SegmentInv /\ WholeInv /\ [SegmentNext]_segmentVars => WholeInv'
  BY WholeStepHolds
<1>3. WholeInv => MapWhole
  BY DEF WholeInv
<1> QED
  BY <1>1, <1>2, <1>3, SegmentInvariant, PTL DEF SegmentSpec

=============================================================================

--------------------------- MODULE FruSynthProofs ---------------------------
(***************************************************************************)
(* What holds of the files in /etc/fru for every inventory, any images,    *)
(* any number of changes and any failures; and that every image, made of   *)
(* whatever texts, is read back byte by byte as it was meant.              *)
(***************************************************************************)
EXTENDS FruSynth, SequenceTheorems, WellFoundedInduction, TLAPS

-----------------------------------------------------------------------------
(* The invariant. *)

(* What is missing, or there, now is known to have been so during the pass. *)
GoneIsKnown == ~Idle => Missing \subseteq job.gone /\ There \subseteq job.seen

(* The list with the object has been asked for. *)
Looked(i) == ListOf(i) <= reading.lists

Called(i) == Calls(i, i \in reading.found)

(* Nothing is known that was not asked for. *)
UnreadIsBlank ==
  job.at = "read" => \A i \in Items :
    /\ ~Looked(i) => /\ i \notin reading.found
                     /\ \A k \in ReadInterfaces : <<i, k>> \notin reading.left
    /\ \A k \in ReadInterfaces :
         /\ <<i, k>> \in reading.left => k \in Called(i)
         /\ ~Looked(i) \/ k \notin Called(i) \/ <<i, k>> \in reading.left
              => reading.got[i][k] = None

(* What an interface says may have changed since, but then a signal waits,   *)
(* or the change made none.                                                  *)
Noted(i, k) == pending \/ armed \/ <<i, k>> \in unheard

(* What is read is right, or it is noted. *)
ListIsRight(i) ==
  /\ IF i \in reading.found THEN i \in job.seen ELSE <<i, "object">> \in job.gone
  /\ Noted(i, "object") \/ (i \in reading.found <=> Present(i))

CallIsRight(i, k) ==
  /\ reading.got[i][k] = None => <<i, k>> \in job.gone
  /\ Noted(i, k) \/ reading.got[i][k] = inv[i][k]

ReadIsRight ==
  job.at = "read" /\ ~job.failed => \A i \in Items : Looked(i) =>
    /\ ListIsRight(i)
    /\ \A k \in Called(i) : <<i, k>> \in reading.left \/ CallIsRight(i, k)

Late == job.at \in {"write", "fill", "remove", "rescan"}

Excused(i) == pending \/ armed \/ ChangedUnheard(i)

(* And so is what was made of it. *)
MadeIsRight ==
  Late /\ ~job.failed => \A i \in Items :
    /\ job.desired[i] = None => Unnamed(i)
    /\ Excused(i) \/ job.desired[i] = ImageOf(i)

ToWrite == {i \in Items : job.desired[i] # None}

(* What is no longer to be done has been done. *)
DoneIsDone ==
  /\ job.at \in {"write", "fill"} => job.todo \subseteq ToWrite
  /\ job.at = "remove" => \A i \in job.todo : job.desired[i] = None
  /\ job.at = "fill" => job.cur \in ToWrite \ job.todo
  /\ ~job.failed => \A i \in Items :
       /\ job.at \in {"write", "fill"} /\ i \in ToWrite \ job.todo
            /\ ~(job.at = "fill" /\ i = job.cur) => files[i] = job.desired[i]
       /\ job.at = "remove" /\ i \notin job.todo => files[i] = job.desired[i]
       /\ job.at = "rescan" => files[i] = job.desired[i]

IInv ==
  /\ TypeOK /\ GoneIsKnown /\ UnreadIsBlank /\ ReadIsRight
  /\ MadeIsRight /\ DoneIsDone /\ FilesCurrent

-----------------------------------------------------------------------------
(* Types. *)

LEMMA BoardIsItem == Board \in Items
BY DEF Items

LEMMA IdleJobType ==
  /\ IdleJob \in Job /\ NoImages \in [Items -> AllImages \cup {None}]
  /\ IdleJob.at = "idle"
BY BoardIsItem DEF IdleJob, NoImages, Job

LEMMA EndedType ==
  ASSUME job \in Job
  PROVE  Ended \in Job /\ Ended.at = "idle" /\ Ended.failed = job.failed
BY IdleJobType DEF Ended, Job

LEMMA NoReadingType == NoReading \in Reading /\ \A i \in Items : ListOf(i) \in 1..3
BY DEF NoReading, Reading, Contents, ListOf

LEMMA FruTypes ==
  /\ NoFruDevice \in FruDevice
  /\ \A b \in BOOLEAN : [NoFruDevice EXCEPT !.up = b] \in FruDevice
BY DEF NoFruDevice, NoImages, FruDevice

(* An image has a name; what has none is no image. *)
LEMMA ImageInType ==
  ASSUME NEW c \in Contents
  PROVE  /\ ImageIn(c) \in AllImages \cup {None}
         /\ ImageIn(c) = None => \A k \in Naming : c[k] = None
BY ConstantsAssumption DEF ImageIn, AllImages

LEMMA InterfacesRead == ReadInterfaces \subseteq Interfaces /\ "object" \in Interfaces
BY DEF Interfaces

LEMMA CallsAreRead ==
  \A i, f : Calls(i, f) \subseteq ReadInterfaces
BY DEF Calls, ReadInterfaces

LEMMA SameInventory ==
  ASSUME UNCHANGED inv
  PROVE  /\ Missing' = Missing /\ There' = There
         /\ \A i : Present(i)' = Present(i) /\ ImageOf(i)' = ImageOf(i)
BY DEF Missing, There, Present, ImageOf

LEMMA InitHolds == Init => IInv
<1> SUFFICES ASSUME Init PROVE IInv
  OBVIOUS
<1>1. TypeOK
  <2>1. inv \in [Items -> [Interfaces -> Texts \cup {None}]]
        /\ files \in [Items -> AllImages \cup {None, Torn}]
    BY ConstantsAssumption DEF Init
  <2>2. changes \in 0..MaxChanges
    BY ConstantsAssumption DEF Init
  <2> QED
    BY <2>1, <2>2, IdleJobType, NoReadingType, FruTypes DEF Init, TypeOK
<1>2. job.at = "idle" /\ armed
  BY IdleJobType DEF Init
<1> QED
  BY <1>1, <1>2 DEF IInv, GoneIsKnown, UnreadIsBlank, ReadIsRight, MadeIsRight, DoneIsDone,
     FilesCurrent, Idle, Quiet, Late

-----------------------------------------------------------------------------
(* The inventory. *)

(* A change is told: a signal waits, or it is one of those that make none.   *)
LEMMA ChangeKeeps ==
  ASSUME IInv, NEW i \in Items, NEW o \in Objects[i], Change(i, o),
         UNCHANGED <<files, armed, reading, fru>>, pending' \in BOOLEAN, pending => pending',
         unheard \subseteq unheard', unheard' \subseteq Items \X Interfaces,
         \A k \in Interfaces : o[k] # inv[i][k] => pending' \/ <<i, k>> \in unheard'
  PROVE  IInv'
<1>0. TypeOK /\ job \in Job
  BY DEF IInv, TypeOK
<1>1. /\ inv' = [inv EXCEPT ![i] = o] /\ o \in [Interfaces -> Texts \cup {None}]
      /\ inv' \in [Items -> [Interfaces -> Texts \cup {None}]]
  BY <1>0, ConstantsAssumption DEF Change, TypeOK
<1>2. /\ job'.at = job.at /\ job'.todo = job.todo /\ job'.desired = job.desired
      /\ job'.cur = job.cur /\ job'.failed = job.failed
      /\ job.gone \subseteq job'.gone /\ job.seen \subseteq job'.seen
      /\ ~Idle => Missing' \subseteq job'.gone /\ There' \subseteq job'.seen
      /\ job' \in Job
  <2>1. CASE Idle
    BY <1>0, <2>1 DEF Change, Idle
  <2>2. CASE ~Idle
    <3>1. job' = [at |-> job.at, todo |-> job.todo, desired |-> job.desired, cur |-> job.cur,
                  changed |-> job.changed, gone |-> job.gone \cup Missing',
                  seen |-> job.seen \cup There', failed |-> job.failed]
      BY <1>0, <2>2 DEF Change, Idle, Job
    <3>2. Missing' \subseteq Items \X Interfaces /\ There' \subseteq Items
      BY DEF Missing, There
    <3> QED
      BY <1>0, <3>1, <3>2 DEF Job
  <2> QED
    BY <2>1, <2>2
<1>3. TypeOK'
  <2>1. changes' \in 0..MaxChanges
    BY <1>0, ConstantsAssumption DEF TypeOK, Change
  <2> QED
    BY <1>0, <1>1, <1>2, <2>1 DEF TypeOK
<1>4. \A j \in Items, k \in Interfaces :
        inv'[j][k] # inv[j][k] => pending' \/ <<j, k>> \in unheard'
  BY <1>0, <1>1 DEF TypeOK
<1>5. \A j \in Items : ~Excused(j)' => ~Excused(j) /\ ImageOf(j)' = ImageOf(j)
  <2> SUFFICES ASSUME NEW j \in Items, ~Excused(j)'
      PROVE  ~Excused(j) /\ ImageOf(j)' = ImageOf(j)
    OBVIOUS
  <2>1. ~pending' /\ ~armed' /\ ~pending /\ ~armed
    BY DEF Excused
  <2>2. \A k \in Calls(j, Present(j)') \cup {"object"} : <<j, k>> \notin unheard'
    BY DEF Excused, ChangedUnheard, Calls
  <2>3. Present(j)' = Present(j)
    BY <1>4, <2>1, <2>2, InterfacesRead DEF Present
  <2>4. \A k \in Calls(j, Present(j)) : inv'[j][k] = inv[j][k]
    BY <1>4, <2>1, <2>2, <2>3, InterfacesRead, CallsAreRead DEF Present
  <2>5. ~Excused(j)
    BY <2>1, <2>2, <2>3 DEF Excused, ChangedUnheard
  <2>6. ImageOf(j)' = ImageOf(j)
    <3>1. [k \in ReadInterfaces |-> IF k \in Calls(j, Present(j)') THEN inv'[j][k] ELSE None]
            = [k \in ReadInterfaces |-> IF k \in Calls(j, Present(j)) THEN inv[j][k] ELSE None]
      BY <2>3, <2>4
    <3> QED
      BY <3>1 DEF ImageOf, ImageIn, Calls
  <2> QED
    BY <2>5, <2>6
<1>6. GoneIsKnown' /\ UnreadIsBlank'
  BY <1>2 DEF IInv, GoneIsKnown, UnreadIsBlank, Idle, Looked, Called
<1>7. ReadIsRight'
  <2> SUFFICES ASSUME job'.at = "read", ~job'.failed, NEW j \in Items, Looked(j)'
      PROVE  /\ ListIsRight(j)'
             /\ \A k \in Called(j)' : <<j, k>> \in reading'.left \/ CallIsRight(j, k)'
    BY DEF ReadIsRight
  <2>1. /\ ListIsRight(j) /\ Called(j)' = Called(j)
        /\ \A k \in Called(j) : <<j, k>> \in reading.left \/ CallIsRight(j, k)
    BY <1>2 DEF IInv, ReadIsRight, Looked, Called
  <2>2. ListIsRight(j)'
    BY <1>2, <1>4, <2>1, InterfacesRead DEF ListIsRight, Noted, Present
  <2>3. ASSUME NEW k \in Called(j), <<j, k>> \notin reading.left
        PROVE  CallIsRight(j, k)'
    <3>1. k \in Interfaces
      BY InterfacesRead, CallsAreRead DEF Called
    <3> QED
      BY <1>2, <1>4, <2>1, <2>3, <3>1 DEF CallIsRight, Noted
  <2> QED
    BY <2>1, <2>2, <2>3
<1>8. MadeIsRight'
  <2>1. \A j \in Items : Unnamed(j) => Unnamed(j)'
    BY <1>2 DEF Unnamed
  <2> QED
    BY <1>2, <1>5, <2>1 DEF IInv, MadeIsRight, Late
<1>9. DoneIsDone' /\ FilesCurrent'
  <2>1. DoneIsDone'
    BY <1>2 DEF IInv, DoneIsDone, ToWrite
  <2>2. FilesCurrent'
    BY <1>2, <1>5 DEF IInv, FilesCurrent, Quiet, Idle, Excused
  <2> QED
    BY <2>1, <2>2
<1> QED
  BY <1>3, <1>6, <1>7, <1>8, <1>9 DEF IInv

LEMMA InventoryKeeps ==
  ASSUME IInv, NEW i \in Items, NEW o \in Objects[i],
         InventoryAnnounced(i, o) \/ InventoryUnheard(i, o)
  PROVE  IInv'
<1>1. CASE InventoryAnnounced(i, o)
  BY <1>1, ChangeKeeps DEF InventoryAnnounced, IInv, TypeOK
<1>2. CASE InventoryUnheard(i, o)
  <2>1. /\ unheard' = unheard \cup {<<i, k>> : k \in {j \in Interfaces : o[j] # inv[i][j]}}
        /\ Change(i, o) /\ UNCHANGED <<files, pending, armed, reading, fru>>
    BY <1>2 DEF InventoryUnheard
  <2>2. unheard \subseteq Items \X Interfaces /\ pending \in BOOLEAN
    BY DEF IInv, TypeOK
  <2>3. unheard' \subseteq Items \X Interfaces /\ unheard \subseteq unheard'
        /\ \A k \in Interfaces : o[k] # inv[i][k] => <<i, k>> \in unheard'
    BY <2>1, <2>2
  <2> QED
    BY <2>1, <2>2, <2>3, ChangeKeeps
<1> QED
  BY <1>1, <1>2

(* Steps that touch neither the pass, the files nor the inventory, and take  *)
(* no signal away. *)
LEMMA BystanderKeeps ==
  ASSUME IInv, TypeOK', UNCHANGED <<inv, files, armed, reading, job, unheard>>, pending => pending'
  PROVE  IInv'
<1>1. GoneIsKnown' /\ UnreadIsBlank' /\ DoneIsDone'
  BY SameInventory
     DEF IInv, GoneIsKnown, UnreadIsBlank, DoneIsDone, Looked, Called, Idle, ToWrite
<1>2. ReadIsRight'
  BY SameInventory
     DEF IInv, ReadIsRight, Looked, Called, ListIsRight, CallIsRight, Noted
<1>3. \A i : ChangedUnheard(i)' = ChangedUnheard(i) /\ Unnamed(i)' = Unnamed(i)
  <2>1. \A i : ChangedUnheard(i)' = ChangedUnheard(i)
    BY SameInventory DEF ChangedUnheard, Calls
  <2>2. \A i : Unnamed(i)' = Unnamed(i)
    BY DEF Unnamed
  <2> QED
    BY <2>1, <2>2
<1>4. MadeIsRight' /\ FilesCurrent'
  BY <1>3, SameInventory DEF IInv, MadeIsRight, FilesCurrent, Late, Excused, Quiet, Idle
<1> QED
  BY <1>1, <1>2, <1>4 DEF IInv

LEMMA FruDeviceKeeps ==
  ASSUME IInv, FruDeviceStarts \/ FruDeviceScans \/ FruDeviceStops
  PROVE  IInv'
<1>1. fru' \in FruDevice
  <2>1. CASE FruDeviceScans
    <3>1. fru' = [up |-> fru.up, scanned |-> TRUE, asked |-> FALSE, view |-> files]
      BY <2>1 DEF FruDeviceScans, IInv, TypeOK, FruDevice
    <3> QED
      BY <3>1 DEF IInv, TypeOK, FruDevice
  <2> QED
    BY <2>1, FruTypes DEF FruDeviceStarts, FruDeviceStops
<1>2. TypeOK'
  BY <1>1 DEF IInv, TypeOK, FruDeviceStarts, FruDeviceScans, FruDeviceStops
<1> QED
  BY <1>2, BystanderKeeps DEF FruDeviceStarts, FruDeviceScans, FruDeviceStops

-----------------------------------------------------------------------------
(* The event loop. *)

LEMMA ServeKeeps == ASSUME IInv, Serve PROVE IInv'
<1>1. TypeOK'
  BY DEF IInv, TypeOK, Serve
<1>2. job.at = "idle" /\ UNCHANGED <<inv, files, reading, job>> /\ armed'
  BY DEF Serve, Idle
<1>3. GoneIsKnown' /\ UnreadIsBlank' /\ ReadIsRight' /\ MadeIsRight' /\ FilesCurrent'
  BY <1>2 DEF GoneIsKnown, UnreadIsBlank, ReadIsRight, MadeIsRight, FilesCurrent, Idle, Quiet, Late
<1>4. DoneIsDone'
  BY <1>2 DEF DoneIsDone
<1> QED
  BY <1>1, <1>3, <1>4 DEF IInv

LEMMA FireKeeps == ASSUME IInv, Fire PROVE IInv'
<1>0. UNCHANGED <<inv, files, pending, fru, changes, unheard>> /\ armed' = FALSE /\ reading' = NoReading
  BY DEF Fire
<1>1. job' = [at |-> "read", todo |-> {}, desired |-> NoImages, cur |-> Board, changed |-> FALSE,
              gone |-> Missing, seen |-> There, failed |-> FALSE]
  BY DEF Fire, IdleJob
<1>2. TypeOK'
  <2>1. job' \in Job /\ job'.at # "fill"
    BY <1>1, BoardIsItem, IdleJobType DEF Job, Missing, There
  <2> QED
    BY <1>0, <2>1, NoReadingType DEF IInv, TypeOK
<1>3. GoneIsKnown'
  BY <1>0, <1>1, SameInventory DEF GoneIsKnown
<1>4. \A i \in Items : ~Looked(i)'
  BY <1>0, NoReadingType DEF Looked, NoReading
<1>5. UnreadIsBlank'
  BY <1>0 DEF UnreadIsBlank, NoReading
<1>6. ReadIsRight' /\ MadeIsRight' /\ DoneIsDone' /\ FilesCurrent'
  BY <1>1, <1>4 DEF ReadIsRight, MadeIsRight, DoneIsDone, FilesCurrent, Idle, Quiet, Late
<1> QED
  BY <1>2, <1>3, <1>5, <1>6 DEF IInv

LEMMA RestartKeeps == ASSUME IInv, Restart PROVE IInv'
<1>1. TypeOK'
  BY IdleJobType, NoReadingType DEF IInv, TypeOK, Restart
<1>2. job'.at = "idle" /\ armed'
  BY IdleJobType DEF Restart
<1> QED
  BY <1>1, <1>2 DEF IInv, GoneIsKnown, UnreadIsBlank, ReadIsRight, MadeIsRight, DoneIsDone,
     FilesCurrent, Idle, Quiet, Late

-----------------------------------------------------------------------------
(* Reading the inventory. *)

(* The type of the state after a step of a pass. *)
LEMMA PassType ==
  ASSUME TypeOK, UNCHANGED <<inv, pending, armed, fru, changes>>,
         job' \in Job, job'.at = "fill" => job'.desired[job'.cur] # None, reading' \in Reading,
         files' \in [Items -> AllImages \cup {None, Torn}], unheard' \subseteq Items \X Interfaces
  PROVE  TypeOK'
BY DEF TypeOK

(* A call may only fail, of the rest of the pass nothing happens yet.        *)
ReadStep ==
  /\ job.at = "read"
  /\ job' = [at |-> "read", todo |-> job.todo, desired |-> job.desired, cur |-> job.cur,
             changed |-> job.changed, gone |-> job.gone, seen |-> job.seen, failed |-> job'.failed]
  /\ job'.failed \in BOOLEAN /\ (job.failed => job'.failed)
  /\ UNCHANGED <<inv, files, pending, armed, fru, changes>>

LEMMA ReadKeeps ==
  ASSUME IInv, ReadStep, reading' \in Reading, unheard' \subseteq unheard
  PROVE  TypeOK' /\ GoneIsKnown' /\ MadeIsRight' /\ DoneIsDone' /\ FilesCurrent'
<1>1. job' \in Job /\ job'.at = "read"
  BY DEF IInv, TypeOK, ReadStep, Job
<1>2. TypeOK'
  BY <1>1, PassType DEF IInv, TypeOK, ReadStep
<1>3. GoneIsKnown'
  BY SameInventory DEF IInv, GoneIsKnown, ReadStep, Idle
<1>4. MadeIsRight' /\ DoneIsDone' /\ FilesCurrent'
  BY <1>1 DEF MadeIsRight, DoneIsDone, FilesCurrent, Late, Quiet, Idle
<1> QED
  BY <1>2, <1>3, <1>4

LEMMA CallIsReadStep ==
  ASSUME IInv, InJob("read"), UNCHANGED files,
         job' = job \/ job' = [job EXCEPT !.failed = TRUE]
  PROVE  ReadStep /\ (job'.failed => job.failed \/ job' # job)
BY DEF IInv, TypeOK, InJob, ReadStep, Job

LEMMA SubTreeKeeps ==
  ASSUME IInv, GetSubTree \/ GetSubTreeFails
  PROVE  IInv'
<1>0. TypeOK /\ job.at = "read" /\ reading.left = {} /\ reading.lists \in 0..2 /\ reading \in Reading
  BY DEF IInv, TypeOK, Reading, GetSubTree, GetSubTreeFails, InJob
<1>1. PICK found \in SUBSET OnNextList :
        /\ AfterList(found)
        /\ ~job'.failed => \A i \in OnNextList : i \in found <=> Present(i)
  <2>1. CASE GetSubTree
    <3> DEFINE those == {i \in OnNextList : Present(i)}
    <3>1. AfterList(those) /\ those \in SUBSET OnNextList
      BY <2>1 DEF GetSubTree
    <3> QED
      BY <3>1
  <2>2. CASE GetSubTreeFails
    <3>1. AfterList({}) /\ job'.failed
      BY <2>2 DEF GetSubTreeFails, IInv, TypeOK, Job
    <3> QED
      BY <3>1
  <2> QED
    BY <2>1, <2>2
<1>2. /\ ReadStep
      /\ unheard' \subseteq unheard
      /\ \A i \in Items, k \in Interfaces :
           <<i, k>> \in unheard => <<i, k>> \in unheard' \/ i \in OnNextList
  <2>1. CASE GetSubTree
    BY <2>1, CallIsReadStep DEF GetSubTree
  <2>2. CASE GetSubTreeFails
    BY <2>2, CallIsReadStep DEF GetSubTreeFails
  <2> QED
    BY <2>1, <2>2
<1>3. /\ reading' = [lists |-> reading.lists + 1, found |-> reading.found \cup found,
                     left |-> CallsFor(OnNextList, found), got |-> reading.got]
      /\ reading' \in Reading
  <2>1. OnNextList \subseteq Items /\ CallsFor(OnNextList, found) \subseteq Items \X ReadInterfaces
    BY DEF OnNextList, CallsFor
  <2>2. reading' = [lists |-> reading.lists + 1, found |-> reading.found \cup found,
                    left |-> CallsFor(OnNextList, found), got |-> reading.got]
    BY <1>0, <1>1 DEF AfterList, Reading
  <2>3. reading.found \cup found \in SUBSET Items /\ reading.got \in [Items -> Contents]
        /\ reading.lists + 1 \in 0..3
    BY <1>0, <2>1 DEF Reading
  <2> QED
    BY <2>1, <2>2, <2>3 DEF Reading
<1>4. \A i \in Items :
        /\ i \in OnNextList => ~Looked(i) /\ Looked(i)'
        /\ i \notin OnNextList => Looked(i)' = Looked(i)
  BY <1>0, <1>3, NoReadingType DEF OnNextList, Looked
<1>5. \A i \in Items : ~Looked(i) => i \notin reading.found
  BY <1>0 DEF IInv, UnreadIsBlank
<1>6. \A i \in Items :
        /\ i \in OnNextList => (i \in reading'.found <=> i \in found)
        /\ i \notin OnNextList => (i \in reading'.found <=> i \in reading.found)
  BY <1>3, <1>4, <1>5
<1>7. \A i \in Items, k \in ReadInterfaces :
        <<i, k>> \in reading'.left <=> i \in OnNextList /\ k \in Called(i)'
  <2>1. \A i \in Items : i \in OnNextList => Called(i)' = Calls(i, i \in found)
    BY <1>6 DEF Called, Calls
  <2> QED
    BY <1>3, <2>1 DEF CallsFor
<1>8. \A i \in Items : i \notin OnNextList => Called(i)' = Called(i)
  BY <1>6 DEF Called, Calls
<1>9. UnreadIsBlank'
  <2> SUFFICES ASSUME NEW i \in Items
      PROVE  /\ ~Looked(i)' => /\ i \notin reading'.found
                               /\ \A k \in ReadInterfaces : <<i, k>> \notin reading'.left
             /\ \A k \in ReadInterfaces :
                  /\ <<i, k>> \in reading'.left => k \in Called(i)'
                  /\ ~Looked(i)' \/ k \notin Called(i)' \/ <<i, k>> \in reading'.left
                       => reading'.got[i][k] = None
    BY DEF UnreadIsBlank
  <2>1. \A k \in ReadInterfaces :
          ~Looked(i) \/ k \notin Called(i) => reading.got[i][k] = None
    BY <1>0 DEF IInv, UnreadIsBlank
  <2> QED
    BY <1>3, <1>4, <1>5, <1>6, <1>7, <1>8, <2>1
<1>10. ReadIsRight'
  <2> SUFFICES ASSUME ~job'.failed, NEW i \in Items, Looked(i)'
      PROVE  /\ ListIsRight(i)'
             /\ \A k \in Called(i)' : <<i, k>> \in reading'.left \/ CallIsRight(i, k)'
    BY DEF ReadIsRight
  <2>1. CASE i \in OnNextList
    <3>1. i \in reading'.found <=> Present(i)
      BY <1>1, <1>6, <2>1
    <3>2. IF Present(i) THEN i \in job.seen ELSE <<i, "object">> \in job.gone
      BY <1>0, InterfacesRead DEF IInv, GoneIsKnown, Idle, There, Missing, Present
    <3>3. ListIsRight(i)'
      BY <1>2, <3>1, <3>2, SameInventory DEF ListIsRight, ReadStep
    <3>4. \A k \in Called(i)' : <<i, k>> \in reading'.left
      BY <1>7, <2>1, CallsAreRead DEF Called
    <3> QED
      BY <3>3, <3>4
  <2>2. CASE i \notin OnNextList
    <3>1. Looked(i) /\ ~job.failed
      BY <1>2, <1>4, <2>2 DEF ReadStep
    <3>2. ListIsRight(i) /\ \A k \in Called(i) : CallIsRight(i, k)
      BY <1>0, <3>1 DEF IInv, ReadIsRight
    <3>3. \A k \in Interfaces : Noted(i, k) => Noted(i, k)'
      BY <1>2, <2>2 DEF Noted, ReadStep
    <3>4. ListIsRight(i)'
      BY <1>2, <1>6, <2>2, <3>2, <3>3, SameInventory, InterfacesRead DEF ListIsRight, ReadStep
    <3>5. \A k \in Called(i)' : CallIsRight(i, k)'
      BY <1>2, <1>3, <1>8, <2>2, <3>2, <3>3, CallsAreRead, InterfacesRead
         DEF CallIsRight, ReadStep, Called
    <3> QED
      BY <3>4, <3>5
  <2> QED
    BY <2>1, <2>2
<1> QED
  BY <1>2, <1>3, <1>9, <1>10, ReadKeeps DEF IInv

LEMMA GetAllKeeps ==
  ASSUME IInv, NEW i \in Items, NEW k \in ReadInterfaces, GetAll(i, k) \/ GetAllFails(i, k)
  PROVE  IInv'
<1>0. TypeOK /\ job.at = "read" /\ reading \in Reading /\ <<i, k>> \in reading.left
  BY DEF IInv, TypeOK, GetAll, GetAllFails, NextCall, LeftOf, InJob
<1>1. PICK t \in Texts \cup {None} :
        /\ reading' = [lists |-> reading.lists, found |-> reading.found,
                       left |-> reading.left \ {<<i, k>>},
                       got |-> [reading.got EXCEPT ![i] = [reading.got[i] EXCEPT ![k] = t]]]
        /\ ~job'.failed => t = inv[i][k]
        /\ t # inv[i][k] => t = None
  <2>0. reading.got \in [Items -> Contents] /\ reading.got[i][k] = None
    BY <1>0 DEF IInv, UnreadIsBlank, Reading
  <2>1. CASE GetAll(i, k)
    <3>1. reading' = [lists |-> reading.lists, found |-> reading.found,
                      left |-> reading.left \ {<<i, k>>},
                      got |-> [reading.got EXCEPT ![i] = [reading.got[i] EXCEPT ![k] = inv[i][k]]]]
      BY <1>0, <2>0, <2>1 DEF GetAll, Reading
    <3>2. inv[i][k] \in Texts \cup {None}
      BY <1>0, InterfacesRead DEF TypeOK
    <3> QED
      BY <3>1, <3>2
  <2>2. CASE GetAllFails(i, k)
    <3>1. [reading.got EXCEPT ![i] = [reading.got[i] EXCEPT ![k] = None]] = reading.got
      BY <2>0 DEF Contents
    <3>2. reading' = [lists |-> reading.lists, found |-> reading.found,
                      left |-> reading.left \ {<<i, k>>},
                      got |-> [reading.got EXCEPT ![i] = [reading.got[i] EXCEPT ![k] = None]]]
      BY <1>0, <2>2, <3>1 DEF GetAllFails, Reading
    <3>3. job'.failed
      BY <1>0, <2>2 DEF GetAllFails, TypeOK, Job
    <3> QED
      BY <3>2, <3>3
  <2> QED
    BY <2>1, <2>2
<1>2. /\ ReadStep
      /\ unheard' \subseteq unheard
      /\ \A c : c \in unheard => c \in unheard' \/ c = <<i, k>>
  <2>1. CASE GetAll(i, k)
    BY <2>1, CallIsReadStep DEF GetAll
  <2>2. CASE GetAllFails(i, k)
    BY <2>2, CallIsReadStep DEF GetAllFails
  <2> QED
    BY <2>1, <2>2
<1>3. reading.got \in [Items -> Contents]
  BY <1>0 DEF Reading
<1>4. /\ reading'.got[i][k] = t
      /\ \A j \in Items, l \in ReadInterfaces :
           j # i \/ l # k => reading'.got[j][l] = reading.got[j][l]
      /\ \A j \in Items, l \in ReadInterfaces :
           <<j, l>> \in reading'.left <=> <<j, l>> \in reading.left /\ (j # i \/ l # k)
  BY <1>1, <1>3 DEF Contents
<1>5. reading' \in Reading
  <2>1. [reading.got[i] EXCEPT ![k] = t] \in Contents
    BY <1>3 DEF Contents
  <2> QED
    BY <1>0, <1>1, <1>3, <2>1 DEF Reading
<1>6. \A j : Looked(j)' = Looked(j) /\ Called(j)' = Called(j)
  BY <1>1 DEF Looked, Called
<1>7. Looked(i) /\ k \in Called(i)
  BY <1>0 DEF IInv, UnreadIsBlank
<1>8. UnreadIsBlank'
  BY <1>0, <1>1, <1>4, <1>6, <1>7 DEF IInv, UnreadIsBlank
<1>9. ReadIsRight'
  <2> SUFFICES ASSUME ~job'.failed, NEW j \in Items, Looked(j)
      PROVE  /\ ListIsRight(j)'
             /\ \A l \in Called(j) : <<j, l>> \in reading'.left \/ CallIsRight(j, l)'
    BY <1>6 DEF ReadIsRight
  <2>1. /\ ListIsRight(j)
        /\ \A l \in Called(j) : <<j, l>> \in reading.left \/ CallIsRight(j, l)
    BY <1>0, <1>2 DEF IInv, ReadIsRight, ReadStep
  <2>2. \A l : j # i \/ l # k => Noted(j, l)' = Noted(j, l)
    BY <1>2 DEF Noted, ReadStep
  <2>3. ListIsRight(j)'
    <3>1. "object" # k
      BY DEF ReadInterfaces
    <3> QED
      BY <1>1, <1>2, <2>1, <2>2, <3>1, SameInventory DEF ListIsRight, ReadStep
  <2>4. ASSUME NEW l \in Called(j)
        PROVE  <<j, l>> \in reading'.left \/ CallIsRight(j, l)'
    <3>0. l \in ReadInterfaces
      BY CallsAreRead DEF Called
    <3>1. CASE j = i /\ l = k
      <4>1. reading'.got[j][l] = inv[j][l]
        BY <1>1, <1>4, <3>1
      <4>2. inv[j][l] = None => <<j, l>> \in job.gone
        BY <1>0, <3>0, InterfacesRead DEF IInv, GoneIsKnown, Missing, Idle
      <4> QED
        BY <1>2, <4>1, <4>2 DEF CallIsRight, ReadStep
    <3>2. CASE j # i \/ l # k
      BY <1>2, <1>4, <2>1, <2>2, <3>0, <3>2 DEF CallIsRight, ReadStep
    <3> QED
      BY <3>1, <3>2
  <2> QED
    BY <2>3, <2>4
<1> QED
  BY <1>2, <1>5, <1>8, <1>9, ReadKeeps DEF IInv

-----------------------------------------------------------------------------
(* Writing and removing.  From here on every object has been read.           *)

LEMMA EndReadingKeeps == ASSUME IInv, EndReading PROVE IInv'
<1> DEFINE desired == [i \in Items |-> ImageIn(reading.got[i])]
<1>0. /\ TypeOK /\ job \in Job /\ job.at = "read" /\ reading \in Reading
      /\ reading.left = {} /\ reading.lists = 3 /\ reading' = NoReading
      /\ UNCHANGED <<inv, files, pending, armed, fru, changes, unheard>>
  BY DEF IInv, TypeOK, EndReading, InJob
<1>1. job' = [at |-> "write", todo |-> {i \in Items : desired[i] # None}, desired |-> desired,
              cur |-> job.cur, changed |-> job.changed, gone |-> job.gone, seen |-> job.seen,
              failed |-> job.failed]
  BY <1>0 DEF EndReading, Job
<1>2. \A i \in Items : reading.got[i] \in Contents /\ desired[i] = ImageIn(reading.got[i])
  BY <1>0 DEF Reading
<1>3. desired \in [Items -> AllImages \cup {None}]
  BY <1>2, ImageInType
<1> HIDE DEF desired
<1>4. TypeOK'
  <2>1. job' \in Job /\ job'.at # "fill"
    BY <1>0, <1>1, <1>3 DEF Job
  <2> QED
    BY <1>0, <2>1, NoReadingType, PassType DEF TypeOK
<1>5. GoneIsKnown'
  BY <1>0, <1>1, SameInventory DEF IInv, GoneIsKnown, Idle
<1>6. UnreadIsBlank' /\ ReadIsRight' /\ FilesCurrent'
  BY <1>1 DEF UnreadIsBlank, ReadIsRight, FilesCurrent, Quiet, Idle
<1>7. MadeIsRight'
  <2> SUFFICES ASSUME ~job.failed, NEW i \in Items
      PROVE  /\ desired[i] = None => Unnamed(i)
             /\ Excused(i) \/ desired[i] = ImageOf(i)
    <3>1. \A i : Unnamed(i)' = Unnamed(i)
      BY <1>1 DEF Unnamed
    <3>2. \A i : Excused(i)' = Excused(i)
      BY <1>0, SameInventory DEF Excused, ChangedUnheard, Calls
    <3> QED
      BY <1>0, <1>1, <3>1, <3>2, SameInventory DEF MadeIsRight
  <2>1. ListIsRight(i) /\ \A k \in Called(i) : CallIsRight(i, k)
    BY <1>0, NoReadingType DEF IInv, ReadIsRight, Looked
  <2>2. \A k \in ReadInterfaces : k \notin Called(i) => reading.got[i][k] = None
    BY <1>0 DEF IInv, UnreadIsBlank
  <2>3. ASSUME desired[i] = None PROVE Unnamed(i)
    <3>1. \A k \in Naming : reading.got[i][k] = None
      BY <1>2, <2>3, ImageInType
    <3>2. \A k \in Called(i) \cap Naming : <<i, k>> \in job.gone
      BY <2>1, <3>1 DEF CallIsRight
    <3>3. IF i \in reading.found THEN i \in job.seen ELSE <<i, "object">> \in job.gone
      BY <2>1 DEF ListIsRight
    <3> DEFINE found == i \in reading.found
    <3>4. /\ IF found THEN i \in job.seen ELSE <<i, "object">> \in job.gone
          /\ \A k \in Calls(i, found) \cap Naming : <<i, k>> \in job.gone
          /\ found \in BOOLEAN
      BY <3>2, <3>3 DEF Called
    <3> HIDE DEF found
    <3> QED
      BY <3>4 DEF Unnamed
  <2>4. ASSUME ~Excused(i) PROVE desired[i] = ImageOf(i)
    <3>1. ~pending /\ ~armed /\ ~ChangedUnheard(i)
      BY <2>4 DEF Excused
    <3>2. i \in reading.found <=> Present(i)
      BY <2>1, <3>1 DEF ListIsRight, Noted, ChangedUnheard
    <3>3. Called(i) = Calls(i, Present(i))
      BY <3>2 DEF Called, Calls
    <3>4. \A k \in Called(i) : reading.got[i][k] = inv[i][k]
      BY <2>1, <3>1, <3>3 DEF CallIsRight, Noted, ChangedUnheard
    <3>5. \A k \in ReadInterfaces :
            reading.got[i][k] = IF k \in Calls(i, Present(i)) THEN inv[i][k] ELSE None
      BY <2>2, <3>3, <3>4
    <3>6. reading.got[i] = [k \in ReadInterfaces |->
                              IF k \in Calls(i, Present(i)) THEN inv[i][k] ELSE None]
      BY <1>2, <3>5 DEF Contents
    <3> QED
      BY <1>2, <3>6 DEF ImageOf
  <2> QED
    BY <2>3, <2>4
<1>8. DoneIsDone'
  BY <1>1 DEF DoneIsDone, ToWrite
<1> QED
  BY <1>4, <1>5, <1>6, <1>7, <1>8 DEF IInv

(* What a step of this part of the pass may do besides changing one file. *)
LateStep(at, todo, cur, changed) ==
  /\ job' = [at |-> at, todo |-> todo, desired |-> job.desired, cur |-> cur,
             changed |-> changed, gone |-> job.gone, seen |-> job.seen, failed |-> job'.failed]
  /\ job'.failed \in BOOLEAN /\ (job.failed => job'.failed)
  /\ UNCHANGED <<inv, pending, armed, reading, unheard>>

LEMMA LateKeeps ==
  ASSUME IInv, Late, NEW at, NEW todo, NEW cur, NEW changed, LateStep(at, todo, cur, changed),
         Late'
  PROVE  GoneIsKnown' /\ UnreadIsBlank' /\ ReadIsRight' /\ MadeIsRight' /\ FilesCurrent'
<1>1. MadeIsRight'
  <2>1. \A i : Unnamed(i)' = Unnamed(i)
    BY DEF Unnamed, LateStep
  <2>2. \A i : Excused(i)' = Excused(i) /\ ImageOf(i)' = ImageOf(i)
    BY SameInventory DEF Excused, ChangedUnheard, Calls, LateStep
  <2> QED
    BY <2>1, <2>2 DEF IInv, MadeIsRight, LateStep
<1>2. GoneIsKnown'
  BY SameInventory DEF IInv, GoneIsKnown, LateStep, Late, Idle
<1>3. UnreadIsBlank' /\ ReadIsRight' /\ FilesCurrent'
  BY DEF Late, UnreadIsBlank, ReadIsRight, FilesCurrent, Quiet, Idle
<1> QED
  BY <1>1, <1>2, <1>3

LEMMA LateType ==
  ASSUME job \in Job, NEW at \in {"write", "remove"}, NEW todo \in SUBSET job.todo,
         LateStep(at, todo, job.cur, TRUE)
  PROVE  job' \in Job /\ job'.at # "fill"
<1>1. job.cur \in Items /\ job.todo \subseteq Items /\ job.gone \subseteq Items \X Interfaces
      /\ job.seen \subseteq Items /\ job.desired \in [Items -> AllImages \cup {None}]
  BY DEF Job
<1> DEFINE failed == job'.failed
<1>2. job' = [at |-> at, todo |-> todo, desired |-> job.desired, cur |-> job.cur, changed |-> TRUE,
              gone |-> job.gone, seen |-> job.seen, failed |-> failed] /\ failed \in BOOLEAN
  BY DEF LateStep
<1> HIDE DEF failed
<1>3. todo \subseteq Items /\ at # "fill"
  BY <1>1
<1> QED
  BY <1>1, <1>2, <1>3 DEF Job

LEMMA EndKeeps ==
  ASSUME IInv, TypeOK', job' = Ended, UNCHANGED <<inv, files, pending, armed, unheard>>,
         (job.at = "remove" /\ job.todo = {}) \/ job.at = "rescan"
  PROVE  IInv'
<1>0. job'.at = "idle" /\ job'.failed = job.failed
  BY EndedType DEF IInv, TypeOK
<1>1. ASSUME ~job.failed, ~pending, ~armed, NEW i \in Items, ~ChangedUnheard(i)
      PROVE  files[i] = ImageOf(i)
  <2>1. files[i] = job.desired[i]
    BY <1>1 DEF IInv, DoneIsDone
  <2>2. job.desired[i] = ImageOf(i)
    BY <1>1 DEF IInv, MadeIsRight, Late, Excused
  <2> QED
    BY <2>1, <2>2
<1>2. FilesCurrent'
  <2>1. \A i : ChangedUnheard(i)' = ChangedUnheard(i) /\ ImageOf(i)' = ImageOf(i)
    BY SameInventory DEF ChangedUnheard, Calls
  <2> QED
    BY <1>0, <1>1, <2>1 DEF FilesCurrent, Quiet
<1>3. GoneIsKnown' /\ UnreadIsBlank' /\ ReadIsRight' /\ MadeIsRight' /\ DoneIsDone'
  BY <1>0 DEF GoneIsKnown, UnreadIsBlank, ReadIsRight, MadeIsRight, Late, DoneIsDone, Idle
<1> QED
  BY <1>2, <1>3 DEF IInv

LEMMA EndWritingKeeps == ASSUME IInv, EndWriting PROVE IInv'
<1>0. TypeOK /\ job \in Job /\ job.todo = {} /\ job.at = "write" /\ UNCHANGED <<files, unheard>>
  BY DEF IInv, TypeOK, EndWriting, InJob
<1>1. LateStep("remove", ToRemove, job.cur, job.changed) /\ Late /\ Late'
  BY <1>0 DEF EndWriting, InJob, LateStep, Late, Job
<1>2. TypeOK'
  <2>1. job' \in Job /\ job'.at # "fill"
    BY <1>0, <1>1 DEF Job, ToRemove, LateStep
  <2> QED
    BY <1>0, <2>1, PassType DEF TypeOK, EndWriting, InJob
<1>3. DoneIsDone'
  BY <1>0, <1>1 DEF IInv, LateStep, DoneIsDone, ToRemove, ToWrite
<1> QED
  BY <1>1, <1>2, <1>3, LateKeeps DEF IInv

LEMMA EndRemovingKeeps == ASSUME IInv, EndRemoving PROVE IInv'
<1>0. /\ TypeOK /\ job \in Job /\ job.todo = {} /\ job.at = "remove"
      /\ UNCHANGED <<inv, files, pending, armed, reading, fru, changes, unheard>>
  BY DEF IInv, TypeOK, EndRemoving, InJob
<1>1. CASE job' = [job EXCEPT !.at = "rescan"]
  <2>1. LateStep("rescan", job.todo, job.cur, job.changed) /\ Late /\ Late'
    BY <1>0, <1>1 DEF LateStep, Late, Job
  <2>2. TypeOK'
    <3>1. job' \in Job /\ job'.at # "fill"
      BY <1>0, <1>1 DEF Job
    <3> QED
      BY <1>0, <3>1, PassType DEF TypeOK
  <2>3. DoneIsDone'
    BY <1>0, <2>1 DEF IInv, LateStep, DoneIsDone
  <2> QED
    BY <2>1, <2>2, <2>3, LateKeeps DEF IInv
<1>2. CASE job' = Ended
  <2>1. TypeOK'
    BY <1>0, <1>2, EndedType, PassType DEF TypeOK
  <2> QED
    BY <1>0, <1>2, <2>1, EndKeeps
<1> QED
  BY <1>1, <1>2 DEF EndRemoving

LEMMA WriteKeeps ==
  ASSUME IInv, NEW i \in Items, FileIsCurrent(i) \/ OpenFile(i) \/ OpenFails(i)
  PROVE  IInv'
<1>0. TypeOK /\ job \in Job /\ job.at = "write" /\ i \in job.todo /\ job.desired[i] # None
  BY DEF IInv, TypeOK, DoneIsDone, ToWrite, FileIsCurrent, OpenFile, OpenFails, InJob
<1>1. LateStep(job'.at, job.todo \ {i}, job'.cur, job.changed) /\ job'.at \in {"write", "fill"}
  BY <1>0 DEF FileIsCurrent, OpenFile, OpenFails, InJob, LateStep, Job
<1>2. /\ job'.at = "fill" => job'.cur = i
      /\ job'.at = "write" => job'.cur = job.cur /\ (files[i] = job.desired[i] \/ job'.failed)
      /\ \A k \in Items \ {i} : files'[k] = files[k]
      /\ job'.at = "write" => files'[i] = files[i]
      /\ files' \in [Items -> AllImages \cup {None, Torn}]
  <2>1. CASE OpenFile(i)
    <3>1. job' = [job EXCEPT !.at = "fill", !.cur = i, !.todo = job.todo \ {i}]
          /\ files' = [files EXCEPT ![i] = Torn]
      BY <2>1 DEF OpenFile
    <3> QED
      BY <1>0, <3>1 DEF TypeOK, Job
  <2>2. CASE FileIsCurrent(i) \/ OpenFails(i)
    BY <1>0, <2>2 DEF FileIsCurrent, OpenFails, TypeOK, Job
  <2> QED
    BY <2>1, <2>2
<1>3. TypeOK'
  <2>1. job' \in Job /\ (job'.at = "fill" => job'.desired[job'.cur] # None)
    BY <1>0, <1>1, <1>2 DEF Job, LateStep
  <2> QED
    BY <1>0, <1>2, <2>1, PassType DEF TypeOK, FileIsCurrent, OpenFile, OpenFails, InJob
<1>4. DoneIsDone'
  <2>1. ToWrite' = ToWrite /\ i \in ToWrite
    BY <1>0, <1>1 DEF ToWrite, LateStep
  <2> QED
    BY <1>0, <1>1, <1>2, <2>1 DEF IInv, LateStep, DoneIsDone
<1>5. Late /\ Late'
  BY <1>0, <1>1 DEF Late
<1> QED
  BY <1>1, <1>3, <1>4, <1>5, LateKeeps DEF IInv

LEMMA FillKeeps == ASSUME IInv, Fill \/ FillFails PROVE IInv'
<1>0. TypeOK /\ job \in Job /\ job.at = "fill" /\ job.cur \in ToWrite \ job.todo
  BY DEF IInv, TypeOK, DoneIsDone, Fill, FillFails, InJob
<1>1. LateStep("write", job.todo, job.cur, TRUE)
  BY <1>0 DEF Fill, FillFails, InJob, LateStep, Job
<1>2. /\ files' \in [Items -> AllImages \cup {None, Torn}]
      /\ ~job'.failed => files' = [files EXCEPT ![job.cur] = job.desired[job.cur]]
  <2>1. CASE Fill
    BY <1>0, <2>1 DEF Fill, TypeOK, Job
  <2>2. CASE FillFails
    BY <1>0, <2>2 DEF FillFails, TypeOK, Job
  <2> QED
    BY <2>1, <2>2
<1>3. TypeOK'
  <2>1. job' \in Job /\ job'.at # "fill"
    BY <1>0, <1>1, LateType
  <2> QED
    BY <1>0, <1>2, <2>1, PassType DEF TypeOK, Fill, FillFails, InJob
<1>4. DoneIsDone'
  <2>1. ToWrite' = ToWrite
    BY <1>1 DEF ToWrite, LateStep
  <2>2. \A k \in Items : ~job'.failed /\ k \in ToWrite \ job.todo => files'[k] = job.desired[k]
    BY <1>0, <1>1, <1>2 DEF IInv, DoneIsDone, TypeOK, LateStep
  <2> QED
    BY <1>0, <1>1, <2>1, <2>2 DEF IInv, LateStep, DoneIsDone
<1>5. Late /\ Late'
  BY <1>0, <1>1 DEF Late, LateStep
<1> QED
  BY <1>1, <1>3, <1>4, <1>5, LateKeeps DEF IInv

LEMMA RemoveKeeps ==
  ASSUME IInv, NEW i \in Items, RemoveFile(i) \/ RemoveFails(i)
  PROVE  IInv'
<1>0. TypeOK /\ job \in Job /\ job.at = "remove" /\ i \in job.todo /\ job.desired[i] = None
  BY DEF IInv, TypeOK, DoneIsDone, RemoveFile, RemoveFails, InJob
<1>1. LateStep("remove", job.todo \ {i}, job.cur, TRUE)
  BY <1>0 DEF RemoveFile, RemoveFails, InJob, LateStep, Job
<1>2. /\ files' \in [Items -> AllImages \cup {None, Torn}]
      /\ ~job'.failed => files' = [files EXCEPT ![i] = None]
  <2>1. CASE RemoveFile(i)
    BY <1>0, <2>1 DEF RemoveFile, TypeOK
  <2>2. CASE RemoveFails(i)
    BY <1>0, <2>2 DEF RemoveFails, TypeOK, Job
  <2> QED
    BY <2>1, <2>2
<1>3. TypeOK'
  <2>1. job' \in Job /\ job'.at # "fill"
    BY <1>0, <1>1, LateType
  <2> QED
    BY <1>0, <1>2, <2>1, PassType DEF TypeOK, RemoveFile, RemoveFails, InJob
<1>4. DoneIsDone'
  <2>1. \A k \in Items : ~job'.failed /\ k \notin job'.todo => files'[k] = job.desired[k]
    BY <1>0, <1>1, <1>2 DEF IInv, DoneIsDone, TypeOK, LateStep
  <2> QED
    BY <1>0, <1>1, <2>1 DEF IInv, LateStep, DoneIsDone
<1>5. Late /\ Late'
  BY <1>0, <1>1 DEF Late, LateStep
<1> QED
  BY <1>1, <1>3, <1>4, <1>5, LateKeeps DEF IInv

LEMMA ReScanKeeps == ASSUME IInv, ReScan PROVE IInv'
<1>0. TypeOK /\ job \in Job /\ job.at = "rescan" /\ job' = Ended
  BY DEF IInv, TypeOK, ReScan
<1>1. fru' \in FruDevice
  <2>1. fru' = [up |-> fru.up, scanned |-> fru.scanned, asked |-> fru.up, view |-> fru.view]
    BY <1>0 DEF ReScan, TypeOK, FruDevice
  <2> QED
    BY <1>0, <2>1 DEF TypeOK, FruDevice
<1>2. TypeOK'
  BY <1>0, <1>1, EndedType DEF TypeOK, ReScan
<1> QED
  BY <1>0, <1>2, EndKeeps DEF ReScan

-----------------------------------------------------------------------------
(* The theorems. *)

LEMMA RegenerateKeeps == ASSUME IInv, Regenerate PROVE IInv'
<1>1. CASE GetSubTree \/ GetSubTreeFails
  BY <1>1, SubTreeKeeps
<1>2. CASE \E i \in Items, k \in ReadInterfaces : GetAll(i, k) \/ GetAllFails(i, k)
  BY <1>2, GetAllKeeps
<1>3. CASE EndReading
  BY <1>3, EndReadingKeeps
<1>4. CASE EndWriting \/ EndRemoving
  BY <1>4, EndWritingKeeps, EndRemovingKeeps
<1>5. CASE \E i \in Items : FileIsCurrent(i) \/ OpenFile(i) \/ OpenFails(i)
  BY <1>5, WriteKeeps
<1>6. CASE \E i \in Items : RemoveFile(i) \/ RemoveFails(i)
  BY <1>6, RemoveKeeps
<1>7. CASE Fill \/ FillFails
  BY <1>7, FillKeeps
<1>8. CASE ReScan
  BY <1>8, ReScanKeeps
<1> QED
  BY <1>1, <1>2, <1>3, <1>4, <1>5, <1>6, <1>7, <1>8 DEF Regenerate

LEMMA NextKeeps == ASSUME IInv, [Next]_vars PROVE IInv'
<1>1. CASE \E i \in Items : \E o \in Objects[i] : InventoryAnnounced(i, o) \/ InventoryUnheard(i, o)
  BY <1>1, InventoryKeeps
<1>3. CASE Serve
  BY <1>3, ServeKeeps
<1>4. CASE Fire
  BY <1>4, FireKeeps
<1>5. CASE Regenerate
  BY <1>5, RegenerateKeeps
<1>6. CASE Restart
  BY <1>6, RestartKeeps
<1>7. CASE FruDeviceStarts \/ FruDeviceScans \/ FruDeviceStops
  BY <1>7, FruDeviceKeeps
<1>8. CASE UNCHANGED vars
  <2>1. TypeOK'
    BY <1>8 DEF IInv, TypeOK, vars
  <2> QED
    BY <1>8, <2>1, BystanderKeeps DEF vars
<1> QED
  BY <1>1, <1>3, <1>4, <1>5, <1>6, <1>7, <1>8 DEF Next

(* The inductive invariant: whatever the inventory, its readers and the      *)
(* failures do between the steps of a pass, what the pass has read is right  *)
(* or a signal waits, and what it has done is done.                          *)
THEOREM Invariant == Spec => []IInv
<1>1. IInv /\ [Next]_vars => IInv'
  BY NextKeeps
<1> QED
  BY InitHolds, <1>1, PTL DEF Spec

(* Every variable keeps its type, and only a file that is to have contents   *)
(* is ever opened.                                                           *)
THEOREM TypeCorrect == Spec => []TypeOK
<1>1. IInv => TypeOK
  BY DEF IInv
<1> QED
  BY Invariant, <1>1, PTL

(* At rest and without a failure in the last pass, the files are the images  *)
(* of the inventory, but for changes that made no signal: for any number of  *)
(* objects and changes, between any two of regenerate()'s calls.             *)
THEOREM FilesAreCurrent == Spec => []FilesCurrent
<1>1. IInv => FilesCurrent
  BY DEF IInv
<1> QED
  BY Invariant, <1>1, PTL

LEMMA WhoRemoves ==
  ASSUME IInv, [Next]_vars, NEW i \in Items, files[i] # None, files'[i] = None
  PROVE  job.failed \/ Unnamed(i)
<1>0. TypeOK /\ job \in Job /\ files \in [Items -> AllImages \cup {None, Torn}]
  BY DEF IInv, TypeOK
<1>1. CASE \E k \in Items : RemoveFile(k)
  <2>1. PICK k \in Items : RemoveFile(k)
    BY <1>1
  <2>2. k = i
    BY <1>0, <2>1 DEF RemoveFile
  <2>3. job.at = "remove" /\ job.desired[i] = None
    BY <2>1, <2>2 DEF IInv, DoneIsDone, RemoveFile, InJob
  <2> QED
    BY <2>3 DEF IInv, MadeIsRight, Late
<1>2. CASE \E k \in Items : OpenFile(k)
  BY <1>0, <1>2, ConstantsAssumption DEF OpenFile
<1>3. CASE Fill
  BY <1>0, <1>3 DEF Fill, TypeOK, InJob
<1>4. CASE UNCHANGED files
  BY <1>4
<1> QED
  BY <1>1, <1>2, <1>3, <1>4 DEF Next, Regenerate, InventoryAnnounced, InventoryUnheard,
     Serve, Fire, GetSubTree, GetSubTreeFails, GetAll, GetAllFails, EndReading, EndWriting,
     EndRemoving, FileIsCurrent, OpenFails, FillFails, RemoveFails, ReScan, Restart, FruDeviceStarts, FruDeviceScans, FruDeviceStops, vars

(* regenerate() never takes a file away unless what names its object was     *)
(* missing at some time of the pass, or a call of the pass failed.           *)
THEOREM RemovesOnlyTheGone == Spec => RemovedOnlyIfGone
<1>1. IInv /\ [Next]_vars
        => [ \A i \in Items : files[i] # None /\ files'[i] = None
               => job.failed \/ Unnamed(i) ]_vars
  BY WhoRemoves
<1> QED
  BY Invariant, <1>1, PTL DEF Spec, RemovedOnlyIfGone

-----------------------------------------------------------------------------
(* Induction over the natural numbers. *)
LEMMA Least ==
  ASSUME NEW T \in SUBSET Nat, T # {}
  PROVE  \E n \in T : \A m \in T : n <= m
<1>1. PICK n \in T : \A m \in T : ~(<<m, n>> \in OpToRel(<, Nat))
  BY WFMin, NatLessThanWellFounded, Zenon
<1>2. \A m \in T : ~(m < n)
  BY <1>1 DEF OpToRel
<1> QED
  BY <1>2

LEMMA Induct ==
  ASSUME NEW T, 0 \in T, \A n \in Nat : n \in T => n + 1 \in T
  PROVE  Nat \subseteq T
<1> SUFFICES ASSUME Nat \ T # {} PROVE FALSE
  OBVIOUS
<1>1. PICK n \in Nat \ T : \A m \in Nat \ T : n <= m
  BY Least
<1>2. n - 1 \in Nat /\ n - 1 \in T
  BY <1>1
<1> QED
  BY <1>2

-----------------------------------------------------------------------------
(* A sum over the bytes. *)

SumsTo(f, bytes) == f = [i \in 0..Len(bytes) |-> IF i = 0 THEN 0 ELSE f[i - 1] + bytes[i]]

LEMMA SumsExist ==
  ASSUME NEW s \in Seq(Nat)
  PROVE  \E f \in [0..Len(s) -> Nat] : SumsTo(f, s)
<1> DEFINE Upto(f, k) == f = [i \in 0..k |-> IF i = 0 THEN 0 ELSE f[i - 1] + s[i]]
           T == {k \in Nat : k <= Len(s) => \E f \in [0..k -> Nat] : Upto(f, k)}
<1>1. 0 \in T
  <2> DEFINE f == [i \in 0..0 |-> 0]
  <2>1. f \in [0..0 -> Nat] /\ Upto(f, 0)
    OBVIOUS
  <2> QED
    BY <2>1
<1>2. ASSUME NEW k \in Nat, k \in T PROVE k + 1 \in T
  <2> SUFFICES ASSUME k + 1 <= Len(s) PROVE \E g \in [0..(k + 1) -> Nat] : Upto(g, k + 1)
    <3>1. k + 1 \in Nat
      OBVIOUS
    <3> QED
      BY <3>1, Zenon
  <2>0. k <= Len(s)
    OBVIOUS
  <2>1. PICK f \in [0..k -> Nat] : Upto(f, k)
    BY <1>2, <2>0, Zenon
  <2> DEFINE g == [i \in 0..(k + 1) |-> IF i = k + 1 THEN f[k] + s[k + 1] ELSE f[i]]
  <2>2. k + 1 \in 1..Len(s) /\ s[k + 1] \in Nat /\ f[k] \in Nat
    BY <2>1
  <2>3. g \in [0..(k + 1) -> Nat] /\ g[k + 1] = f[k] + s[k + 1] /\ \A i \in 0..k : g[i] = f[i]
    BY <2>2
  <2>4. f[0] = 0 /\ \A i \in 1..k : f[i] = f[i - 1] + s[i]
    BY <2>1
  <2> HIDE DEF g
  <2>5. ASSUME NEW i \in 0..(k + 1)
        PROVE  g[i] = IF i = 0 THEN 0 ELSE g[i - 1] + s[i]
    <3>1. i = 0 => i \in 0..k
      OBVIOUS
    <3>2. i \in 1..k => i \in 0..k /\ i - 1 \in 0..k /\ i # 0
      OBVIOUS
    <3>3. i = k + 1 => i - 1 = k /\ k \in 0..k /\ i # 0
      OBVIOUS
    <3>4. i = 0 \/ i \in 1..k \/ i = k + 1
      OBVIOUS
    <3> QED
      BY <2>3, <2>4, <3>1, <3>2, <3>3, <3>4, Zenon
  <2>6. Upto(g, k + 1)
    BY <2>3, <2>5
  <2> QED
    BY <2>3, <2>6, Zenon
<1> HIDE DEF T
<1>3. Len(s) \in T
  BY <1>1, <1>2, Induct
<1> QED
  BY <1>3 DEF T, SumsTo

(* The total of one byte more. *)
LEMMA TotalSteps ==
  /\ Total(<<>>) = 0
  /\ \A s \in Seq(Nat) : Total(s) \in Nat
  /\ \A s \in Seq(Nat), b \in Nat : Total(Append(s, b)) = Total(s) + b
<1> DEFINE F(s) == CHOOSE f : SumsTo(f, s)
<1>1. ASSUME NEW s \in Seq(Nat)
      PROVE  /\ Total(s) = F(s)[Len(s)]
             /\ F(s)[0] = 0 /\ \A i \in 1..Len(s) : F(s)[i] = F(s)[i - 1] + s[i]
             /\ \A i \in 0..Len(s) : F(s)[i] \in Nat
  <2>1. PICK g \in [0..Len(s) -> Nat] : SumsTo(g, s)
    BY SumsExist
  <2>2. Total(s) = F(s)[Len(s)]
    BY DEF Total, SumsTo
  <2>3. SumsTo(F(s), s)
    BY <2>1
  <2> DEFINE f == F(s)
  <2> HIDE DEF f
  <2>4. f = [i \in 0..Len(s) |-> IF i = 0 THEN 0 ELSE f[i - 1] + s[i]]
    BY <2>3 DEF SumsTo, f
  <2>5. f[0] = 0 /\ \A i \in 1..Len(s) : f[i] = f[i - 1] + s[i]
    <3>1. 0 \in 0..Len(s) /\ \A i \in 1..Len(s) : i \in 0..Len(s) /\ i # 0
      OBVIOUS
    <3>2. \A i \in 0..Len(s) : f[i] = IF i = 0 THEN 0 ELSE f[i - 1] + s[i]
      BY <2>4, Zenon
    <3> QED
      BY <3>1, <3>2, Zenon
  <2> DEFINE T == {k \in Nat : k <= Len(s) => f[k] \in Nat}
  <2>6. 0 \in T
    BY <2>5
  <2>7. ASSUME NEW k \in Nat, k \in T PROVE k + 1 \in T
    <3>1. k + 1 <= Len(s) => s[k + 1] \in Nat /\ f[k + 1] = f[k] + s[k + 1]
      BY <2>5
    <3> QED
      BY <2>7, <3>1
  <2> HIDE DEF T
  <2>8. Nat \subseteq T
    BY <2>6, <2>7, Induct
  <2> QED
    BY <2>2, <2>5, <2>8 DEF T, f
<1>2. ASSUME NEW s \in Seq(Nat), NEW b \in Nat
      PROVE  Total(Append(s, b)) = Total(s) + b
  <2> DEFINE t == Append(s, b)
             f == F(s)
             g == F(t)
             T == {k \in Nat : k <= Len(s) => f[k] = g[k]}
  <2>1. /\ t \in Seq(Nat) /\ Len(t) = Len(s) + 1 /\ t[Len(s) + 1] = b
        /\ \A i \in 1..Len(s) : t[i] = s[i]
    OBVIOUS
  <2>2. /\ Total(s) = f[Len(s)] /\ f[0] = 0 /\ \A i \in 1..Len(s) : f[i] = f[i - 1] + s[i]
        /\ Total(t) = g[Len(t)] /\ g[0] = 0 /\ \A i \in 1..Len(t) : g[i] = g[i - 1] + t[i]
    BY <1>1, <2>1
  <2> HIDE DEF f, g, t, F
  <2>3. 0 \in T
    BY <2>2
  <2>4. ASSUME NEW k \in Nat, k \in T PROVE k + 1 \in T
    BY <2>1, <2>2, <2>4
  <2> HIDE DEF T
  <2>5. Len(s) \in T
    BY <2>3, <2>4, Induct
  <2> QED
    BY <2>1, <2>2, <2>5 DEF T, t
<1>3. Total(<<>>) = 0
  BY <1>1, Len(<<>>) = 0, <<>> \in Seq(Nat)
<1>4. \A s \in Seq(Nat) : Total(s) \in Nat
  BY <1>1
<1> QED
  BY <1>2, <1>3, <1>4

-----------------------------------------------------------------------------
(* Sequences one after the other. *)

FlattensTo(f, seqs) ==
  f = [i \in 1..Len(seqs) |-> IF i = 1 THEN seqs[i] ELSE f[i - 1] \o seqs[i]]

LEMMA FlattensExist ==
  ASSUME NEW B, NEW s \in Seq(Seq(B))
  PROVE  \E f : FlattensTo(f, s)
<1> DEFINE Upto(f, k) == f = [i \in 1..k |-> IF i = 1 THEN s[i] ELSE f[i - 1] \o s[i]]
           T == {k \in Nat : \E f : Upto(f, k)}
<1>1. 0 \in T
  <2> DEFINE f == [i \in 1..0 |-> <<>>]
  <2>1. Upto(f, 0)
    OBVIOUS
  <2> QED
    BY <2>1
<1>2. ASSUME NEW k \in Nat, k \in T PROVE k + 1 \in T
  <2>1. PICK f : Upto(f, k)
    BY <1>2
  <2> DEFINE g == [i \in 1..(k + 1) |-> IF i = k + 1
                                        THEN IF k = 0 THEN s[1] ELSE f[k] \o s[k + 1]
                                        ELSE f[i]]
  <2>3. /\ g[k + 1] = IF k = 0 THEN s[1] ELSE f[k] \o s[k + 1]
        /\ \A i \in 1..k : g[i] = f[i]
        /\ g = [i \in 1..(k + 1) |-> g[i]]
    <3>1. k + 1 \in 1..(k + 1) /\ \A i \in 1..k : i \in 1..(k + 1) /\ i # k + 1
      OBVIOUS
    <3> QED
      BY <3>1, Zenon
  <2>4. \A i \in 1..k : f[i] = IF i = 1 THEN s[i] ELSE f[i - 1] \o s[i]
    BY <2>1
  <2> HIDE DEF g
  <2>5. ASSUME NEW i \in 1..(k + 1)
        PROVE  g[i] = IF i = 1 THEN s[i] ELSE g[i - 1] \o s[i]
    <3>1. CASE i = k + 1
      <4>1. k = 0 => i = 1
        BY <3>1
      <4>2. k # 0 => i # 1 /\ i - 1 = k /\ k \in 1..k
        BY <3>1
      <4> QED
        BY <2>3, <3>1, <4>1, <4>2, Zenon
    <3>2. CASE i # k + 1
      <4>1. i \in 1..k /\ (i # 1 => i - 1 \in 1..k)
        BY <3>2
      <4> QED
        BY <2>3, <2>4, <4>1
    <3> QED
      BY <3>1, <3>2
  <2>6. Upto(g, k + 1)
    BY <2>3, <2>5
  <2>7. \E u : Upto(u, k + 1)
    BY <2>6, Zenon
  <2> QED
    <3>1. k + 1 \in Nat
      OBVIOUS
    <3> QED
      BY <2>7, <3>1, Zenon
<1> HIDE DEF T
<1>3. Len(s) \in T
  BY <1>1, <1>2, Induct
<1> QED
  BY <1>3 DEF T, FlattensTo

LEMMA FlattenSteps ==
  ASSUME NEW B
  PROVE  /\ FlattenSeq(<<>>) = <<>>
         /\ \A s \in Seq(Seq(B)) : FlattenSeq(s) \in Seq(B)
         /\ \A s \in Seq(Seq(B)), x \in Seq(B) :
              FlattenSeq(Append(s, x)) = FlattenSeq(s) \o x
<1> DEFINE F(s) == CHOOSE f : FlattensTo(f, s)
<1>0. FlattenSeq(<<>>) = <<>>
  BY Len(<<>>) = 0 DEF FlattenSeq
<1>1. ASSUME NEW s \in Seq(Seq(B)), s # <<>>
      PROVE  /\ FlattenSeq(s) = F(s)[Len(s)]
             /\ F(s)[1] = s[1] /\ \A i \in 2..Len(s) : F(s)[i] = F(s)[i - 1] \o s[i]
             /\ \A i \in 1..Len(s) : F(s)[i] \in Seq(B)
  <2>1. PICK g : FlattensTo(g, s)
    BY FlattensExist
  <2>2. Len(s) \in Nat /\ Len(s) # 0
    BY <1>1, EmptySeq
  <2>3. FlattenSeq(s) = F(s)[Len(s)]
    BY <2>2 DEF FlattenSeq, FlattensTo
  <2>4. FlattensTo(F(s), s)
    BY <2>1
  <2> DEFINE f == F(s)
  <2> HIDE DEF f
  <2>5. f = [i \in 1..Len(s) |-> IF i = 1 THEN s[i] ELSE f[i - 1] \o s[i]]
    BY <2>4 DEF FlattensTo, f
  <2>6. f[1] = s[1] /\ \A i \in 2..Len(s) : f[i] = f[i - 1] \o s[i]
    <3>1. 1 \in 1..Len(s) /\ \A i \in 2..Len(s) : i \in 1..Len(s) /\ i # 1
      BY <2>2
    <3>2. \A i \in 1..Len(s) : f[i] = IF i = 1 THEN s[i] ELSE f[i - 1] \o s[i]
      BY <2>5, Zenon
    <3> QED
      BY <3>1, <3>2, Zenon
  <2> DEFINE T == {k \in Nat : k \in 1..Len(s) => f[k] \in Seq(B)}
  <2>7. 0 \in T
    OBVIOUS
  <2>8. ASSUME NEW k \in Nat, k \in T PROVE k + 1 \in T
    <3> SUFFICES ASSUME k + 1 \in 1..Len(s) PROVE f[k + 1] \in Seq(B)
      OBVIOUS
    <3>1. s[k + 1] \in Seq(B)
      OBVIOUS
    <3>2. CASE k = 0
      BY <2>6, <3>1, <3>2
    <3>3. CASE k # 0
      <4>1. k \in 1..Len(s) /\ k + 1 \in 2..Len(s)
        BY <3>3
      <4>2. f[k] \in Seq(B) /\ f[k + 1] = f[(k + 1) - 1] \o s[k + 1] /\ (k + 1) - 1 = k
        <5>1. f[k] \in Seq(B) /\ (k + 1) - 1 = k
          BY <2>8, <4>1
        <5>2. f[k + 1] = f[(k + 1) - 1] \o s[k + 1]
          BY <2>6, <4>1, Zenon
        <5> QED
          BY <5>1, <5>2
      <4> QED
        BY <3>1, <4>2, ConcatProperties
    <3> QED
      BY <3>2, <3>3
  <2> HIDE DEF T
  <2>9. Nat \subseteq T
    BY <2>7, <2>8, Induct
  <2>10. \A i \in 1..Len(s) : f[i] \in Seq(B)
    <3>1. \A i \in 1..Len(s) : i \in Nat
      OBVIOUS
    <3> QED
      BY <2>9, <3>1 DEF T
  <2> QED
    BY <2>3, <2>6, <2>10, Zenon DEF f
<1>2. ASSUME NEW s \in Seq(Seq(B))
      PROVE  FlattenSeq(s) \in Seq(B)
  <2>1. CASE s = <<>>
    BY <1>0, <2>1, EmptySeq
  <2>2. CASE s # <<>>
    <3>1. Len(s) \in 1..Len(s)
      BY <2>2, EmptySeq
    <3> HIDE DEF F
    <3> QED
      BY <1>1, <2>2, <3>1, Zenon
  <2> QED
    BY <2>1, <2>2
<1>3. ASSUME NEW s \in Seq(Seq(B)), NEW x \in Seq(B)
      PROVE  FlattenSeq(Append(s, x)) = FlattenSeq(s) \o x
  <2> DEFINE t == Append(s, x)
             f == F(s)
             g == F(t)
             T == {k \in Nat : k \in 1..Len(s) => f[k] = g[k]}
  <2>1. /\ t \in Seq(Seq(B)) /\ Len(t) = Len(s) + 1 /\ t[Len(s) + 1] = x /\ t # <<>>
        /\ \A i \in 1..Len(s) : t[i] = s[i]
    BY AppendProperties, EmptySeq
  <2>2. /\ FlattenSeq(t) = g[Len(t)]
        /\ g[1] = t[1] /\ \A i \in 2..Len(t) : g[i] = g[i - 1] \o t[i]
    BY <1>1, <2>1
  <2>3. CASE s = <<>>
    <3>1. Len(t) = 1 /\ FlattenSeq(t) = x
      BY <2>1, <2>2, <2>3
    <3>2. <<>> \o x = x
      BY ConcatEmptySeq
    <3> QED
      BY <1>0, <2>3, <3>1, <3>2
  <2>4. CASE s # <<>>
    <3>1. /\ FlattenSeq(s) = f[Len(s)]
          /\ f[1] = s[1] /\ \A i \in 2..Len(s) : f[i] = f[i - 1] \o s[i]
      BY <1>1, <2>4
    <3>2. Len(s) \in Nat \ {0}
      BY <2>4, EmptySeq
    <3> HIDE DEF f, g, t, F
    <3>3. 0 \in T
      OBVIOUS
    <3>4. ASSUME NEW k \in Nat, k \in T PROVE k + 1 \in T
      <4> SUFFICES ASSUME k + 1 \in 1..Len(s) PROVE f[k + 1] = g[k + 1]
        OBVIOUS
      <4>1. CASE k = 0
        BY <2>1, <2>2, <3>1, <4>1
      <4>2. CASE k # 0
        <5>1. k \in 1..Len(s) /\ k + 1 \in 2..Len(s) /\ k + 1 \in 2..Len(t)
          BY <2>1, <4>2
        <5>2. f[k] = g[k] /\ t[k + 1] = s[k + 1] /\ (k + 1) - 1 = k
          BY <2>1, <3>4, <5>1
        <5> QED
          BY <2>2, <3>1, <5>1, <5>2
      <4> QED
        BY <4>1, <4>2
    <3> HIDE DEF T
    <3>5. Len(s) \in T
      BY <3>2, <3>3, <3>4, Induct
    <3>6. g[Len(t)] = g[Len(s)] \o x /\ f[Len(s)] = g[Len(s)]
      <4>1. Len(t) \in 2..Len(t) /\ Len(t) - 1 = Len(s) /\ Len(s) \in 1..Len(s)
        BY <2>1, <3>2
      <4>2. g[Len(t)] = g[Len(t) - 1] \o t[Len(t)]
        BY <2>2, <4>1, Zenon
      <4> QED
        BY <2>1, <3>5, <4>1, <4>2 DEF T
    <3> QED
      BY <2>2, <3>1, <3>6 DEF t
  <2> QED
    BY <2>3, <2>4
<1> QED
  BY <1>0, <1>2, <1>3

(* Two, one after the other. *)
LEMMA ConcatKeeps ==
  ASSUME NEW B, NEW s \in Seq(B), NEW t \in Seq(B)
  PROVE  /\ s \o t \in Seq(B) /\ Len(s \o t) = Len(s) + Len(t)
         /\ \A i \in 1..Len(s) : (s \o t)[i] = s[i]
         /\ \A j \in 1..Len(t) : (s \o t)[Len(s) + j] = t[j]
<1> DEFINE g == s \o t
<1>1. Len(s) \in Nat /\ Len(t) \in Nat
  BY LenProperties
<1>2. /\ g \in Seq(B) /\ Len(g) = Len(s) + Len(t)
      /\ \A i \in 1..(Len(s) + Len(t)) : g[i] = IF i <= Len(s) THEN s[i] ELSE t[i - Len(s)]
  BY ConcatProperties
<1> HIDE DEF g
<1>3. \A i \in 1..Len(s) : i \in 1..(Len(s) + Len(t)) /\ i <= Len(s)
  BY <1>1
<1>4. \A j \in 1..Len(t) : /\ Len(s) + j \in 1..(Len(s) + Len(t)) /\ ~(Len(s) + j <= Len(s))
                           /\ (Len(s) + j) - Len(s) = j
  BY <1>1
<1>5. \A i \in 1..Len(s) : g[i] = s[i]
  BY <1>2, <1>3
<1>6. \A j \in 1..Len(t) : g[Len(s) + j] = t[j]
  BY <1>2, <1>4
<1> QED
  BY <1>2, <1>5, <1>6 DEF g

LEMMA Within ==
  ASSUME NEW a \in Nat, NEW b \in Nat, NEW l \in Nat, NEW m \in Nat,
         b = a + l, b <= m, NEW j \in 1..l
  PROVE  a + j \in 1..m
OBVIOUS

(* Where each of them lies in the whole. *)
LaidAt(q, s) ==
  /\ q \in [1..(Len(s) + 1) -> Nat]
  /\ q[1] = 0 /\ q[Len(s) + 1] = Len(FlattenSeq(s))
  /\ \A k \in 1..Len(s) :
       /\ q[k + 1] = q[k] + Len(s[k]) /\ q[k + 1] <= Len(FlattenSeq(s))
       /\ \A j \in 1..Len(s[k]) : FlattenSeq(s)[q[k] + j] = s[k][j]

LEMMA FlattenLays ==
  ASSUME NEW B, NEW s \in Seq(Seq(B))
  PROVE  \E q : LaidAt(q, s)
<1> DEFINE T == {n \in Nat : \A u \in Seq(Seq(B)) : Len(u) = n => \E q : LaidAt(q, u)}
<1>1. 0 \in T
  <2> SUFFICES ASSUME NEW u \in Seq(Seq(B)), Len(u) = 0 PROVE \E q : LaidAt(q, u)
    OBVIOUS
  <2> DEFINE q == [k \in 1..1 |-> 0]
  <2>1. u = <<>> /\ FlattenSeq(u) = <<>>
    BY EmptySeq, FlattenSteps
  <2>2. LaidAt(q, u)
    BY <2>1 DEF LaidAt
  <2> QED
    BY <2>2, Zenon
<1>2. ASSUME NEW n \in Nat, n \in T PROVE n + 1 \in T
  <2> SUFFICES ASSUME NEW u \in Seq(Seq(B)), Len(u) = n + 1 PROVE \E q : LaidAt(q, u)
    OBVIOUS
  <2>0. u # <<>>
    BY EmptySeq
  <2>1. PICK v \in Seq(Seq(B)), x \in Seq(B) : u = Append(v, x)
    BY <2>0, SequenceEmptyOrAppend, Zenon
  <2>2. /\ Len(v) = n /\ u[n + 1] = x /\ \A k \in 1..n : u[k] = v[k] /\ v[k] \in Seq(B)
    BY <2>1, AppendProperties, LenProperties
  <2>3. PICK p : LaidAt(p, v)
    BY <1>2, <2>2, Zenon
  <2> DEFINE f == FlattenSeq(v)
             g == FlattenSeq(u)
             q == [k \in 1..(n + 2) |-> IF k = n + 2 THEN Len(g) ELSE p[k]]
  <2>4. f \in Seq(B) /\ g = f \o x
    BY <2>1, FlattenSteps
  <2>5. /\ g \in Seq(B) /\ Len(g) = Len(f) + Len(x) /\ Len(f) \in Nat /\ Len(x) \in Nat
        /\ \A i \in 1..Len(f) : g[i] = f[i]
        /\ \A j \in 1..Len(x) : g[Len(f) + j] = x[j]
    <3>1. x \in Seq(B) /\ f \in Seq(B)
      BY <2>4
    <3>2. Len(f) \in Nat /\ Len(x) \in Nat
      BY <3>1, LenProperties
    <3>3. g = f \o x
      BY <2>4
    <3> HIDE DEF f, g, q
    <3>4. /\ f \o x \in Seq(B) /\ Len(f \o x) = Len(f) + Len(x)
          /\ \A i \in 1..Len(f) : (f \o x)[i] = f[i]
          /\ \A j \in 1..Len(x) : (f \o x)[Len(f) + j] = x[j]
      BY <3>1, ConcatKeeps
    <3> QED
      BY <3>2, <3>3, <3>4, Zenon
  <2> HIDE DEF f, g
  <2>6. /\ p \in [1..(n + 1) -> Nat] /\ p[1] = 0 /\ p[n + 1] = Len(f)
        /\ \A k \in 1..n :
             /\ p[k + 1] = p[k] + Len(v[k]) /\ p[k + 1] <= Len(f)
             /\ \A j \in 1..Len(v[k]) : f[p[k] + j] = v[k][j]
    BY <2>2, <2>3 DEF LaidAt, f
  <2>7. /\ q \in [1..(n + 2) -> Nat] /\ q[n + 2] = Len(g) /\ \A k \in 1..(n + 1) : q[k] = p[k]
    BY <2>5, <2>6
  <2> HIDE DEF q, T
  <2>8. ASSUME NEW k \in 1..(n + 1)
        PROVE  /\ q[k + 1] = q[k] + Len(u[k]) /\ q[k + 1] <= Len(g)
               /\ \A j \in 1..Len(u[k]) : g[q[k] + j] = u[k][j]
    <3>1. CASE k = n + 1
      <4>1. q[k] = Len(f) /\ q[k + 1] = Len(g) /\ u[k] = x
        <5>1. k + 1 = n + 2 /\ k \in 1..(n + 1)
          BY <3>1
        <5> QED
          BY <2>2, <2>6, <2>7, <3>1, <5>1
      <4>2. q[k + 1] = q[k] + Len(u[k]) /\ q[k + 1] <= Len(g)
        BY <2>5, <4>1
      <4>3. \A j \in 1..Len(u[k]) : g[q[k] + j] = u[k][j]
        BY <2>5, <4>1, Zenon
      <4> QED
        BY <4>2, <4>3
    <3>2. CASE k # n + 1
      <4>1. k \in 1..n /\ k \in 1..(n + 1) /\ k + 1 \in 1..(n + 1)
        BY <3>2
      <4>2. q[k] = p[k] /\ q[k + 1] = p[k + 1] /\ u[k] = v[k]
        BY <2>2, <2>7, <4>1, Zenon
      <4>3. p[k] \in Nat /\ p[k + 1] \in Nat /\ Len(v[k]) \in Nat
        BY <2>2, <2>6, <4>1, LenProperties
      <4>4. q[k + 1] = q[k] + Len(u[k])
        BY <2>6, <4>1, <4>2
      <4>5. p[k + 1] <= Len(f)
        BY <2>6, <4>1
      <4>6. q[k + 1] <= Len(g)
        BY <2>5, <4>2, <4>3, <4>5
      <4>7. p[k + 1] = p[k] + Len(v[k])
        BY <2>6, <4>1
      <4>8. ASSUME NEW j \in 1..Len(v[k]) PROVE g[p[k] + j] = v[k][j]
        <5>0. Len(f) \in Nat
          BY <2>5
        <5>1. p[k] + j \in 1..Len(f)
          BY <4>3, <4>5, <4>7, <5>0, Within, Zenon
        <5>2. f[p[k] + j] = v[k][j]
          BY <2>6, <4>1
        <5> QED
          BY <2>5, <5>1, <5>2, Zenon
      <4> QED
        BY <4>2, <4>4, <4>6, <4>8, Zenon
    <3> QED
      BY <3>1, <3>2
  <2>9. LaidAt(q, u)
    BY <2>5, <2>6, <2>7, <2>8 DEF LaidAt, g
  <2> QED
    BY <2>9, Zenon
<1> HIDE DEF T
<1>3. Len(s) \in T
  BY <1>1, <1>2, Induct
<1> QED
  BY <1>3 DEF T

-----------------------------------------------------------------------------
(* The bytes of an image. *)

(* zeroChecksum() makes the sum a multiple of 256. *)
LEMMA ChecksumMakesSound ==
  ASSUME NEW s \in Seq(Octets)
  PROVE  /\ ZeroChecksum(s) \in Octets
         /\ Sound(Append(s, ZeroChecksum(s)))
<1>1. s \in Seq(Nat)
  BY SeqMonotonic DEF Octets
<1>2. Total(s) \in Nat
  BY <1>1, TotalSteps
<1>3. ZeroChecksum(s) \in Octets /\ ZeroChecksum(s) \in Nat
  BY <1>2 DEF ZeroChecksum, Octets
<1>4. Total(Append(s, ZeroChecksum(s))) = Total(s) + ZeroChecksum(s)
  BY <1>1, <1>3, TotalSteps
<1>5. (Total(s) + ZeroChecksum(s)) % 256 = 0
  BY <1>2 DEF ZeroChecksum
<1> QED
  BY <1>3, <1>4, <1>5 DEF Sound

(* A field is a byte with the length of what follows. *)
LEMMA FieldType ==
  ASSUME NEW t \in Seq(Octets)
  PROVE  /\ Cut(t) \in Seq(Octets) /\ Len(Cut(t)) \in Nat /\ Len(Cut(t)) <= 63
         /\ (Len(Cut(t)) = 1 <=> Len(t) = 1)
         /\ Field(t) \in Seq(Octets) /\ Len(Field(t)) = 1 + Len(Cut(t))
         /\ Field(t)[1] = 192 + Len(Cut(t))
         /\ \A j \in 1..Len(Cut(t)) : Field(t)[1 + j] = Cut(t)[j]
<1>1. Cut(t) \in Seq(Octets) /\ Len(Cut(t)) \in Nat /\ Len(Cut(t)) <= 63 /\ (Len(Cut(t)) = 1 <=> Len(t) = 1)
  <2>1. CASE Len(t) > 63
    <3>1. \A i \in 1..63 : t[i] \in Octets
      BY <2>1, ElementOfSeq
    <3>2. SubSeq(t, 1, 63) \in Seq(Octets) /\ Len(SubSeq(t, 1, 63)) = 63
      BY <3>1, SubSeqProperties
    <3> QED
      BY <2>1, <3>2 DEF Cut, MaxFieldLen
  <2>2. CASE ~(Len(t) > 63)
    BY <2>2, LenProperties DEF Cut, MaxFieldLen
  <2> QED
    BY <2>1, <2>2
<1> DEFINE c == Cut(t)
           h == <<192 + Len(c)>>
<1> HIDE DEF c
<1>2. h \in Seq(Octets) /\ Len(h) = 1 /\ h[1] = 192 + Len(c)
  BY <1>1 DEF Octets, c
<1>3. Field(t) = h \o c
  BY DEF Field, TypeAscii, c
<1> HIDE DEF h
<1>4. c \in Seq(Octets)
  BY <1>1 DEF c
<1>5. /\ h \o c \in Seq(Octets) /\ Len(h \o c) = Len(h) + Len(c)
      /\ \A i \in 1..Len(h) : (h \o c)[i] = h[i]
      /\ \A j \in 1..Len(c) : (h \o c)[Len(h) + j] = c[j]
  BY <1>2, <1>4, ConcatKeeps
<1>6. 1 \in 1..Len(h)
  BY <1>2
<1>7. (h \o c)[1] = h[1]
  BY <1>5, <1>6, Zenon
<1> QED
  BY <1>1, <1>2, <1>3, <1>5, <1>7 DEF c

LEMMA ZerosType ==
  ASSUME NEW n \in Nat
  PROVE  Zeros(n) \in Seq(Octets) /\ Len(Zeros(n)) = n
BY DEF Zeros, Octets

(* As many bytes are added as make whole blocks of eight. *)
LEMMA PadToBlocks ==
  ASSUME NEW n \in Nat, NEW pad,
         pad = (AreaAlign - ((n + 2) % AreaAlign)) % AreaAlign
  PROVE  pad \in 0..7 /\ \E m \in Nat : n + 2 + pad = 8 * m
<1>1. \E k \in Nat, j \in 0..7 : n + 2 = 8 * k + j /\ (n + 2) % 8 = j
  OBVIOUS
<1>2. PICK k \in Nat, j \in 0..7 : n + 2 = 8 * k + j /\ (n + 2) % 8 = j
  BY <1>1
<1>3. pad = (8 - j) % 8
  BY <1>2 DEF AreaAlign
<1>4. \/ j = 0 /\ pad = 0
      \/ j # 0 /\ pad = 8 - j
  BY <1>3
<1>5. CASE j = 0
  BY <1>2, <1>4, <1>5
<1>6. CASE j # 0
  <2>1. k + 1 \in Nat /\ n + 2 + pad = 8 * (k + 1) /\ pad \in 0..7
    BY <1>2, <1>4, <1>6
  <2> QED
    BY <2>1
<1> QED
  BY <1>5, <1>6

(* finalizeArea(), step by step. *)
LEMMA FinalizedSteps ==
  ASSUME NEW bytes
  PROVE  \E ended, pad, padded, blocks, sized :
           /\ ended = Append(bytes, EndOfFields)
           /\ pad = (AreaAlign - ((Len(ended) + 1) % AreaAlign)) % AreaAlign
           /\ padded = ended \o Zeros(pad)
           /\ blocks = ((Len(padded) + 1) \div AreaAlign) % 256
           /\ sized = [padded EXCEPT ![2] = blocks]
           /\ Finalized(bytes) = Append(sized, ZeroChecksum(sized))
<1> DEFINE ended == Append(bytes, EndOfFields)
           pad == (AreaAlign - ((Len(ended) + 1) % AreaAlign)) % AreaAlign
           padded == ended \o Zeros(pad)
           blocks == ((Len(padded) + 1) \div AreaAlign) % 256
           sized == [padded EXCEPT ![2] = blocks]
<1>1. Finalized(bytes) = Append(sized, ZeroChecksum(sized))
  BY Zenon DEF Finalized
<1> WITNESS ended, pad, padded, blocks, sized
<1> QED
  BY <1>1

AtMost == 2000

(* finalizeArea(): the end marker follows the bytes, the second of which is  *)
(* the length of it all in blocks of eight, and the sum is right.            *)
LEMMA FinalizedIs ==
  ASSUME NEW bytes \in Seq(Octets), 2 <= Len(bytes), Len(bytes) <= AtMost
  PROVE  LET r == Finalized(bytes)
         IN /\ r \in Seq(Octets) /\ Sound(r)
            /\ Len(r) = 8 * r[2] /\ Len(r) \in (Len(bytes) + 2)..(Len(bytes) + 9)
            /\ \A i \in 1..Len(bytes) : i # 2 => r[i] = bytes[i]
            /\ r[Len(bytes) + 1] = EndOfFields
<1> DEFINE n == Len(bytes)
<1>1. n = Len(bytes)
  OBVIOUS
<1> HIDE DEF n
<1>0. PICK ended, pad, padded, blocks, sized :
        /\ ended = Append(bytes, EndOfFields)
        /\ pad = (AreaAlign - ((Len(ended) + 1) % AreaAlign)) % AreaAlign
        /\ padded = ended \o Zeros(pad)
        /\ blocks = ((Len(padded) + 1) \div AreaAlign) % 256
        /\ sized = [padded EXCEPT ![2] = blocks]
        /\ Finalized(bytes) = Append(sized, ZeroChecksum(sized))
  BY FinalizedSteps, Zenon
<1> DEFINE r == Append(sized, ZeroChecksum(sized))
<1>2. ended = Append(bytes, EndOfFields)
  BY <1>0
<1>3. pad = (AreaAlign - ((Len(ended) + 1) % AreaAlign)) % AreaAlign
  BY <1>0, Zenon
<1>4. padded = ended \o Zeros(pad)
  BY <1>0, Zenon
<1>5. blocks = ((Len(padded) + 1) \div AreaAlign) % 256
  BY <1>0, Zenon
<1>6. sized = [padded EXCEPT ![2] = blocks]
  BY <1>0, Zenon
<1>7. r = Append(sized, ZeroChecksum(sized))
  OBVIOUS
<1>8. Finalized(bytes) = r
  BY <1>0, Zenon
<1> HIDE DEF r
<1>9. n \in Nat /\ 2 <= n /\ n <= AtMost
  BY <1>1, LenProperties
<1>10. /\ ended \in Seq(Octets) /\ Len(ended) = n + 1
       /\ \A i \in 1..n : ended[i] = bytes[i]
       /\ ended[n + 1] = EndOfFields
  <2>1. EndOfFields \in Octets
    BY DEF EndOfFields, Octets
  <2> QED
    BY <1>1, <1>2, <2>1, AppendProperties
<1>11. pad \in 0..7 /\ \E m \in Nat : n + 2 + pad = 8 * m
  <2>1. n \in Nat /\ Len(ended) + 1 = n + 2
    BY <1>9, <1>10
  <2> QED
    BY <1>3, <2>1, PadToBlocks
<1>12. Zeros(pad) \in Seq(Octets) /\ Len(Zeros(pad)) = pad
  BY <1>11, ZerosType
<1>13. /\ padded \in Seq(Octets) /\ Len(padded) = n + 1 + pad
       /\ \A i \in 1..(n + 1) : padded[i] = ended[i]
  BY <1>4, <1>9, <1>10, <1>11, <1>12, ConcatKeeps
<1>14. blocks \in Octets /\ 8 * blocks = n + 2 + pad
  <2>1. PICK m \in Nat : n + 2 + pad = 8 * m
    BY <1>11
  <2>2. m <= 255 /\ blocks = ((8 * m) \div 8) % 256
    BY <1>5, <1>9, <1>11, <1>13, <2>1 DEF AreaAlign, AtMost
  <2>3. blocks = m
    BY <2>1, <2>2
  <2> QED
    BY <2>1, <2>2, <2>3 DEF Octets
<1>15. /\ sized \in Seq(Octets) /\ Len(sized) = n + 1 + pad /\ sized[2] = blocks
       /\ \A i \in 1..(n + 1) : i # 2 => sized[i] = padded[i]
  <2>1. 2 \in 1..Len(padded) /\ \A i \in 1..(n + 1) : i \in 1..Len(padded)
    BY <1>9, <1>11, <1>13
  <2>2. /\ sized \in Seq(Octets) /\ Len(sized) = Len(padded)
        /\ \A j \in 1..Len(padded) : sized[j] = IF j = 2 THEN blocks ELSE padded[j]
    BY <1>6, <1>13, <1>14, <2>1, ExceptSeq
  <2> QED
    BY <1>13, <2>1, <2>2
<1>16. /\ r \in Seq(Octets) /\ Len(r) = n + 2 + pad
       /\ \A i \in 1..(n + 1 + pad) : r[i] = sized[i]
  <2>1. ZeroChecksum(sized) \in Octets
    BY <1>15, ChecksumMakesSound
  <2>2. /\ r \in Seq(Octets) /\ Len(r) = Len(sized) + 1
        /\ \A i \in 1..Len(sized) : r[i] = sized[i]
    BY <1>7, <1>15, <2>1, AppendProperties
  <2> QED
    BY <1>9, <1>11, <1>15, <2>2
<1>17. Sound(r)
  BY <1>7, <1>15, ChecksumMakesSound
<1>18. r[2] = blocks
  BY <1>9, <1>11, <1>15, <1>16
<1>19. ASSUME NEW i \in 1..(n + 1), i # 2 PROVE r[i] = ended[i]
  BY <1>9, <1>11, <1>13, <1>15, <1>16, <1>19
<1>20. /\ Len(r) = 8 * r[2] /\ Len(r) \in (n + 2)..(n + 9)
       /\ \A i \in 1..n : i # 2 => r[i] = bytes[i]
       /\ r[n + 1] = EndOfFields
  BY <1>9, <1>10, <1>11, <1>14, <1>16, <1>18, <1>19
<1> QED
  BY <1>1, <1>8, <1>16, <1>17, <1>20

(* What can be read ends before the first text of one character. *)
ReadableUpto(texts, h) ==
  /\ h \in Nat /\ h <= Len(texts)
  /\ Readable(texts) = [i \in 1..h |-> Cut(texts[i])]
  /\ \A i \in 1..h : Len(texts[i]) # 1
  /\ h < Len(texts) => Len(texts[h + 1]) = 1

LEMMA ReadableIs ==
  ASSUME NEW texts \in Seq(Seq(Octets))
  PROVE  \E h : ReadableUpto(texts, h)
<1> DEFINE I == {i \in 1..Len(texts) : Len(texts[i]) = 1}
           hides == SelectInSeq(texts, LAMBDA t : Len(t) = 1)
<1>0. Len(texts) \in Nat
  BY LenProperties
<1>1. hides = IF I # {} THEN Min(I) ELSE 0
  BY DEF SelectInSeq
<1>2. Readable(texts) = [i \in 1..(IF hides = 0 THEN Len(texts) ELSE hides - 1) |-> Cut(texts[i])]
  BY Zenon DEF Readable
<1> HIDE DEF hides
<1>3. CASE I = {}
  <2>1. Readable(texts) = [i \in 1..Len(texts) |-> Cut(texts[i])]
    BY <1>1, <1>2, <1>3, Zenon
  <2>2. \A i \in 1..Len(texts) : Len(texts[i]) # 1
    BY <1>3
  <2>3. ReadableUpto(texts, Len(texts))
    BY <1>0, <2>1, <2>2 DEF ReadableUpto
  <2> QED
    BY <2>3
<1>4. CASE I # {}
  <2>1. I \in SUBSET Nat
    OBVIOUS
  <2>2. PICK m \in I : \A n \in I : m <= n
    <3> HIDE DEF I
    <3> QED
      BY <1>4, <2>1, Least, Zenon
  <2>3. hides \in I /\ \A n \in I : hides <= n
    <3> HIDE DEF I
    <3> QED
      BY <1>1, <1>4, <2>2, Zenon DEF Min
  <2>4. hides \in 1..Len(texts) /\ Len(texts[hides]) = 1 /\ hides # 0
    BY <2>3
  <2>5. Readable(texts) = [i \in 1..(hides - 1) |-> Cut(texts[i])]
    BY <1>2, <2>4, Zenon
  <2>6. ASSUME NEW i \in 1..(hides - 1) PROVE Len(texts[i]) # 1
    BY <1>0, <2>3, <2>4
  <2>7. hides - 1 \in Nat /\ hides - 1 <= Len(texts) /\ (hides - 1) + 1 = hides
    BY <1>0, <2>4
  <2>8. ReadableUpto(texts, hides - 1)
    BY <2>4, <2>5, <2>6, <2>7 DEF ReadableUpto
  <2> QED
    BY <2>8
<1> QED
  BY <1>3, <1>4

-----------------------------------------------------------------------------
(* A reader goes from one field to the next.                                 *)

Stops(bytes, i) == Byte(bytes, i) = EndOfFields \/ i + (Byte(bytes, i) % 64) > Len(bytes)

After(bytes, i) == i + (Byte(bytes, i) % 64) + 1

FieldAt(bytes, i) == SubSeq(bytes, i + 1, i + (Byte(bytes, i) % 64))

ReadUpto(bytes) == Len(bytes) + 64

ReadsTo(f, bytes, first) ==
  f = [i \in first..ReadUpto(bytes) |->
         IF Stops(bytes, i) THEN <<>> ELSE <<FieldAt(bytes, i)>> \o f[After(bytes, i)]]

LEMMA NextField ==
  ASSUME NEW bytes \in Seq(Octets), NEW i \in Nat, ~Stops(bytes, i)
  PROVE  /\ After(bytes, i) \in Nat
         /\ i < After(bytes, i) /\ After(bytes, i) <= ReadUpto(bytes)
<1>1. Byte(bytes, i) \in Nat
  BY ElementOfSeq DEF Byte, EndOfFields, Octets
<1> DEFINE l == Byte(bytes, i) % 64
<1>2. l \in Nat
  BY <1>1
<1>3. Len(bytes) \in Nat
  BY LenProperties
<1>4. ~(i + l > Len(bytes)) /\ After(bytes, i) = i + l + 1
  BY DEF Stops, After
<1> HIDE DEF l
<1> QED
  BY <1>2, <1>3, <1>4 DEF ReadUpto

LEMMA ReadsExist ==
  ASSUME NEW bytes \in Seq(Octets), NEW first \in Nat, first <= ReadUpto(bytes)
  PROVE  \E f : ReadsTo(f, bytes, first)
<1> DEFINE top == ReadUpto(bytes)
           T == {n \in Nat : n <= top => \E f : ReadsTo(f, bytes, top - n)}
<1>0. top \in Nat
  BY LenProperties DEF ReadUpto
<1>1. 0 \in T
  <2> DEFINE f == [i \in top..top |-> <<>>]
  <2>1. Stops(bytes, top)
    <3>1. ~Stops(bytes, top) => top < top
      BY <1>0, NextField
    <3> QED
      BY <1>0, <3>1
  <2>2. top - 0 = top
    BY <1>0
  <2>3. ReadsTo(f, bytes, top)
    <3>1. \A i \in top..top : i = top
      BY <1>0
    <3> HIDE DEF top
    <3> QED
      BY <2>1, <3>1 DEF ReadsTo, top
  <2>4. \E g : ReadsTo(g, bytes, top - 0)
    BY <2>2, <2>3, Zenon
  <2> QED
    BY <2>4
<1>2. ASSUME NEW n \in Nat, n \in T PROVE n + 1 \in T
  <2> SUFFICES ASSUME n + 1 <= top PROVE \E g : ReadsTo(g, bytes, top - (n + 1))
    OBVIOUS
  <2>1. PICK f : ReadsTo(f, bytes, top - n)
    BY <1>0, <1>2
  <2> DEFINE b == top - (n + 1)
             g == [i \in b..top |->
                     IF i = b
                     THEN IF Stops(bytes, b) THEN <<>> ELSE <<FieldAt(bytes, b)>> \o f[After(bytes, b)]
                     ELSE f[i]]
  <2> HIDE DEF T
  <2>2. b \in Nat /\ b + 1 = top - n /\ b <= top
    BY <1>0
  <2>3. f = [i \in (b + 1)..top |->
              IF Stops(bytes, i) THEN <<>> ELSE <<FieldAt(bytes, i)>> \o f[After(bytes, i)]]
    BY <2>1, <2>2 DEF ReadsTo
  <2> HIDE DEF b, top
  <2>4. /\ b \in b..top /\ \A i \in (b + 1)..top : i \in b..top /\ i # b
        /\ \A i \in b..top : i # b => i \in (b + 1)..top
        /\ \A i \in b..top : i \in Nat
    BY <1>0, <2>2
  <2>5. /\ g[b] = IF Stops(bytes, b) THEN <<>> ELSE <<FieldAt(bytes, b)>> \o f[After(bytes, b)]
        /\ \A i \in (b + 1)..top : g[i] = f[i]
        /\ g = [i \in b..top |-> g[i]]
    BY <2>4, Zenon
  <2>6. \A i \in (b + 1)..top :
          f[i] = IF Stops(bytes, i) THEN <<>> ELSE <<FieldAt(bytes, i)>> \o f[After(bytes, i)]
    BY <2>3, Zenon
  <2> HIDE DEF g
  <2>7. ASSUME NEW i \in b..top
        PROVE  g[i] = IF Stops(bytes, i) THEN <<>> ELSE <<FieldAt(bytes, i)>> \o g[After(bytes, i)]
    <3>1. ~Stops(bytes, i) => After(bytes, i) \in (b + 1)..top
      <4> SUFFICES ASSUME ~Stops(bytes, i) PROVE After(bytes, i) \in (b + 1)..top
        OBVIOUS
      <4>1. After(bytes, i) \in Nat /\ i < After(bytes, i) /\ After(bytes, i) <= top
        BY <2>4, NextField DEF top
      <4> QED
        BY <1>0, <2>2, <4>1
    <3>2. ~Stops(bytes, i) => g[After(bytes, i)] = f[After(bytes, i)]
      BY <2>5, <3>1
    <3>3. CASE i = b
      BY <2>5, <3>2, <3>3, Zenon
    <3>4. CASE i # b
      BY <2>4, <2>5, <2>6, <3>2, <3>4, Zenon
    <3> QED
      BY <3>3, <3>4
  <2>8. ReadsTo(g, bytes, b)
    BY <2>5, <2>7, Zenon DEF ReadsTo, top
  <2> QED
    BY <2>8, Zenon DEF b
<1> HIDE DEF T
<1>3. Nat \subseteq T
  BY <1>1, <1>2, Induct
<1>4. top - first \in Nat /\ top - first <= top /\ top - (top - first) = first
  BY <1>0 DEF top
<1>5. top - first \in T
  BY <1>3, <1>4
<1> QED
  BY <1>4, <1>5 DEF T

(* So a field is read where one begins, and what is read from after it       *)
(* follows.                                                                  *)
LEMMA FieldsFromIs ==
  ASSUME NEW bytes \in Seq(Octets), NEW first \in Nat, first <= ReadUpto(bytes)
  PROVE  \E f : /\ FieldsFrom(bytes, first) = f[first]
                /\ \A i \in first..ReadUpto(bytes) :
                     f[i] = IF Stops(bytes, i) THEN <<>>
                            ELSE <<FieldAt(bytes, i)>> \o f[After(bytes, i)]
<1> DEFINE f == CHOOSE f : ReadsTo(f, bytes, first)
<1>1. FieldsFrom(bytes, first) = f[first]
  BY Zenon DEF FieldsFrom, ReadsTo, ReadUpto, Stops, FieldAt, After
<1>2. ReadsTo(f, bytes, first)
  BY ReadsExist
<1> HIDE DEF f
<1>3. \A i \in first..ReadUpto(bytes) :
        f[i] = IF Stops(bytes, i) THEN <<>> ELSE <<FieldAt(bytes, i)>> \o f[After(bytes, i)]
  BY <1>2, Zenon DEF ReadsTo
<1> QED
  BY <1>1, <1>3, Zenon

Fields(texts) == [i \in DOMAIN texts |-> Field(texts[i])]

LEMMA FieldsType ==
  ASSUME NEW texts \in Seq(Seq(Octets))
  PROVE  /\ Fields(texts) \in Seq(Seq(Octets)) /\ Len(Fields(texts)) = Len(texts)
         /\ \A i \in 1..Len(texts) : /\ texts[i] \in Seq(Octets)
                                     /\ Fields(texts)[i] = Field(texts[i])
<1>1. Len(texts) \in Nat /\ DOMAIN texts = 1..Len(texts)
  BY LenProperties
<1>2. \A i \in 1..Len(texts) : texts[i] \in Seq(Octets)
  BY ElementOfSeq
<1>3. \A i \in 1..Len(texts) : Field(texts[i]) \in Seq(Octets)
  BY <1>2, FieldType
<1>4. Fields(texts) = [i \in 1..Len(texts) |-> Field(texts[i])]
  BY <1>1 DEF Fields
<1> DEFINE n == Len(texts)
           e(i) == Field(texts[i])
<1>5. n \in Nat /\ \A i \in 1..n : e(i) \in Seq(Octets)
  BY <1>1, <1>3
<1> HIDE DEF n, e
<1>6. [i \in 1..n |-> e(i)] \in Seq(Seq(Octets)) /\ Len([i \in 1..n |-> e(i)]) = n
  BY <1>5
<1>7. Fields(texts) \in Seq(Seq(Octets)) /\ Len(Fields(texts)) = n
  BY <1>4, <1>6, Zenon DEF n, e
<1> QED
  BY <1>2, <1>4, <1>7 DEF n

(* The bytes of an area from the one after the c-th are the fields of the    *)
(* texts and the end marker.                                                 *)
Holds(bytes, c, texts) ==
  /\ c + Len(FlattenSeq(Fields(texts))) + 1 <= Len(bytes)
  /\ \A j \in 1..Len(FlattenSeq(Fields(texts))) : bytes[c + j] = FlattenSeq(Fields(texts))[j]
  /\ bytes[c + Len(FlattenSeq(Fields(texts))) + 1] = EndOfFields

LEMMA CodeHoldsLength ==
  ASSUME NEW l \in Nat, l <= 63
  PROVE  (192 + l) % 64 = l
OBVIOUS

(* A field that begins at a byte. *)
LEMMA FieldIsRead ==
  ASSUME NEW bytes \in Seq(Octets), NEW i \in Nat, NEW t \in Seq(Octets), i >= 1,
         i + Len(Cut(t)) <= Len(bytes),
         bytes[i] = Field(t)[1],
         \A j \in 1..Len(Cut(t)) : bytes[i + j] = Field(t)[1 + j]
  PROVE  IF Len(t) = 1 THEN Stops(bytes, i)
         ELSE /\ ~Stops(bytes, i) /\ FieldAt(bytes, i) = Cut(t)
              /\ After(bytes, i) = i + Len(Field(t))
<1> DEFINE l == Len(Cut(t))
<1>1. /\ Cut(t) \in Seq(Octets) /\ l \in Nat /\ l <= 63 /\ (l = 1 <=> Len(t) = 1)
      /\ Len(Field(t)) = 1 + l /\ bytes[i] = 192 + l
      /\ \A j \in 1..l : bytes[i + j] = Cut(t)[j]
  BY FieldType
<1>2. Len(bytes) \in Nat /\ DOMAIN bytes = 1..Len(bytes)
  BY LenProperties
<1>3. i + l <= Len(bytes)
  OBVIOUS
<1> HIDE DEF l
<1>4. i \in 1..Len(bytes)
  BY <1>1, <1>2, <1>3
<1>5. Byte(bytes, i) = 192 + l
  BY <1>1, <1>2, <1>4 DEF Byte
<1>6. (192 + l) % 64 = l
  BY <1>1, CodeHoldsLength
<1>7. CASE Len(t) = 1
  <2>1. Byte(bytes, i) = EndOfFields
    BY <1>1, <1>5, <1>7 DEF EndOfFields
  <2> QED
    BY <1>7, <2>1 DEF Stops
<1>8. CASE Len(t) # 1
  <2>1. Byte(bytes, i) # EndOfFields
    BY <1>1, <1>5, <1>8 DEF EndOfFields
  <2>2. ~(i + l > Len(bytes))
    BY <1>1, <1>2, <1>3
  <2>3. ~Stops(bytes, i)
    BY <1>5, <1>6, <2>1, <2>2, Zenon DEF Stops
  <2>4. After(bytes, i) = i + Len(Field(t))
    <3>1. After(bytes, i) = i + l + 1
      BY <1>5, <1>6, Zenon DEF After
    <3> QED
      BY <1>1, <3>1
  <2>5. FieldAt(bytes, i) = Cut(t)
    <3>1. FieldAt(bytes, i) = SubSeq(bytes, i + 1, i + l)
      BY <1>5, <1>6, Zenon DEF FieldAt
    <3> DEFINE s == SubSeq(bytes, i + 1, i + l)
    <3>2. \A j \in (i + 1)..(i + l) : bytes[j] \in Octets
      <4>1. \A j \in (i + 1)..(i + l) : j \in 1..Len(bytes)
        BY <1>1, <1>2, <1>3
      <4> QED
        BY <4>1, ElementOfSeq
    <3>3. /\ s \in Seq(Octets)
          /\ Len(s) = IF i + 1 <= i + l THEN (i + l) - (i + 1) + 1 ELSE 0
          /\ \A j \in 1..((i + l) - (i + 1) + 1) : s[j] = bytes[(i + 1) + j - 1]
      <4>1. i + 1 \in Int /\ i + l \in Int
        BY <1>1
      <4> QED
        BY <3>2, <4>1, SubSeqProperties
    <3> HIDE DEF s
    <3>4. Len(s) = l
      BY <1>1, <3>3
    <3>5. \A j \in 1..l : /\ j \in 1..((i + l) - (i + 1) + 1)
                          /\ (i + 1) + j - 1 = i + j
      BY <1>1
    <3>6. \A j \in 1..l : s[j] = Cut(t)[j]
      BY <1>1, <3>3, <3>5
    <3>7. s = Cut(t)
      BY <1>1, <3>3, <3>4, <3>6, SeqEqual DEF l
    <3> QED
      BY <3>1, <3>7 DEF s
  <2> QED
    BY <1>8, <2>3, <2>4, <2>5
<1> QED
  BY <1>7, <1>8

LEMMA FieldPlaces ==
  ASSUME NEW c \in Nat, NEW a \in Nat, NEW z \in Nat, NEW l \in Nat, NEW m \in Nat, NEW b \in Nat,
         z = a + (1 + l), a + (1 + l) <= m, c + m + 1 <= b
  PROVE  /\ c + 1 + a \in Nat /\ c + 1 + a >= 1 /\ c + 1 + a + l <= b
         /\ c + 1 + z = (c + 1 + a) + (1 + l)
         /\ 1 \in 1..(1 + l) /\ c + (a + 1) = c + 1 + a
         /\ \A j \in 1..l : 1 + j \in 1..(1 + l) /\ c + (a + (1 + j)) = (c + 1 + a) + j
OBVIOUS

LEMMA TextsAreRead ==
  ASSUME NEW texts \in Seq(Seq(Octets)), NEW bytes \in Seq(Octets), NEW c \in Nat,
         Holds(bytes, c, texts)
  PROVE  FieldsFrom(bytes, c + 1) = Readable(texts)
<1> DEFINE fs == Fields(texts)
           flat == FlattenSeq(fs)
           N == Len(texts)
<1>1. /\ fs \in Seq(Seq(Octets)) /\ Len(fs) = N /\ N \in Nat
      /\ \A i \in 1..N : texts[i] \in Seq(Octets) /\ fs[i] = Field(texts[i])
  BY FieldsType, LenProperties
<1>2. PICK h : ReadableUpto(texts, h)
  BY ReadableIs
<1>3. PICK q : LaidAt(q, fs)
  BY <1>1, FlattenLays
<1>4. flat \in Seq(Octets) /\ Len(flat) \in Nat
  BY <1>1, FlattenSteps, LenProperties
<1>5. /\ c + Len(flat) + 1 <= Len(bytes) /\ bytes[c + Len(flat) + 1] = EndOfFields
      /\ \A j \in 1..Len(flat) : bytes[c + j] = flat[j]
  BY DEF Holds
<1>6. /\ q \in [1..(N + 1) -> Nat] /\ q[1] = 0 /\ q[N + 1] = Len(flat)
      /\ \A k \in 1..N :
           /\ q[k + 1] = q[k] + Len(fs[k]) /\ q[k + 1] <= Len(flat)
           /\ \A j \in 1..Len(fs[k]) : flat[q[k] + j] = fs[k][j]
  BY <1>1, <1>3 DEF LaidAt
<1> HIDE DEF fs, flat, N
<1>7. Len(bytes) \in Nat
  BY LenProperties
<1> DEFINE at(k) == c + 1 + q[k]
<1>8. ASSUME NEW k \in 1..N
      PROVE  IF Len(texts[k]) = 1 THEN Stops(bytes, at(k))
             ELSE /\ ~Stops(bytes, at(k)) /\ FieldAt(bytes, at(k)) = Cut(texts[k])
                  /\ After(bytes, at(k)) = at(k + 1)
  <2> DEFINE t == texts[k]
             l == Len(Cut(t))
             m == Len(flat)
             b == Len(bytes)
  <2>1. t \in Seq(Octets) /\ fs[k] = Field(t)
    BY <1>1
  <2>2. l \in Nat /\ Len(Field(t)) = 1 + l
    BY <2>1, FieldType
  <2>3. q[k] \in Nat /\ q[k + 1] \in Nat
    <3>1. k \in 1..(N + 1) /\ k + 1 \in 1..(N + 1)
      BY <1>1
    <3> QED
      BY <1>6, <3>1
  <2>4. q[k + 1] = q[k] + (1 + l) /\ q[k] + (1 + l) <= m
    BY <1>6, <2>1, <2>2
  <2>5. c + m + 1 <= b /\ m \in Nat /\ b \in Nat
    BY <1>4, <1>5, <1>7
  <2>6. \A j \in 1..(1 + l) : flat[q[k] + j] = Field(t)[j]
    BY <1>6, <2>1, <2>2
  <2> HIDE DEF t, l, m, b
  <2>7. ASSUME NEW j \in 1..(1 + l) PROVE bytes[c + (q[k] + j)] = Field(t)[j]
    <3>1. q[k] + j \in 1..m
      BY <2>2, <2>3, <2>4, <2>5
    <3>2. bytes[c + (q[k] + j)] = flat[q[k] + j]
      BY <1>5, <3>1, Zenon DEF m
    <3> QED
      BY <2>6, <3>2
  <2>13. /\ c + 1 + q[k] \in Nat /\ c + 1 + q[k] >= 1 /\ c + 1 + q[k] + l <= b
         /\ c + 1 + q[k + 1] = (c + 1 + q[k]) + (1 + l)
         /\ 1 \in 1..(1 + l) /\ c + (q[k] + 1) = c + 1 + q[k]
         /\ \A j \in 1..l : 1 + j \in 1..(1 + l) /\ c + (q[k] + (1 + j)) = (c + 1 + q[k]) + j
    <3> DEFINE a == q[k]
               z == q[k + 1]
    <3>1. a \in Nat /\ z \in Nat /\ z = a + (1 + l) /\ a + (1 + l) <= m
      BY <2>3, <2>4
    <3> HIDE DEF a, z
    <3>2. /\ c + 1 + a \in Nat /\ c + 1 + a >= 1 /\ c + 1 + a + l <= b
         /\ c + 1 + z = (c + 1 + a) + (1 + l)
         /\ 1 \in 1..(1 + l) /\ c + (a + 1) = c + 1 + a
         /\ \A j \in 1..l : 1 + j \in 1..(1 + l) /\ c + (a + (1 + j)) = (c + 1 + a) + j
      BY <2>2, <2>5, <3>1, FieldPlaces
    <3> QED
      BY <3>2 DEF a, z
  <2>8. at(k) \in Nat /\ at(k) >= 1 /\ at(k) + l <= b /\ at(k + 1) = at(k) + (1 + l)
    BY <2>13, Zenon
  <2>12. /\ 1 \in 1..(1 + l) /\ c + (q[k] + 1) = at(k)
         /\ \A j \in 1..l : 1 + j \in 1..(1 + l) /\ c + (q[k] + (1 + j)) = at(k) + j
    BY <2>13, Zenon
  <2> HIDE DEF at
  <2>9. bytes[at(k)] = Field(t)[1]
    BY <2>7, <2>12, Zenon
  <2>10. \A j \in 1..l : bytes[at(k) + j] = Field(t)[1 + j]
    BY <2>7, <2>12, Zenon
  <2>11. IF Len(t) = 1 THEN Stops(bytes, at(k))
         ELSE /\ ~Stops(bytes, at(k)) /\ FieldAt(bytes, at(k)) = Cut(t)
              /\ After(bytes, at(k)) = at(k) + Len(Field(t))
    BY <2>1, <2>8, <2>9, <2>10, FieldIsRead DEF l, b
  <2> QED
    BY <2>2, <2>8, <2>11 DEF t
<1>9. /\ h \in Nat /\ h <= N /\ Readable(texts) = [i \in 1..h |-> Cut(texts[i])]
      /\ \A i \in 1..h : Len(texts[i]) # 1 /\ i \in 1..N
      /\ h < N => Len(texts[h + 1]) = 1
  BY <1>1, <1>2 DEF ReadableUpto, N
<1>10. \A k \in 1..(h + 1) : /\ k \in 1..(N + 1) /\ q[k] \in Nat /\ q[k] <= Len(flat)
                             /\ at(k) \in (c + 1)..ReadUpto(bytes)
  <2> SUFFICES ASSUME NEW k \in 1..(h + 1)
               PROVE  /\ k \in 1..(N + 1) /\ q[k] \in Nat /\ q[k] <= Len(flat)
                      /\ at(k) \in (c + 1)..ReadUpto(bytes)
    OBVIOUS
  <2>1. k \in 1..(N + 1)
    BY <1>1, <1>9
  <2>2. q[k] \in Nat
    BY <1>6, <2>1
  <2>3. q[k] <= Len(flat)
    <3>1. CASE k = N + 1
      BY <1>4, <1>6, <3>1
    <3>2. CASE k # N + 1
      <4>1. k \in 1..N /\ k + 1 \in 1..(N + 1)
        BY <1>1, <2>1, <3>2
      <4>2. q[k + 1] = q[k] + Len(fs[k]) /\ q[k + 1] <= Len(flat) /\ Len(fs[k]) \in Nat
        BY <1>1, <1>6, <4>1, ElementOfSeq, LenProperties
      <4> QED
        BY <1>4, <2>2, <4>2
    <3> QED
      BY <3>1, <3>2
  <2>4. at(k) \in (c + 1)..ReadUpto(bytes)
    <3>1. c + Len(flat) + 1 <= Len(bytes)
      BY <1>5
    <3> QED
      BY <1>4, <1>7, <2>2, <2>3, <3>1 DEF ReadUpto
  <2> QED
    BY <2>1, <2>2, <2>3, <2>4
<1>11. Stops(bytes, at(h + 1))
  <2>1. CASE h < N
    <3>1. h + 1 \in 1..N
      BY <1>1, <1>9, <2>1
    <3> QED
      BY <1>8, <1>9, <2>1, <3>1
  <2>2. CASE ~(h < N)
    <3>0. h = N
      BY <1>1, <1>9, <2>2
    <3>1. at(h + 1) = c + Len(flat) + 1
      <4>1. q[h + 1] = Len(flat)
        BY <1>6, <3>0
      <4> QED
        BY <1>4, <4>1
    <3>2. at(h + 1) \in 1..Len(bytes)
      BY <1>4, <1>5, <1>7, <3>1
    <3>3. Byte(bytes, at(h + 1)) = EndOfFields
      <4> HIDE DEF at
      <4> QED
        BY <1>5, <3>1, <3>2, LenProperties DEF Byte
    <3> QED
      BY <3>3 DEF Stops
  <2> QED
    BY <2>1, <2>2
<1>12. PICK f : /\ FieldsFrom(bytes, c + 1) = f[c + 1]
                /\ \A i \in (c + 1)..ReadUpto(bytes) :
                     f[i] = IF Stops(bytes, i) THEN <<>>
                            ELSE <<FieldAt(bytes, i)>> \o f[After(bytes, i)]
  <2>1. c + 1 \in Nat /\ c + 1 <= ReadUpto(bytes)
    <3>1. c + Len(flat) + 1 <= Len(bytes)
      BY <1>5
    <3> QED
      BY <1>4, <1>7, <3>1 DEF ReadUpto
  <2> QED
    BY <2>1, FieldsFromIs
<1> DEFINE Tail1(k, s) == /\ s \in Seq(Seq(Octets)) /\ Len(s) = h + 1 - k
                          /\ \A j \in 1..(h + 1 - k) : s[j] = Cut(texts[k - 1 + j])
           T == {n \in Nat : n <= h => Tail1(h + 1 - n, f[at(h + 1 - n)])}
<1> HIDE DEF at
<1>13. 0 \in T
  <2>1. h + 1 \in 1..(h + 1) /\ h + 1 - 0 = h + 1
    BY <1>9
  <2>2. f[at(h + 1)] = <<>>
    BY <1>10, <1>11, <1>12, <2>1
  <2>3. Tail1(h + 1, <<>>)
    BY <1>9
  <2> HIDE DEF Tail1
  <2> QED
    BY <2>1, <2>2, <2>3
<1>14. ASSUME NEW n \in Nat, n \in T PROVE n + 1 \in T
  <2> SUFFICES ASSUME n + 1 <= h PROVE Tail1(h + 1 - (n + 1), f[at(h + 1 - (n + 1))])
    OBVIOUS
  <2> DEFINE k == h + 1 - (n + 1)
  <2>1. k \in 1..h /\ k \in 1..(h + 1) /\ k + 1 = h + 1 - n /\ k \in 1..N
    BY <1>1, <1>9
  <2>2. Tail1(h + 1 - n, f[at(h + 1 - n)])
    <3> HIDE DEF Tail1
    <3> QED
      BY <1>9, <1>14
  <2> HIDE DEF k
  <2>3. Tail1(k + 1, f[at(k + 1)])
    <3> HIDE DEF Tail1
    <3> QED
      BY <2>1, <2>2
  <2>4. /\ ~Stops(bytes, at(k)) /\ FieldAt(bytes, at(k)) = Cut(texts[k])
        /\ After(bytes, at(k)) = at(k + 1)
    BY <1>8, <1>9, <2>1
  <2>5. f[at(k)] = <<Cut(texts[k])>> \o f[at(k + 1)]
    BY <1>10, <1>12, <2>1, <2>4
  <2> DEFINE x == <<Cut(texts[k])>>
             u == f[at(k + 1)]
  <2>6. x \in Seq(Seq(Octets)) /\ Len(x) = 1 /\ x[1] = Cut(texts[k])
    <3>1. Cut(texts[k]) \in Seq(Octets)
      BY <1>1, <2>1, FieldType
    <3> QED
      BY <3>1
  <2>7. /\ u \in Seq(Seq(Octets)) /\ Len(u) = h - k
        /\ \A j \in 1..(h - k) : u[j] = Cut(texts[k + j])
    <3>1. /\ u \in Seq(Seq(Octets)) /\ Len(u) = h + 1 - (k + 1)
          /\ \A j \in 1..(h + 1 - (k + 1)) : u[j] = Cut(texts[(k + 1) - 1 + j])
      BY <2>3
    <3> HIDE DEF u, x
    <3>2. h + 1 - (k + 1) = h - k /\ \A j \in 1..(h - k) : (k + 1) - 1 + j = k + j
      BY <1>9, <2>1
    <3> QED
      BY <3>1, <3>2
  <2>8. f[at(k)] = x \o u
    BY <2>5
  <2> HIDE DEF u, x
  <2>9. /\ x \o u \in Seq(Seq(Octets)) /\ Len(x \o u) = 1 + Len(u)
        /\ \A i \in 1..1 : (x \o u)[i] = x[i]
        /\ \A j \in 1..Len(u) : (x \o u)[1 + j] = u[j]
    <3>1. /\ x \o u \in Seq(Seq(Octets)) /\ Len(x \o u) = Len(x) + Len(u)
          /\ \A i \in 1..Len(x) : (x \o u)[i] = x[i]
          /\ \A j \in 1..Len(u) : (x \o u)[Len(x) + j] = u[j]
      <4>1. x \in Seq(Seq(Octets)) /\ u \in Seq(Seq(Octets))
        BY <2>6, <2>7
      <4> QED
        BY <4>1, ConcatKeeps
    <3> QED
      BY <2>6, <3>1, Zenon
  <2> DEFINE v == x \o u
  <2> HIDE DEF v
  <2>10. v \in Seq(Seq(Octets)) /\ Len(v) = h + 1 - k
    BY <1>9, <2>1, <2>7, <2>9 DEF v
  <2>11. ASSUME NEW j \in 1..(h + 1 - k) PROVE v[j] = Cut(texts[k - 1 + j])
    <3>1. CASE j = 1
      <4>1. 1 \in 1..1 /\ k - 1 + j = k
        BY <2>1, <3>1
      <4> QED
        BY <2>6, <2>9, <3>1, <4>1 DEF v
    <3>2. CASE j # 1
      <4>1. j - 1 \in 1..(h - k) /\ 1 + (j - 1) = j /\ k + (j - 1) = k - 1 + j
        BY <1>9, <2>1, <3>2
      <4>2. v[1 + (j - 1)] = u[j - 1]
        BY <2>7, <2>9, <4>1 DEF v
      <4> QED
        BY <2>7, <4>1, <4>2
    <3> QED
      BY <3>1, <3>2
  <2>12. f[at(k)] = v
    BY <2>8 DEF v
  <2> QED
    BY <2>10, <2>11, <2>12 DEF k
<1> HIDE DEF T
<1>15. h \in T
  BY <1>9, <1>13, <1>14, Induct
<1>16. Tail1(1, f[at(1)])
  <2>1. h + 1 - h = 1 /\ h <= h
    BY <1>9
  <2> HIDE DEF Tail1
  <2>2. Tail1(h + 1 - h, f[at(h + 1 - h)])
    BY <1>15, <2>1 DEF T
  <2> QED
    BY <2>1, <2>2
<1>17. at(1) = c + 1
  BY <1>6 DEF at
<1> DEFINE g == f[at(1)]
<1>18. /\ g \in Seq(Seq(Octets)) /\ Len(g) = h
       /\ \A j \in 1..h : g[j] = Cut(texts[j])
  <2>1. /\ g \in Seq(Seq(Octets)) /\ Len(g) = h + 1 - 1
        /\ \A j \in 1..(h + 1 - 1) : g[j] = Cut(texts[1 - 1 + j])
    BY <1>16
  <2> HIDE DEF g
  <2>2. h + 1 - 1 = h /\ \A j \in 1..h : 1 - 1 + j = j
    BY <1>9
  <2> QED
    BY <2>1, <2>2
<1>19. g = Readable(texts)
  <2> HIDE DEF g
  <2>1. DOMAIN g = 1..h /\ g = [j \in DOMAIN g |-> g[j]]
    BY <1>18, LenProperties
  <2>2. g = [j \in 1..h |-> Cut(texts[j])]
    BY <1>18, <2>1
  <2> QED
    BY <1>9, <2>2
<1> QED
  BY <1>12, <1>17, <1>19

(* Seven texts at most make an area. *)
FewTexts(texts) == texts \in Seq(Seq(Octets)) /\ Len(texts) <= 7

LEMMA FieldsAreShort ==
  ASSUME NEW texts, FewTexts(texts)
  PROVE  /\ FlattenSeq(Fields(texts)) \in Seq(Octets)
         /\ Len(FlattenSeq(Fields(texts))) \in Nat /\ Len(FlattenSeq(Fields(texts))) <= 448
<1> DEFINE fs == Fields(texts)
           flat == FlattenSeq(fs)
           N == Len(texts)
<1>1. /\ texts \in Seq(Seq(Octets)) /\ N \in Nat /\ N <= 7
  BY LenProperties DEF FewTexts
<1>2. /\ fs \in Seq(Seq(Octets)) /\ Len(fs) = N
      /\ \A i \in 1..N : texts[i] \in Seq(Octets) /\ fs[i] = Field(texts[i])
  BY <1>1, FieldsType
<1>3. flat \in Seq(Octets) /\ Len(flat) \in Nat
  BY <1>2, FlattenSteps, LenProperties
<1>4. PICK q : LaidAt(q, fs)
  BY <1>2, FlattenLays
<1>5. /\ q \in [1..(N + 1) -> Nat] /\ q[1] = 0 /\ q[N + 1] = Len(flat)
      /\ \A k \in 1..N : q[k + 1] = q[k] + Len(fs[k])
  BY <1>2, <1>4 DEF LaidAt
<1>6. \A k \in 1..N : Len(fs[k]) \in Nat /\ Len(fs[k]) <= 64
  <2> TAKE k \in 1..N
  <2>1. texts[k] \in Seq(Octets) /\ fs[k] = Field(texts[k])
    BY <1>2
  <2>2. Len(Cut(texts[k])) \in Nat /\ Len(Cut(texts[k])) <= 63 /\ Len(fs[k]) = 1 + Len(Cut(texts[k]))
    BY <2>1, FieldType
  <2> HIDE DEF fs
  <2> QED
    BY <2>2
<1> HIDE DEF fs, flat, N
<1> DEFINE T == {n \in Nat : n <= N => q[n + 1] <= 64 * n}
<1>7. 0 \in T
  BY <1>5
<1>8. ASSUME NEW n \in Nat, n \in T PROVE n + 1 \in T
  <2> SUFFICES ASSUME n + 1 <= N PROVE q[(n + 1) + 1] <= 64 * (n + 1)
    OBVIOUS
  <2>1. n + 1 \in 1..N /\ n + 1 \in 1..(N + 1) /\ q[n + 1] <= 64 * n
    BY <1>1, <1>8
  <2>2. q[(n + 1) + 1] = q[n + 1] + Len(fs[n + 1])
    BY <1>5, <2>1, Zenon
  <2>3. q[n + 1] \in Nat /\ Len(fs[n + 1]) \in Nat /\ Len(fs[n + 1]) <= 64
    BY <1>5, <1>6, <2>1
  <2> QED
    BY <2>1, <2>2, <2>3
<1> HIDE DEF T
<1>9. N \in T
  BY <1>1, <1>7, <1>8, Induct
<1>10. Len(flat) <= 64 * N
  BY <1>1, <1>5, <1>9 DEF T
<1> QED
  BY <1>1, <1>3, <1>10 DEF flat, fs

(* What holds of an area, in a multiple of eight bytes.                      *)
AreaGood(n, texts, a) ==
  /\ a \in Seq(Octets) /\ 2 <= Len(a) /\ Sound(a)
  /\ Len(a) = 8 * a[2]
  /\ FieldsFrom(a, Len(Preamble[AreaNames[n]]) + 1) = Readable(texts)

(* Counts of blocks of eight bytes, for one area and for two.                *)
FewBlocks == {m \in Nat : m <= 60}

MoreBlocks == {m \in Nat : m <= 120}

InBlocks(a) == \E m \in FewBlocks : Len(a) = 8 * m

LEMMA PreamblesAre ==
  ASSUME NEW n \in {1, 2, 3}
  PROVE  /\ Preamble[AreaNames[n]] \in Seq(Octets)
         /\ Len(Preamble[AreaNames[n]]) \in {3, 6}
<1>1. CASE n = 1
  <2>1. Preamble[AreaNames[n]] = <<1, 0, 23>>
    BY <1>1 DEF Preamble, AreaNames
  <2>2. 1 \in Octets /\ 0 \in Octets /\ 23 \in Octets
    BY DEF Octets
  <2> QED
    BY <2>1, <2>2
<1>2. CASE n = 2
  <2>1. Preamble[AreaNames[n]] = <<1, 0, 0, 0, 0, 0>>
    BY <1>2 DEF Preamble, AreaNames
  <2>2. 1 \in Octets /\ 0 \in Octets
    BY DEF Octets
  <2> QED
    BY <2>1, <2>2
<1>3. CASE n = 3
  <2>1. Preamble[AreaNames[n]] = <<1, 0, 0>>
    BY <1>3 DEF Preamble, AreaNames
  <2>2. 1 \in Octets /\ 0 \in Octets
    BY DEF Octets
  <2> QED
    BY <2>1, <2>2
<1> QED
  BY <1>1, <1>2, <1>3

LEMMA AreaIs ==
  ASSUME NEW n \in {1, 2, 3}, NEW texts, FewTexts(texts), texts # NoArea
  PROVE  /\ AreaGood(n, texts, Area(AreaNames[n], texts))
         /\ InBlocks(Area(AreaNames[n], texts))
<1> DEFINE pre == Preamble[AreaNames[n]]
           flat == FlattenSeq(Fields(texts))
           body == pre \o flat
           r == Finalized(body)
           c == Len(pre)
           b == Len(body)
<1>0. texts \in Seq(Seq(Octets))
  BY DEF FewTexts
<1>1. Area(AreaNames[n], texts) = r
  BY Zenon DEF Area, Fields
<1>2. pre \in Seq(Octets) /\ c \in {3, 6}
  BY PreamblesAre
<1>3. flat \in Seq(Octets) /\ Len(flat) \in Nat /\ Len(flat) <= 448
  BY FieldsAreShort
<1> HIDE DEF pre, flat
<1>4. /\ body \in Seq(Octets) /\ b = c + Len(flat)
      /\ \A j \in 1..Len(flat) : body[c + j] = flat[j]
  BY <1>2, <1>3, ConcatKeeps
<1> HIDE DEF body, c, r, b
<1>5. b \in Nat /\ 3 <= b /\ b <= 454
  BY <1>2, <1>3, <1>4
<1>6. 2 <= Len(body) /\ Len(body) <= AtMost
  BY <1>5 DEF b, AtMost
<1>7. /\ r \in Seq(Octets) /\ Sound(r) /\ Len(r) = 8 * r[2] /\ Len(r) \in (b + 2)..(b + 9)
      /\ \A i \in 1..b : i # 2 => r[i] = body[i]
      /\ r[b + 1] = EndOfFields
  BY <1>4, <1>6, FinalizedIs DEF r, b
<1>8. Holds(r, c, texts)
  <2>1. c + Len(flat) + 1 <= Len(r)
    BY <1>2, <1>3, <1>4, <1>7
  <2>2. r[c + Len(flat) + 1] = EndOfFields
    BY <1>4, <1>7
  <2>3. \A j \in 1..Len(flat) : c + j \in 1..b /\ c + j # 2
    BY <1>2, <1>3, <1>4
  <2>4. \A j \in 1..Len(flat) : r[c + j] = flat[j]
    BY <1>4, <1>7, <2>3, Zenon
  <2> QED
    BY <2>1, <2>2, <2>4 DEF Holds, flat
<1>9. FieldsFrom(r, c + 1) = Readable(texts)
  <2>1. c \in Nat
    BY <1>2
  <2> QED
    BY <1>0, <1>7, <1>8, <2>1, TextsAreRead
<1>10. Len(r) \in Nat /\ b + 2 <= Len(r) /\ Len(r) <= b + 9
  BY <1>5, <1>7
<1>11. 2 <= Len(r)
  BY <1>5, <1>10
<1>12. InBlocks(r)
  <2> DEFINE m == r[2]
  <2>1. m \in Nat
    <3>1. 2 \in 1..Len(r)
      BY <1>5, <1>10
    <3>2. r[2] \in Octets
      BY <1>7, <3>1, ElementOfSeq
    <3> QED
      BY <3>2 DEF Octets
  <2>2. Len(r) = 8 * m
    BY <1>7
  <2> HIDE DEF m
  <2>3. m <= 60
    BY <1>5, <1>10, <2>1, <2>2
  <2> QED
    BY <2>1, <2>2, <2>3 DEF InBlocks, FewBlocks
<1>13. AreaGood(n, texts, r)
  BY <1>7, <1>9, <1>11 DEF AreaGood, c, pre
<1> QED
  BY <1>1, <1>12, <1>13

-----------------------------------------------------------------------------
(* A part of a sequence. *)
LEMMA SliceIs ==
  ASSUME NEW B, NEW s \in Seq(B), NEW a \in Seq(B), NEW o \in Nat,
         o + Len(a) <= Len(s), \A j \in 1..Len(a) : s[o + j] = a[j]
  PROVE  SubSeq(s, o + 1, o + Len(a)) = a
<1> DEFINE l == Len(a)
           t == SubSeq(s, o + 1, o + l)
<1>1. l \in Nat /\ Len(s) \in Nat /\ o + l <= Len(s)
  BY LenProperties
<1> HIDE DEF l
<1>2. \A j \in (o + 1)..(o + l) : s[j] \in B
  <2>1. \A j \in (o + 1)..(o + l) : j \in 1..Len(s)
    BY <1>1
  <2> QED
    BY <2>1, ElementOfSeq
<1>3. /\ t \in Seq(B)
      /\ Len(t) = IF o + 1 <= o + l THEN (o + l) - (o + 1) + 1 ELSE 0
      /\ \A j \in 1..((o + l) - (o + 1) + 1) : t[j] = s[(o + 1) + j - 1]
  <2>1. o + 1 \in Int /\ o + l \in Int
    BY <1>1
  <2> QED
    BY <1>2, <2>1, SubSeqProperties
<1> HIDE DEF t
<1>4. Len(t) = l
  BY <1>1, <1>3
<1>5. \A j \in 1..l : /\ j \in 1..((o + l) - (o + 1) + 1)
                      /\ (o + 1) + j - 1 = o + j
  BY <1>1
<1>6. \A j \in 1..l : t[j] = a[j]
  BY <1>3, <1>5 DEF l
<1>7. t = a
  BY <1>3, <1>4, <1>6, SeqEqual DEF l
<1> QED
  BY <1>7 DEF t, l

(* What the header says of an area is where it is. *)
LEMMA AreaIsFound ==
  ASSUME NEW n \in {1, 2, 3}, NEW texts, NEW a, AreaGood(n, texts, a),
         NEW image \in Seq(Octets), NEW x \in Nat,
         Sound(SubSeq(image, 1, 8)), image[2 + n] = 1 + x,
         8 * (1 + x) + Len(a) <= Len(image),
         \A j \in 1..Len(a) : image[8 * (1 + x) + j] = a[j]
  PROVE  ReadArea(image, n) = Readable(texts)
<1> DEFINE o == 8 * (1 + x)
           l == Len(a)
<1>1. o \in Nat
  OBVIOUS
<1>2. /\ a \in Seq(Octets) /\ 2 <= l /\ Sound(a) /\ l = 8 * a[2]
      /\ FieldsFrom(a, Len(Preamble[AreaNames[n]]) + 1) = Readable(texts)
  BY DEF AreaGood
<1>3. AreaAlign * image[2 + n] = o
  BY DEF AreaAlign
<1>4. o + l <= Len(image) /\ \A j \in 1..l : image[o + j] = a[j]
  OBVIOUS
<1>5. SubSeq(image, o + 1, o + l) = a
  <2> HIDE DEF o
  <2> QED
    BY <1>1, <1>2, <1>4, SliceIs
<1>6. l \in Nat /\ 2 <= l
  BY <1>2, LenProperties
<1> HIDE DEF o, l
<1>7. Byte(image, o + 2) = a[2]
  <2>1. 2 \in 1..l /\ o + 2 \in 1..Len(image)
    BY <1>1, <1>4, <1>6, LenProperties
  <2>2. o + 2 \in DOMAIN image
    BY <2>1, LenProperties
  <2> QED
    BY <1>4, <2>1, <2>2 DEF Byte
<1>8. SubSeq(image, o + 1, o + AreaAlign * Byte(image, o + 2)) = a
  <2>1. AreaAlign * Byte(image, o + 2) = l
    BY <1>2, <1>7 DEF AreaAlign
  <2> QED
    BY <1>5, <2>1
<1>9. Sound(SubSeq(image, 1, AreaAlign)) /\ image[2 + n] # 0
  BY DEF AreaAlign
<1> QED
  BY <1>2, <1>3, <1>8, <1>9, Zenon DEF ReadArea

(* The n-th area of an object. *)
AreaOf(info, n) == Area(AreaNames[n], info[AreaNames[n]])

AreasOf(info) == <<AreaOf(info, 1), AreaOf(info, 2), AreaOf(info, 3)>>

PlaceOf(info, n) == IF AreaOf(info, n) = <<>> THEN 0 ELSE BlocksBefore(AreasOf(info), n) % 256

HeaderOf(info) == <<1, 0, PlaceOf(info, 1), PlaceOf(info, 2), PlaceOf(info, 3), 0, 0>>

LEMMA BuildSteps ==
  ASSUME NEW info
  PROVE  Build(info) = Append(HeaderOf(info), ZeroChecksum(HeaderOf(info))) \o FlattenSeq(AreasOf(info))
<1> DEFINE areas == [n \in DOMAIN AreaNames |-> Area(AreaNames[n], info[AreaNames[n]])]
           at(n) == IF areas[n] = <<>> THEN 0 ELSE BlocksBefore(areas, n) % 256
           header == <<1, 0, at(1), at(2), at(3), 0, 0>>
<1>1. Build(info) = Append(header, ZeroChecksum(header)) \o FlattenSeq(areas)
  BY Zenon DEF Build
<1>2. areas = AreasOf(info)
  <2>1. DOMAIN AreaNames = 1..3
    BY DEF AreaNames
  <2>2. areas = [n \in 1..3 |-> AreaOf(info, n)]
    BY <2>1, Zenon DEF AreaOf
  <2> HIDE DEF areas
  <2>3. AreasOf(info) = [n \in 1..3 |-> AreaOf(info, n)]
    BY DEF AreasOf
  <2> QED
    BY <2>2, <2>3
<1>3. AreasOf(info)[1] = AreaOf(info, 1) /\ AreasOf(info)[2] = AreaOf(info, 2) /\ AreasOf(info)[3] = AreaOf(info, 3)
  BY DEF AreasOf
<1> HIDE DEF areas
<1>4. at(1) = PlaceOf(info, 1) /\ at(2) = PlaceOf(info, 2) /\ at(3) = PlaceOf(info, 3)
  BY <1>2, <1>3, Zenon DEF PlaceOf
<1> HIDE DEF at
<1>5. header = HeaderOf(info)
  BY <1>4, Zenon DEF HeaderOf
<1> HIDE DEF header
<1> QED
  BY <1>1, <1>2, <1>5, Zenon

LEMMA OneTwoThree ==
  ASSUME NEW T, NEW a \in T, NEW b \in T, NEW c \in T
  PROVE  /\ Append(<<a>>, b) = <<a, b>>
         /\ Append(<<a, b>>, c) = <<a, b, c>>
         /\ SubSeq(<<a, b, c>>, 1, 1) = <<a>>
         /\ SubSeq(<<a, b, c>>, 1, 2) = <<a, b>>
<1> DEFINE s1 == <<a>>
           s2 == <<a, b>>
           s3 == <<a, b, c>>
           t2 == Append(s1, b)
           t3 == Append(s2, c)
<1>1. s1 \in Seq(T) /\ Len(s1) = 1 /\ s1[1] = a
  OBVIOUS
<1>2. s2 \in Seq(T) /\ Len(s2) = 2 /\ s2[1] = a /\ s2[2] = b
  OBVIOUS
<1>3. s3 \in Seq(T) /\ Len(s3) = 3 /\ s3[1] = a /\ s3[2] = b /\ s3[3] = c
  OBVIOUS
<1> HIDE DEF s1, s2, s3
<1>4. t2 \in Seq(T) /\ Len(t2) = 2 /\ t2[1] = a /\ t2[2] = b
  BY <1>1, AppendProperties
<1>5. t3 \in Seq(T) /\ Len(t3) = 3 /\ t3[1] = a /\ t3[2] = b /\ t3[3] = c
  <2>1. /\ t3 \in Seq(T) /\ Len(t3) = Len(s2) + 1 /\ t3[Len(s2) + 1] = c
        /\ \A i \in 1..Len(s2) : t3[i] = s2[i]
    <3>1. \A s \in Seq(T) : /\ Append(s, c) \in Seq(T) /\ Len(Append(s, c)) = Len(s) + 1
                             /\ Append(s, c)[Len(s) + 1] = c
                             /\ \A i \in 1..Len(s) : Append(s, c)[i] = s[i]
      BY AppendProperties
    <3> QED
      BY <1>2, <3>1, Zenon
  <2> HIDE DEF t2, t3
  <2> QED
    BY <1>2, <2>1
<1> HIDE DEF t2, t3
<1>6. t2 = s2
  <2>1. \A i \in 1..Len(t2) : t2[i] = s2[i]
    BY <1>2, <1>4
  <2> QED
    BY <1>2, <1>4, <2>1, SeqEqual
<1>7. t3 = s3
  <2>1. \A i \in 1..Len(t3) : t3[i] = s3[i]
    BY <1>3, <1>5
  <2> QED
    BY <1>3, <1>5, <2>1, SeqEqual
<1>8. SubSeq(s3, 1, 1) = s1
  <2>1. 0 + Len(s1) <= Len(s3) /\ \A j \in 1..Len(s1) : s3[0 + j] = s1[j]
    BY <1>1, <1>3
  <2>2. SubSeq(s3, 0 + 1, 0 + Len(s1)) = s1
    BY <1>1, <1>3, <2>1, SliceIs
  <2> QED
    BY <1>1, <2>2
<1>9. SubSeq(s3, 1, 2) = s2
  <2>1. 0 + Len(s2) <= Len(s3) /\ \A j \in 1..Len(s2) : s3[0 + j] = s2[j]
    BY <1>2, <1>3
  <2>2. SubSeq(s3, 0 + 1, 0 + Len(s2)) = s2
    BY <1>2, <1>3, <2>1, SliceIs
  <2> QED
    BY <1>2, <2>2
<1> QED
  BY <1>6, <1>7, <1>8, <1>9 DEF s1, s2, s3, t2, t3

LEMMA FlattenThree ==
  ASSUME NEW B, NEW a \in Seq(B), NEW b \in Seq(B), NEW c \in Seq(B), NEW s, s = <<a, b, c>>
  PROVE  /\ FlattenSeq(SubSeq(s, 1, 0)) = <<>>
         /\ FlattenSeq(SubSeq(s, 1, 1)) = a
         /\ FlattenSeq(SubSeq(s, 1, 2)) = a \o b
         /\ FlattenSeq(s) = (a \o b) \o c
<1> DEFINE s1 == <<a>>
           s2 == <<a, b>>
<1>1. <<>> \in Seq(Seq(B)) /\ s1 \in Seq(Seq(B)) /\ s2 \in Seq(Seq(B))
  OBVIOUS
<1>2. /\ Append(s1, b) = s2 /\ Append(s2, c) = s
      /\ SubSeq(s, 1, 1) = s1 /\ SubSeq(s, 1, 2) = s2
  <2>1. /\ Append(<<a>>, b) = <<a, b>> /\ Append(<<a, b>>, c) = <<a, b, c>>
        /\ SubSeq(<<a, b, c>>, 1, 1) = <<a>> /\ SubSeq(<<a, b, c>>, 1, 2) = <<a, b>>
    BY OneTwoThree
  <2> QED
    BY <2>1
<1>3. Append(<<>>, a) = s1 /\ SubSeq(s, 1, 0) = <<>>
  <2>1. Append(<<>>, a) = s1
    OBVIOUS
  <2>2. SubSeq(s, 1, 0) = <<>>
    OBVIOUS
  <2> QED
    BY <2>1, <2>2
<1> HIDE DEF s1, s2
<1>4. FlattenSeq(<<>>) = <<>>
  BY FlattenSteps
<1>5. FlattenSeq(Append(<<>>, a)) = FlattenSeq(<<>>) \o a
  BY <1>1, FlattenSteps
<1>6. <<>> \o a = a
  BY ConcatEmptySeq
<1>7. FlattenSeq(Append(s1, b)) = FlattenSeq(s1) \o b
  BY <1>1, FlattenSteps
<1>8. FlattenSeq(Append(s2, c)) = FlattenSeq(s2) \o c
  BY <1>1, FlattenSteps
<1>9. FlattenSeq(s1) = a
  BY <1>3, <1>4, <1>5, <1>6, Zenon
<1>10. FlattenSeq(s2) = a \o b
  BY <1>2, <1>7, <1>9, Zenon
<1>11. FlattenSeq(s) = (a \o b) \o c
  BY <1>2, <1>8, <1>10, Zenon
<1> QED
  BY <1>2, <1>3, <1>4, <1>9, <1>10, <1>11, Zenon

ThreeFlatten(areas, a, b, c) ==
  /\ FlattenSeq(SubSeq(areas, 1, 0)) = <<>> /\ FlattenSeq(SubSeq(areas, 1, 1)) = a
  /\ FlattenSeq(SubSeq(areas, 1, 2)) = a \o b /\ FlattenSeq(areas) = (a \o b) \o c

LEMMA AreasFlatten ==
  ASSUME NEW a \in Seq(Octets), NEW b \in Seq(Octets), NEW c \in Seq(Octets),
         NEW areas, areas = <<a, b, c>>
  PROVE  ThreeFlatten(areas, a, b, c)
BY FlattenThree DEF ThreeFlatten

(* Where the areas lie, in blocks. *)
Before(m1, m2, n) == IF n = 1 THEN 0 ELSE IF n = 2 THEN m1 ELSE m1 + m2

AreasLieAfter(info, m1, m2) ==
  /\ FlattenSeq(AreasOf(info)) \in Seq(Octets)
  /\ \A n \in {1, 2, 3} :
       /\ Before(m1, m2, n) \in MoreBlocks
       /\ BlocksBefore(AreasOf(info), n) = 1 + Before(m1, m2, n)
       /\ 8 * Before(m1, m2, n) + Len(AreaOf(info, n)) <= Len(FlattenSeq(AreasOf(info)))
       /\ \A j \in 1..Len(AreaOf(info, n)) :
            FlattenSeq(AreasOf(info))[8 * Before(m1, m2, n) + j] = AreaOf(info, n)[j]

LEMMA AreasLie ==
  ASSUME NEW info, NEW m1 \in FewBlocks, NEW m2 \in FewBlocks, NEW m3 \in FewBlocks,
         \A n \in {1, 2, 3} : AreaOf(info, n) \in Seq(Octets),
         Len(AreaOf(info, 1)) = 8 * m1, Len(AreaOf(info, 2)) = 8 * m2, Len(AreaOf(info, 3)) = 8 * m3
  PROVE  AreasLieAfter(info, m1, m2)
<1> DEFINE a == AreaOf(info, 1)
           b == AreaOf(info, 2)
           c == AreaOf(info, 3)
           areas == AreasOf(info)
           g == a \o b
           f == FlattenSeq(areas)
<1>0. m1 \in Nat /\ m2 \in Nat /\ m3 \in Nat
  BY DEF FewBlocks
<1>1. a \in Seq(Octets) /\ b \in Seq(Octets) /\ c \in Seq(Octets)
  BY Zenon
<1>2. Len(a) = 8 * m1 /\ Len(b) = 8 * m2 /\ Len(c) = 8 * m3
  OBVIOUS
<1>3. areas = <<a, b, c>>
  BY Zenon DEF AreasOf
<1> HIDE DEF a, b, c, areas
<1>4. /\ FlattenSeq(SubSeq(areas, 1, 0)) = <<>> /\ FlattenSeq(SubSeq(areas, 1, 1)) = a
      /\ FlattenSeq(SubSeq(areas, 1, 2)) = g /\ f = g \o c
  <2>1. ThreeFlatten(areas, a, b, c)
    <3> HIDE DEF g, f
    <3> QED
      BY <1>1, <1>3, AreasFlatten
  <2> QED
    BY <2>1, Zenon DEF ThreeFlatten
<1>5. /\ g \in Seq(Octets) /\ Len(g) = Len(a) + Len(b)
      /\ \A i \in 1..Len(a) : g[i] = a[i]
      /\ \A j \in 1..Len(b) : g[Len(a) + j] = b[j]
  BY <1>1, ConcatKeeps
<1> HIDE DEF g
<1>6. /\ g \o c \in Seq(Octets) /\ Len(g \o c) = Len(g) + Len(c)
      /\ \A i \in 1..Len(g) : (g \o c)[i] = g[i]
      /\ \A j \in 1..Len(c) : (g \o c)[Len(g) + j] = c[j]
  <2>1. g \in Seq(Octets) /\ c \in Seq(Octets)
    BY <1>1, <1>5
  <2> QED
    BY <2>1, ConcatKeeps
<1> HIDE DEF f
<1>7. /\ f \in Seq(Octets) /\ Len(f) = Len(g) + Len(c)
      /\ \A i \in 1..Len(g) : f[i] = g[i]
      /\ \A j \in 1..Len(c) : f[Len(g) + j] = c[j]
  BY <1>4, <1>6, Zenon
<1>8. Len(g) = 8 * (m1 + m2) /\ Len(f) = 8 * (m1 + m2 + m3)
  BY <1>0, <1>2, <1>5, <1>7
<1>9. \A m \in Nat : (8 * m) \div 8 = m
  OBVIOUS
<1>10. /\ BlocksBefore(areas, 1) = 1 + 0
       /\ BlocksBefore(areas, 2) = 1 + m1
       /\ BlocksBefore(areas, 3) = 1 + (m1 + m2)
  <2>1. /\ BlocksBefore(areas, 1) = 1 + (Len(FlattenSeq(SubSeq(areas, 1, 0))) \div 8)
        /\ BlocksBefore(areas, 2) = 1 + (Len(FlattenSeq(SubSeq(areas, 1, 1))) \div 8)
        /\ BlocksBefore(areas, 3) = 1 + (Len(FlattenSeq(SubSeq(areas, 1, 2))) \div 8)
    <3>1. 1 - 1 = 0 /\ 2 - 1 = 1 /\ 3 - 1 = 2
      OBVIOUS
    <3> QED
      BY <3>1, Zenon DEF BlocksBefore, AreaAlign
  <2>2. Len(<<>>) = 8 * 0
    OBVIOUS
  <2>3. 0 \in Nat /\ m1 \in Nat /\ m1 + m2 \in Nat
    BY <1>0
  <2> QED
    BY <1>2, <1>4, <1>8, <1>9, <2>1, <2>2, <2>3, Zenon
<1>11. \A n \in {1, 2, 3} : Before(m1, m2, n) \in MoreBlocks
  BY <1>0 DEF Before, FewBlocks, MoreBlocks
<1>12. Before(m1, m2, 1) = 0 /\ Before(m1, m2, 2) = m1 /\ Before(m1, m2, 3) = m1 + m2
  BY DEF Before
<1>13. /\ 8 * 0 + Len(a) <= Len(f) /\ \A j \in 1..Len(a) : f[8 * 0 + j] = a[j]
  <2>1. \A j \in 1..Len(a) : j \in 1..Len(g) /\ 8 * 0 + j = j
    BY <1>0, <1>2, <1>8
  <2>2. \A j \in 1..Len(a) : f[8 * 0 + j] = a[j]
    BY <1>5, <1>7, <2>1, Zenon
  <2> QED
    BY <1>0, <1>2, <1>8, <2>2
<1>14. /\ 8 * m1 + Len(b) <= Len(f) /\ \A j \in 1..Len(b) : f[8 * m1 + j] = b[j]
  <2>1. \A j \in 1..Len(b) : 8 * m1 + j \in 1..Len(g)
    BY <1>0, <1>2, <1>8
  <2>2. \A j \in 1..Len(b) : g[8 * m1 + j] = b[j]
    BY <1>0, <1>2, <1>5
  <2>3. \A j \in 1..Len(b) : f[8 * m1 + j] = b[j]
    BY <1>7, <2>1, <2>2, Zenon
  <2>4. 8 * m1 + Len(b) <= Len(f)
    BY <1>0, <1>2, <1>8
  <2> QED
    BY <2>3, <2>4, Zenon
<1>15. /\ 8 * (m1 + m2) + Len(c) <= Len(f) /\ \A j \in 1..Len(c) : f[8 * (m1 + m2) + j] = c[j]
  <2>1. \A j \in 1..Len(c) : f[8 * (m1 + m2) + j] = c[j]
    BY <1>0, <1>7, <1>8
  <2> QED
    BY <1>0, <1>2, <1>8, <2>1
<1> USE DEF a, b, c, areas, f
<1>16. ASSUME NEW n \in {1, 2, 3}
       PROVE  /\ BlocksBefore(AreasOf(info), n) = 1 + Before(m1, m2, n)
              /\ 8 * Before(m1, m2, n) + Len(AreaOf(info, n)) <= Len(FlattenSeq(AreasOf(info)))
              /\ \A j \in 1..Len(AreaOf(info, n)) :
                   FlattenSeq(AreasOf(info))[8 * Before(m1, m2, n) + j] = AreaOf(info, n)[j]
  <2>1. CASE n = 1
    BY <1>10, <1>12, <1>13, <2>1, Zenon
  <2>2. CASE n = 2
    BY <1>10, <1>12, <1>14, <2>2, Zenon
  <2>3. CASE n = 3
    BY <1>10, <1>12, <1>15, <2>3, Zenon
  <2> QED
    BY <2>1, <2>2, <2>3
<1> QED
  BY <1>7, <1>11, <1>16, Zenon DEF AreasLieAfter

LEMMA AreaOrNot ==
  ASSUME NEW info, NEW n \in {1, 2, 3}, FewTexts(info[AreaNames[n]])
  PROVE  /\ AreaOf(info, n) \in Seq(Octets) /\ InBlocks(AreaOf(info, n))
         /\ IF info[AreaNames[n]] = NoArea THEN AreaOf(info, n) = <<>>
            ELSE AreaOf(info, n) # <<>> /\ AreaGood(n, info[AreaNames[n]], AreaOf(info, n))
<1> DEFINE texts == info[AreaNames[n]]
           a == AreaOf(info, n)
<1>1. a = Area(AreaNames[n], texts)
  BY DEF AreaOf
<1>2. CASE texts = NoArea
  <2>1. a = <<>>
    BY <1>1, <1>2, Zenon DEF Area
  <2>2. <<>> \in Seq(Octets) /\ Len(<<>>) = 8 * 0 /\ 0 \in FewBlocks
    BY DEF FewBlocks
  <2>3. InBlocks(<<>>)
    BY <2>2 DEF InBlocks
  <2> QED
    BY <1>2, <2>1, <2>2, <2>3, Zenon
<1>3. CASE texts # NoArea
  <2>1. AreaGood(n, texts, a) /\ InBlocks(a)
    <3> HIDE DEF texts
    <3>1. FewTexts(texts)
      BY DEF texts
    <3> QED
      BY <1>1, <1>3, <3>1, AreaIs
  <2>2. a \in Seq(Octets) /\ 2 <= Len(a)
    BY <2>1 DEF AreaGood
  <2>3. a # <<>>
    <3> HIDE DEF a
    <3> QED
      BY <2>2, EmptySeq
  <2> QED
    BY <1>3, <2>1, <2>2, <2>3, Zenon
<1> QED
  BY <1>2, <1>3

LEMMA HeaderIs ==
  ASSUME NEW x \in Octets, NEW y \in Octets, NEW z \in Octets, NEW header,
         header = <<1, 0, x, y, z, 0, 0>>
  PROVE  LET h == Append(header, ZeroChecksum(header))
         IN /\ h \in Seq(Octets) /\ Len(h) = 8 /\ Sound(h)
            /\ h[3] = x /\ h[4] = y /\ h[5] = z
<1>1. 1 \in Octets /\ 0 \in Octets
  BY DEF Octets
<1>2. /\ header \in Seq(Octets) /\ Len(header) = 7
      /\ header[3] = x /\ header[4] = y /\ header[5] = z
  BY <1>1
<1>3. ZeroChecksum(header) \in Octets /\ Sound(Append(header, ZeroChecksum(header)))
  BY <1>2, ChecksumMakesSound
<1> DEFINE v == ZeroChecksum(header)
           h == Append(header, v)
<1> HIDE DEF v
<1>4. v \in Octets /\ Sound(h)
  BY <1>3 DEF v
<1>5. /\ h \in Seq(Octets) /\ Len(h) = Len(header) + 1
      /\ \A i \in 1..Len(header) : h[i] = header[i]
  BY <1>2, <1>4, AppendProperties
<1> HIDE DEF h
<1>6. Len(h) = 8 /\ h[3] = x /\ h[4] = y /\ h[5] = z
  BY <1>2, <1>5
<1> QED
  BY <1>4, <1>5, <1>6 DEF h, v

(* The image of an object of at most seven texts in an area is read back.    *)
LEMMA ImageReadsBack ==
  ASSUME NEW info, \A n \in {1, 2, 3} : FewTexts(info[AreaNames[n]])
  PROVE  ReadsBack(info)
<1>1. \A n \in {1, 2, 3} :
        /\ AreaOf(info, n) \in Seq(Octets) /\ InBlocks(AreaOf(info, n))
        /\ IF info[AreaNames[n]] = NoArea THEN AreaOf(info, n) = <<>>
           ELSE AreaOf(info, n) # <<>> /\ AreaGood(n, info[AreaNames[n]], AreaOf(info, n))
  BY AreaOrNot
<1>2. PICK m1 \in FewBlocks : Len(AreaOf(info, 1)) = 8 * m1
  BY <1>1 DEF InBlocks
<1>3. PICK m2 \in FewBlocks : Len(AreaOf(info, 2)) = 8 * m2
  BY <1>1 DEF InBlocks
<1>4. PICK m3 \in FewBlocks : Len(AreaOf(info, 3)) = 8 * m3
  BY <1>1 DEF InBlocks
<1> DEFINE areas == AreasOf(info)
           f == FlattenSeq(areas)
           before(n) == Before(m1, m2, n)
           place(n) == PlaceOf(info, n)
<1>5. /\ f \in Seq(Octets)
      /\ \A n \in {1, 2, 3} :
           /\ before(n) \in MoreBlocks
           /\ BlocksBefore(areas, n) = 1 + before(n)
           /\ 8 * before(n) + Len(AreaOf(info, n)) <= Len(f)
           /\ \A j \in 1..Len(AreaOf(info, n)) : f[8 * before(n) + j] = AreaOf(info, n)[j]
  <2>1. \A n \in {1, 2, 3} : AreaOf(info, n) \in Seq(Octets)
    BY <1>1, Zenon
  <2>2. AreasLieAfter(info, m1, m2)
    <3> HIDE DEF areas, f, before, place
    <3> QED
      BY <1>2, <1>3, <1>4, <2>1, AreasLie
  <2> QED
    BY <2>2, Zenon DEF AreasLieAfter
<1> HIDE DEF areas, f, before
<1>6. ASSUME NEW n \in {1, 2, 3}
      PROVE  /\ place(n) \in Octets
             /\ place(n) = IF AreaOf(info, n) = <<>> THEN 0 ELSE 1 + before(n)
  <2>1. before(n) \in MoreBlocks /\ BlocksBefore(areas, n) = 1 + before(n)
    BY <1>5
  <2>2. (1 + before(n)) % 256 = 1 + before(n) /\ 1 + before(n) \in Octets /\ 0 \in Octets
    BY <2>1 DEF Octets, MoreBlocks
  <2> QED
    BY <2>1, <2>2, Zenon DEF PlaceOf, areas
<1> HIDE DEF place
<1> DEFINE header == HeaderOf(info)
           h == Append(header, ZeroChecksum(header))
           image == h \o f
<1>7. Build(info) = image
  BY BuildSteps, Zenon DEF f, areas
<1>8. header = <<1, 0, place(1), place(2), place(3), 0, 0>>
  BY Zenon DEF HeaderOf, place
<1> HIDE DEF header
<1>9. /\ h \in Seq(Octets) /\ Len(h) = 8 /\ Sound(h)
      /\ h[3] = place(1) /\ h[4] = place(2) /\ h[5] = place(3)
  BY <1>6, <1>8, HeaderIs
<1> HIDE DEF h
<1>10. /\ image \in Seq(Octets) /\ Len(image) = Len(h) + Len(f)
       /\ \A i \in 1..Len(h) : image[i] = h[i]
       /\ \A j \in 1..Len(f) : image[Len(h) + j] = f[j]
  <2>1. h \in Seq(Octets) /\ f \in Seq(Octets)
    BY <1>5, <1>9
  <2> QED
    BY <2>1, ConcatKeeps
<1> HIDE DEF image
<1>11. /\ Len(f) \in Nat /\ Len(image) = 8 + Len(f)
       /\ image[3] = place(1) /\ image[4] = place(2) /\ image[5] = place(3)
       /\ \A j \in 1..Len(f) : image[8 + j] = f[j]
  <2>1. Len(f) \in Nat
    BY <1>5, LenProperties
  <2>2. 3 \in 1..Len(h) /\ 4 \in 1..Len(h) /\ 5 \in 1..Len(h)
    BY <1>9
  <2> QED
    BY <1>9, <1>10, <2>1, <2>2
<1>12. Sound(SubSeq(image, 1, 8))
  <2>1. 0 + Len(h) <= Len(image)
    BY <1>9, <1>11
  <2>2. \A j \in 1..Len(h) : image[0 + j] = h[j]
    <3>1. \A j \in 1..Len(h) : 0 + j = j
      BY <1>9
    <3> QED
      BY <1>10, <3>1
  <2>3. SubSeq(image, 0 + 1, 0 + Len(h)) = h
    BY <1>9, <1>10, <2>1, <2>2, SliceIs
  <2>4. 0 + 1 = 1 /\ 0 + Len(h) = 8
    BY <1>9
  <2> QED
    BY <1>9, <2>3, <2>4, Zenon
<1>13. ASSUME NEW n \in {1, 2, 3}
       PROVE  ReadArea(image, n) = Readable(info[AreaNames[n]])
  <2> DEFINE texts == info[AreaNames[n]]
             a == AreaOf(info, n)
             x == before(n)
  <2>1. image[2 + n] = place(n)
    <3>1. CASE n = 1
      BY <1>11, <3>1
    <3>2. CASE n = 2
      BY <1>11, <3>2
    <3>3. CASE n = 3
      BY <1>11, <3>3
    <3> QED
      BY <3>1, <3>2, <3>3
  <2>2. CASE texts = NoArea
    <3>1. image[2 + n] = 0
      BY <1>1, <1>6, <2>1, <2>2, Zenon
    <3>2. ReadArea(image, n) = NoArea
      BY <3>1, Zenon DEF ReadArea
    <3>3. <<>> \in Seq(Seq(Octets)) /\ Len(<<>>) = 0
      OBVIOUS
    <3>4. PICK k : ReadableUpto(<<>>, k)
      BY <3>3, ReadableIs
    <3>5. k = 0
      BY <3>3, <3>4 DEF ReadableUpto
    <3>6. Readable(<<>>) = <<>>
      <4>1. Readable(<<>>) = [i \in 1..0 |-> Cut((<<>>)[i])]
        BY <3>4, <3>5 DEF ReadableUpto
      <4> QED
        BY <4>1
    <3> QED
      BY <2>2, <3>2, <3>6, Zenon DEF NoArea
  <2>3. CASE texts # NoArea
    <3>1. a # <<>> /\ AreaGood(n, texts, a)
      BY <1>1, <2>3
    <3>2. image[2 + n] = 1 + x
      BY <1>6, <2>1, <3>1, Zenon
    <3>3. /\ x \in Nat /\ 8 * x + Len(a) <= Len(f) /\ Len(a) \in Nat
          /\ \A j \in 1..Len(a) : f[8 * x + j] = a[j]
      <4>1. Len(a) \in Nat
        BY <1>1, LenProperties
      <4> QED
        BY <1>5, <4>1 DEF MoreBlocks
    <3> HIDE DEF texts, a, x
    <3>4. 8 * (1 + x) + Len(a) <= Len(image)
      BY <1>11, <3>3
    <3>5. \A j \in 1..Len(a) : /\ 8 * x + j \in 1..Len(f)
                               /\ 8 + (8 * x + j) = 8 * (1 + x) + j
      BY <1>11, <3>3
    <3>6. \A j \in 1..Len(a) : image[8 * (1 + x) + j] = a[j]
      BY <1>11, <3>3, <3>5
    <3>7. ReadArea(image, n) = Readable(texts)
      <4>1. AreaGood(n, texts, a) /\ image \in Seq(Octets) /\ x \in Nat
        BY <1>10, <3>1, <3>3
      <4> QED
        BY <1>12, <3>2, <3>4, <3>6, <4>1, AreaIsFound
    <3> QED
      BY <3>7 DEF texts
  <2> QED
    BY <2>2, <2>3
<1>14. DOMAIN AreaNames = {1, 2, 3}
  BY DEF AreaNames
<1> QED
  BY <1>7, <1>13, <1>14, Zenon DEF ReadsBack

-----------------------------------------------------------------------------
(* The objects. *)

LEMMA TwoTexts ==
  ASSUME NEW a \in Seq(Octets), NEW b \in Seq(Octets), NEW s, s = <<a, b>>
  PROVE  FewTexts(s)
BY DEF FewTexts

LEMMA FiveTexts ==
  ASSUME NEW a \in Seq(Octets), NEW b \in Seq(Octets), NEW c \in Seq(Octets),
         NEW d \in Seq(Octets), NEW e \in Seq(Octets), NEW s, s = <<a, b, c, d, e>>
  PROVE  FewTexts(s) /\ s \in Seq(Seq(Octets)) /\ Len(s) = 5
BY DEF FewTexts

LEMMA SevenTexts ==
  ASSUME NEW a \in Seq(Octets), NEW b \in Seq(Octets), NEW c \in Seq(Octets),
         NEW d \in Seq(Octets), NEW e \in Seq(Octets), NEW f \in Seq(Octets),
         NEW g \in Seq(Octets), NEW s, s = <<a, b, c, d, e, f, g>>
  PROVE  FewTexts(s)
BY DEF FewTexts

LEMMA NoTexts == FewTexts(NoArea)
BY DEF FewTexts, NoArea

LEMMA AreasAreFew ==
  ASSUME NEW info, FewTexts(info.chassis), FewTexts(info.board), FewTexts(info.product)
  PROVE  ReadsBack(info)
<1>1. AreaNames[1] = "chassis" /\ AreaNames[2] = "board" /\ AreaNames[3] = "product"
  BY DEF AreaNames
<1>2. \A n \in {1, 2, 3} : FewTexts(info[AreaNames[n]])
  BY <1>1
<1> QED
  BY <1>2, ImageReadsBack

LEMMA ObjectsReadBack ==
  ASSUME NEW p \in [PropertyNames -> Seq(Octets)]
  PROVE  /\ ReadsBack(BaseboardAreas(p))
         /\ ReadsBack(CpuAreas(p)) /\ ReadsBack(DimmAreas(p))
<1>1. /\ p.manufacturer \in Seq(Octets) /\ p.model \in Seq(Octets) /\ p.prettyName \in Seq(Octets)
      /\ p.part \in Seq(Octets) /\ p.serial \in Seq(Octets) /\ p.assetTag \in Seq(Octets)
      /\ p.version \in Seq(Octets)
  BY DEF PropertyNames
<1>2. \A s \in Seq(Octets), t \in Seq(Octets) : Prefer(s, t) \in Seq(Octets)
  BY DEF Prefer
<1>3. Baseboard \in Seq(Octets) /\ <<>> \in Seq(Octets)
  BY DEF Baseboard, Octets
<1>4. ReadsBack(BaseboardAreas(p))
  <2> DEFINE info == BaseboardAreas(p)
             name == Prefer(p.model, p.prettyName)
  <2>1. name \in Seq(Octets)
    BY <1>1, <1>2
  <2>2. /\ info.chassis = <<p.part, p.serial>>
        /\ info.board = <<p.manufacturer, name, p.serial, p.part, Baseboard>>
        /\ info.product = IF p.assetTag = <<>> THEN NoArea
             ELSE <<p.manufacturer, name, p.part, <<>>, p.serial, p.assetTag, <<>>>>
    BY DEF BaseboardAreas
  <2> HIDE DEF info, name
  <2>3. FewTexts(info.chassis)
    BY <1>1, <2>2, TwoTexts
  <2>4. FewTexts(info.board)
    BY <1>1, <1>3, <2>1, <2>2, FiveTexts
  <2>5. FewTexts(info.product)
    <3> DEFINE s == <<p.manufacturer, name, p.part, <<>>, p.serial, p.assetTag, <<>>>>
    <3>1. FewTexts(s)
      BY <1>1, <1>3, <2>1, SevenTexts
    <3> HIDE DEF s
    <3>2. info.product = NoArea \/ info.product = s
      BY <2>2, Zenon DEF s
    <3> QED
      BY <3>1, <3>2, NoTexts
  <2>6. ReadsBack(info)
    BY <2>3, <2>4, <2>5, AreasAreFew
  <2> QED
    BY <2>6 DEF info
<1>5. ReadsBack(CpuAreas(p))
  <2> DEFINE info == CpuAreas(p)
             name == Prefer(p.prettyName, p.model)
             five == <<p.manufacturer, name, p.serial, p.part, <<>>>>
             more == IF p.version = <<>> THEN <<>> ELSE <<p.version>>
  <2>1. name \in Seq(Octets)
    BY <1>1, <1>2
  <2>2. info.chassis = NoArea /\ info.product = NoArea /\ info.board = five \o more
    BY DEF CpuAreas
  <2> HIDE DEF info, name
  <2>3. five \in Seq(Seq(Octets)) /\ Len(five) = 5
    BY <1>1, <1>3, <2>1, FiveTexts
  <2>4. more \in Seq(Seq(Octets)) /\ Len(more) \in {0, 1}
    BY <1>1
  <2> HIDE DEF five, more
  <2>5. five \o more \in Seq(Seq(Octets)) /\ Len(five \o more) = Len(five) + Len(more)
    BY <2>3, <2>4, ConcatProperties
  <2>6. FewTexts(info.board)
    <3> DEFINE l == Len(five \o more)
               k == Len(more)
    <3>0. l = 5 + k /\ k \in {0, 1}
      BY <2>3, <2>4, <2>5
    <3> HIDE DEF l, k
    <3>1. l <= 7
      BY <3>0
    <3> QED
      BY <2>2, <2>5, <3>1 DEF FewTexts, l
  <2>7. ReadsBack(info)
    BY <2>2, <2>6, NoTexts, AreasAreFew
  <2> QED
    BY <2>7 DEF info
<1>6. ReadsBack(DimmAreas(p))
  <2> DEFINE info == DimmAreas(p)
             name == Prefer(p.part, p.model)
  <2>1. name \in Seq(Octets)
    BY <1>1, <1>2
  <2>2. /\ info.chassis = NoArea /\ info.board = NoArea
        /\ info.product = <<p.manufacturer, p.prettyName, name, p.version, p.serial, <<>>, <<>>>>
    BY DEF DimmAreas
  <2> HIDE DEF info, name
  <2>3. FewTexts(info.product)
    BY <1>1, <1>3, <2>1, <2>2, SevenTexts
  <2>4. ReadsBack(info)
    BY <2>2, <2>3, NoTexts, AreasAreFew
  <2> QED
    BY <2>4 DEF info
<1> QED
  BY <1>4, <1>5, <1>6

(* Whatever bytes the inventory gives as texts, of any length, a reader finds *)
(* them again in the image of a baseboard, a CPU or a DIMM: no length, offset *)
(* or checksum of the image is ever wrong.                                    *)
THEOREM ImagesReadBack ==
  \A p \in [PropertyNames -> Seq(Octets)] :
    ReadsBack(BaseboardAreas(p)) /\ ReadsBack(CpuAreas(p)) /\ ReadsBack(DimmAreas(p))
BY ObjectsReadBack

(* So every image that fru-device ever holds can be read, whatever objects    *)
(* the inventory has.                                                         *)
THEOREM ViewLegible == Spec => []ViewIsLegible
<1>1. \A v \in AllImages : \A p \in Properties[v] : p \in [PropertyNames -> Seq(Octets)]
  BY PropertiesAssumption
<1>2. LegibleBaseboards = AllImages /\ LegibleParts = AllImages
  <2>1. \A v \in AllImages : \A p \in Properties[v] :
          ReadsBack(BaseboardAreas(p)) /\ ReadsBack(CpuAreas(p)) /\ ReadsBack(DimmAreas(p))
    BY <1>1, ObjectsReadBack, Zenon
  <2>2. \A v \in AllImages :
          /\ v \in IF \A p \in Properties[v] : ReadsBack(BaseboardAreas(p)) THEN {v} ELSE {}
          /\ v \in IF \A p \in Properties[v] : ReadsBack(CpuAreas(p)) /\ ReadsBack(DimmAreas(p))
                   THEN {v} ELSE {}
    BY <2>1, Zenon
  <2>3. AllImages \subseteq LegibleBaseboards /\ AllImages \subseteq LegibleParts
    BY <2>2, Zenon DEF LegibleBaseboards, LegibleParts
  <2>4. LegibleBaseboards \subseteq AllImages /\ LegibleParts \subseteq AllImages
    BY Zenon DEF LegibleBaseboards, LegibleParts
  <2> QED
    BY <2>3, <2>4
<1>3. ViewIsLegible
  BY <1>2 DEF ViewIsLegible
<1> QED
  BY <1>3, PTL

=============================================================================

------------------------------ MODULE FruSynth ------------------------------
(***************************************************************************)
(* The FRU synthesizer: it builds FRU images from the inventory on D-Bus,  *)
(* keeps them as files in /etc/fru, and asks fru-device to read them.      *)
(*                                                                         *)
(* Signals arm a timer, and its expiry runs regenerate(): read the         *)
(* inventory call by call, write what differs, remove what is gone, and    *)
(* request a ReScan if a file was touched.  Signals that come meanwhile    *)
(* wait in the socket.  The inventory may change, fru-device come and go,  *)
(* a call or a write fail, and the process die between any two steps.      *)
(*                                                                         *)
(* What an interface of an inventory object says is abstracted to a text,  *)
(* None if it says nothing that getString() lets through or is not there;  *)
(* an image is what the reads for it have found.                           *)
(***************************************************************************)
EXTENDS FruImage, FiniteSets

CONSTANTS
  Board,        \* baseboard.fru.bin
  Cpus, Dimms,  \* <bus>-<addr>.fru.bin
  Texts,        \* what an interface may say
  Objects,      \* what each object's interfaces may say together
  Inventories,  \* what they may say when the process begins
  Properties,   \* the properties that an image may be made of
  None,         \* no text, no image, or no file
  Torn,         \* a file that was not written to its end
  OldFiles,     \* what an earlier boot may have left in /etc/fru
  MaxChanges,   \* bound on the changes of the inventory
  MaxFaults     \* bound on the kinds of failure in a behaviour

Items == {Board} \cup Cpus \cup Dimms

(* What is read with GetAll: of the inventory object, or of MachineContext   *)
(* and its baseboard, the device tree's VPD.                                 *)
ReadInterfaces == {"asset", "assetTag", "item", "revision", "system", "baseboard"}

(* And the interface that GetSubTree looks for: Chassis, Cpu or Dimm.        *)
Interfaces == ReadInterfaces \cup {"object"}

Contents == [ReadInterfaces -> Texts \cup {None}]

(* Those without which no image is made: they have the manufacturer, a name, *)
(* the part or the serial number.                                            *)
Naming == {"asset", "item", "system", "baseboard"}

AllImages == {c \in Contents : \E k \in Naming : c[k] # None}

(* A text is any sequence of bytes: nothing but its being there is looked at. *)
ASSUME PropertiesAssumption ==
  Properties \in [AllImages -> SUBSET [PropertyNames -> Seq(Octets)]]

ASSUME ConstantsAssumption ==
  /\ Board \notin Cpus \cup Dimms
  /\ None \notin AllImages /\ Torn \notin AllImages /\ Torn # None
  /\ Objects \in [Items -> SUBSET [Interfaces -> Texts \cup {None}]]
  /\ Inventories \subseteq [Items -> [Interfaces -> Texts \cup {None}]]
  /\ OldFiles \subseteq [Items -> AllImages \cup {None}]
  /\ MaxChanges \in Nat /\ MaxFaults \in Nat

VARIABLES
  inv,       \* the inventory
  files,     \* /etc/fru
  pending,   \* a signal waits in the socket
  armed,     \* the debounce timer runs
  reading,   \* regenerate(), what it has read
  job,       \* regenerate(), the rest of it
  fru,       \* fru-device
  changes,   \* changes of the inventory so far
  unheard,   \* history: changes that made no signal and were not read since
  faults     \* history: the kinds of failure so far

vars == <<inv, files, pending, armed, reading, job, fru, changes, unheard, faults>>

(* lists: the calls of GetSubTree made, for the chassis, CPUs and DIMMs;     *)
(* found: the objects in their answers; left: the calls of GetAll to make    *)
(* before the next list; got: what they have said.                           *)
Reading == [lists : 0..3, found : SUBSET Items, left : SUBSET (Items \X ReadInterfaces),
            got : [Items -> Contents]]

NoReading == [lists |-> 0, found |-> {}, left |-> {},
              got |-> [i \in Items |-> [k \in ReadInterfaces |-> None]]]

(* at: the next step; todo: the files still to be looked at; gone, seen,     *)
(* failed: history, the interfaces that said nothing, and the objects that   *)
(* were there, at some time since it began, and whether one of its calls or  *)
(* writes failed.                                                            *)
Job == [at : {"idle", "read", "write", "fill", "remove", "rescan"},
        todo : SUBSET Items, desired : [Items -> AllImages \cup {None}],
        cur : Items, changed : BOOLEAN, gone : SUBSET (Items \X Interfaces),
        seen : SUBSET Items, failed : BOOLEAN]

NoImages == [i \in Items |-> None]

IdleJob == [at |-> "idle", todo |-> {}, desired |-> NoImages, cur |-> Board,
            changed |-> FALSE, gone |-> {}, seen |-> {}, failed |-> FALSE]

(* up: on the bus; scanned: it has looked at the files since it came;       *)
(* asked: a ReScan waits.                                                   *)
FruDevice == [up : BOOLEAN, scanned : BOOLEAN, asked : BOOLEAN,
              view : [Items -> AllImages \cup {None, Torn}]]

NoFruDevice == [up |-> FALSE, scanned |-> FALSE, asked |-> FALSE, view |-> NoImages]

(* What buildBaseboard(), buildCpu() and buildDimm() read of an object that  *)
(* is found or not: without EntityManager's, the VPD stands for the baseboard. *)
Calls(i, found) ==
  IF i = Board
  THEN IF found THEN {"asset", "assetTag", "item"} ELSE {"system", "baseboard"}
  ELSE IF found THEN {"asset", "item", "revision"} ELSE {}

(* The order of an object's calls. *)
Rank == [asset |-> 1, system |-> 1, assetTag |-> 2, baseboard |-> 2, item |-> 3, revision |-> 4]

(* Which list an object is on. *)
ListOf(i) == IF i = Board THEN 1 ELSE IF i \in Cpus THEN 2 ELSE 3

(* Without a name, a manufacturer and numbers there is no image.             *)
ImageIn(contents) == IF \E k \in Naming : contents[k] # None THEN contents ELSE None

Present(i) == inv[i]["object"] # None

(* The image that the inventory has for an object.                           *)
ImageOf(i) ==
  ImageIn([k \in ReadInterfaces |-> IF k \in Calls(i, Present(i)) THEN inv[i][k] ELSE None])

(* Bound: MaxFaults kinds of failure, each once in a behaviour. *)
Fault(kind) ==
  /\ kind \notin faults /\ Cardinality(faults) < MaxFaults
  /\ faults' = faults \cup {kind}

-----------------------------------------------------------------------------
(* The inventory: smbios-mdr and EntityManager, and MachineContext. *)

There == {i \in Items : Present(i)}

Missing == {c \in Items \X Interfaces : inv[c[1]][c[2]] = None}

Change(i, o) ==
  /\ changes < MaxChanges /\ changes' = changes + 1
  /\ o # inv[i]
  /\ inv' = [inv EXCEPT ![i] = o]
  /\ job' = IF job.at = "idle" THEN job
             ELSE [job EXCEPT !.gone = @ \cup Missing', !.seen = @ \cup There']

(* The interfaces whose properties are of Decorator.Asset. *)
AssetInterfaces == {"asset", "system", "baseboard"}

(* InterfacesAdded, or PropertiesChanged of Decorator.Asset. *)
InventoryAnnounced(i, o) ==
  /\ \/ \E k \in Interfaces : inv[i][k] = None /\ o[k] # None
     \/ \E k \in AssetInterfaces : o[k] # inv[i][k]
  /\ Change(i, o)
  /\ pending' = TRUE
  /\ UNCHANGED <<files, armed, reading, fru, unheard, faults>>

(* InterfacesRemoved, and PropertiesChanged of the other interfaces, are not *)
(* among the signals the process listens to.                                 *)
InventoryUnheard(i, o) ==
  /\ \A k \in AssetInterfaces \cup {"object"} : o[k] \in {inv[i][k], None}
  /\ Change(i, o)
  /\ unheard' = unheard \cup {<<i, k>> : k \in {j \in Interfaces : o[j] # inv[i][j]}}
  /\ UNCHANGED <<files, pending, armed, reading, fru, faults>>

-----------------------------------------------------------------------------
(* The event loop. *)

Idle == job.at = "idle"

(* schedule(): the timer starts, or starts again. *)
Serve ==
  /\ Idle /\ pending
  /\ pending' = FALSE /\ armed' = TRUE
  /\ UNCHANGED <<inv, files, reading, job, fru, changes, unheard, faults>>

Fire ==
  /\ Idle /\ armed
  /\ armed' = FALSE
  /\ job' = [IdleJob EXCEPT !.at = "read", !.gone = Missing, !.seen = There]
  /\ reading' = NoReading
  /\ UNCHANGED <<inv, files, pending, fru, changes, unheard, faults>>

-----------------------------------------------------------------------------
(* regenerate(). *)

InJob(step) == job.at = step /\ UNCHANGED <<inv, pending, armed, fru, changes>>

OnNextList == {i \in Items : ListOf(i) = reading.lists + 1}

CallsFor(items, found) ==
  {c \in items \X ReadInterfaces : c[2] \in Calls(c[1], c[1] \in found)}

(* Faulty AfterList: the baseboard has no other source than EntityManager.   *)
AfterListNoVpd(found) ==
  reading' = [reading EXCEPT !.lists = @ + 1, !.found = @ \cup found,
                             !.left = CallsFor(found, found)]

AfterList(found) ==
  reading' = [reading EXCEPT !.lists = @ + 1, !.found = @ \cup found,
                             !.left = CallsFor(OnNextList, found)]

(* getSubTree(). *)
GetSubTree ==
  /\ InJob("read") /\ reading.left = {} /\ reading.lists < 3
  /\ AfterList({i \in OnNextList : Present(i)})
  /\ unheard' = unheard \ (OnNextList \X {"object"})
  /\ UNCHANGED <<files, job, faults>>

(* It looks as if there was nothing. *)
GetSubTreeFails ==
  /\ InJob("read") /\ reading.left = {} /\ reading.lists < 3
  /\ Fault("call")
  /\ AfterList({})
  /\ job' = [job EXCEPT !.failed = TRUE]
  /\ UNCHANGED <<files, unheard>>

LeftOf(i) == {k \in ReadInterfaces : <<i, k>> \in reading.left}

(* The objects are read one after the other. *)
NextCall(i, k) ==
  /\ k \in LeftOf(i) /\ \A l \in LeftOf(i) : Rank[k] <= Rank[l]
  /\ \A j \in Items \ {i} : LeftOf(j) \in {{}, Calls(j, j \in reading.found)}

(* getAllProps(): an object that has gone since it was listed says nothing.  *)
GetAll(i, k) ==
  /\ InJob("read") /\ NextCall(i, k)
  /\ reading' = [reading EXCEPT !.left = @ \ {<<i, k>>}, !.got[i][k] = inv[i][k]]
  /\ unheard' = unheard \ {<<i, k>>}
  /\ UNCHANGED <<files, job, faults>>

(* What the other calls say still makes an image.                            *)
GetAllFails(i, k) ==
  /\ InJob("read") /\ NextCall(i, k)
  /\ Fault("call")
  /\ reading' = [reading EXCEPT !.left = @ \ {<<i, k>>}]
  /\ job' = [job EXCEPT !.failed = TRUE]
  /\ UNCHANGED <<files, unheard>>

ToRemove == {i \in Items : files[i] # None /\ job.desired[i] = None}

(* What was read, and nothing of it, makes the images to write.              *)
EndReading ==
  /\ InJob("read") /\ reading.left = {} /\ reading.lists = 3
  /\ LET desired == [i \in Items |-> ImageIn(reading.got[i])]
     IN job' = [job EXCEPT !.at = "write", !.desired = desired,
                           !.todo = {i \in Items : desired[i] # None}]
  /\ reading' = NoReading
  /\ UNCHANGED <<files, unheard, faults>>

EndWriting ==
  /\ InJob("write") /\ job.todo = {}
  /\ job' = [job EXCEPT !.at = "remove", !.todo = ToRemove]
  /\ UNCHANGED <<files, reading, unheard, faults>>

(* The pass is over. *)
Ended == [IdleJob EXCEPT !.failed = job.failed]

EndRemoving ==
  /\ InJob("remove") /\ job.todo = {}
  /\ job' = IF job.changed THEN [job EXCEPT !.at = "rescan"] ELSE Ended
  /\ UNCHANGED <<files, reading, unheard, faults>>

FileIsCurrent(i) ==
  /\ InJob("write") /\ i \in job.todo /\ files[i] = job.desired[i]
  /\ job' = [job EXCEPT !.todo = @ \ {i}]
  /\ UNCHANGED <<files, reading, unheard, faults>>

(* Opening cuts the file. *)
OpenFile(i) ==
  /\ InJob("write") /\ i \in job.todo /\ files[i] # job.desired[i]
  /\ files' = [files EXCEPT ![i] = Torn]
  /\ job' = [job EXCEPT !.at = "fill", !.cur = i, !.todo = @ \ {i}]
  /\ UNCHANGED <<reading, unheard, faults>>

OpenFails(i) ==
  /\ InJob("write") /\ i \in job.todo /\ files[i] # job.desired[i]
  /\ Fault("open")
  /\ job' = [job EXCEPT !.todo = @ \ {i}, !.failed = TRUE]
  /\ UNCHANGED <<files, reading, unheard>>

(* Faulty Fill: the file does not count as changed. *)
FillQuietly ==
  /\ InJob("fill")
  /\ files' = [files EXCEPT ![job.cur] = job.desired[job.cur]]
  /\ job' = [job EXCEPT !.at = "write"]
  /\ UNCHANGED <<reading, unheard, faults>>

Fill ==
  /\ InJob("fill")
  /\ files' = [files EXCEPT ![job.cur] = job.desired[job.cur]]
  /\ job' = [job EXCEPT !.at = "write", !.changed = TRUE]
  /\ UNCHANGED <<reading, unheard, faults>>

(* Nobody looks at the stream after the write. *)
FillFails ==
  /\ InJob("fill")
  /\ Fault("write")
  /\ job' = [job EXCEPT !.at = "write", !.changed = TRUE, !.failed = TRUE]
  /\ UNCHANGED <<files, reading, unheard>>

RemoveFile(i) ==
  /\ InJob("remove") /\ i \in job.todo
  /\ files' = [files EXCEPT ![i] = None]
  /\ job' = [job EXCEPT !.todo = @ \ {i}, !.changed = TRUE]
  /\ UNCHANGED <<reading, unheard, faults>>

RemoveFails(i) ==
  /\ InJob("remove") /\ i \in job.todo
  /\ Fault("remove")
  /\ job' = [job EXCEPT !.todo = @ \ {i}, !.changed = TRUE, !.failed = TRUE]
  /\ UNCHANGED <<files, reading, unheard>>

(* Faulty ReScan: what was signalled meanwhile is thrown away. *)
ReScanAndForget ==
  /\ job.at = "rescan"
  /\ fru' = [fru EXCEPT !.asked = fru.up]
  /\ job' = Ended
  /\ pending' = FALSE /\ armed' = FALSE
  /\ UNCHANGED <<inv, files, reading, changes, unheard, faults>>

(* call_noreply(): if fru-device is not there, the request is lost.          *)
ReScan ==
  /\ job.at = "rescan"
  /\ fru' = [fru EXCEPT !.asked = fru.up]
  /\ job' = Ended
  /\ UNCHANGED <<inv, files, reading, pending, armed, changes, unheard, faults>>

Regenerate ==
  \/ GetSubTree \/ GetSubTreeFails
  \/ \E i \in Items, k \in ReadInterfaces : GetAll(i, k) \/ GetAllFails(i, k)
  \/ EndReading \/ EndWriting \/ EndRemoving
  \/ \E i \in Items : FileIsCurrent(i) \/ OpenFile(i) \/ OpenFails(i)
  \/ \E i \in Items : RemoveFile(i) \/ RemoveFails(i)
  \/ Fill \/ FillFails
  \/ ReScan

(* The process dies, and systemd starts it again: it begins with a pass,     *)
(* which finds files it has touched before to be current.                    *)
Restart ==
  /\ Fault(IF job.changed \/ job.at = "fill" THEN "restart before ReScan" ELSE "restart")
  /\ job' = IdleJob /\ reading' = NoReading
  /\ pending' = FALSE /\ armed' = TRUE
  /\ UNCHANGED <<inv, files, fru, changes, unheard>>

-----------------------------------------------------------------------------
(* fru-device reads the files some time after it has come to the bus, and    *)
(* for each ReScan.                                                          *)
FruDeviceStarts ==
  /\ ~fru.up
  /\ fru' = [NoFruDevice EXCEPT !.up = TRUE]
  /\ pending' = TRUE
  /\ UNCHANGED <<inv, files, armed, reading, job, changes, unheard, faults>>

FruDeviceScans ==
  /\ fru.up /\ (fru.asked \/ ~fru.scanned)
  /\ fru' = [fru EXCEPT !.scanned = TRUE, !.asked = FALSE, !.view = files]
  /\ UNCHANGED <<inv, files, pending, armed, reading, job, changes, unheard, faults>>

FruDeviceStops ==
  /\ fru.up /\ Fault("fru-device")
  /\ fru' = NoFruDevice
  /\ pending' = TRUE
  /\ UNCHANGED <<inv, files, armed, reading, job, changes, unheard>>

-----------------------------------------------------------------------------
(* Other services, and the files of an earlier boot, may be there already.   *)
Init ==
  /\ inv \in Inventories
  /\ files \in OldFiles
  /\ pending = FALSE /\ armed = TRUE
  /\ reading = NoReading /\ job = IdleJob
  /\ fru = NoFruDevice
  /\ changes = 0 /\ unheard = {} /\ faults = {}

Next ==
  \/ \E i \in Items : \E o \in Objects[i] : InventoryAnnounced(i, o) \/ InventoryUnheard(i, o)
  \/ Serve \/ Fire
  \/ Regenerate
  \/ Restart
  \/ FruDeviceStarts \/ FruDeviceScans \/ FruDeviceStops

(* The event loop serves its socket and its timer, a pass comes to its end,  *)
(* and fru-device is started again and does what it is asked.                *)
Spec ==
  /\ Init /\ [][Next]_vars
  /\ WF_vars(Serve) /\ WF_vars(Fire) /\ WF_vars(Regenerate)
  /\ WF_vars(FruDeviceStarts) /\ WF_vars(FruDeviceScans)

-----------------------------------------------------------------------------
(* The state has its type; a file is only opened to be filled.               *)
TypeOK ==
  /\ inv \in [Items -> [Interfaces -> Texts \cup {None}]]
  /\ files \in [Items -> AllImages \cup {None, Torn}]
  /\ pending \in BOOLEAN /\ armed \in BOOLEAN
  /\ reading \in Reading
  /\ job \in Job /\ (job.at = "fill" => job.desired[job.cur] # None)
  /\ fru \in FruDevice
  /\ changes \in 0..MaxChanges /\ unheard \subseteq Items \X Interfaces

Quiet == Idle /\ ~pending /\ ~armed

(* Something that the image is made of changed, unread, without a signal.    *)
ChangedUnheard(i) ==
  \E k \in Calls(i, Present(i)) \cup {"object"} : <<i, k>> \in unheard

(* When nothing is left to be done, the files are the inventory's images:    *)
(* however the inventory changed under the pass, and between the calls that  *)
(* read one object, except for changes that made no signal, and unless the   *)
(* last pass met a failure.                                                  *)
FilesCurrent ==
  Quiet /\ ~job.failed => \A i \in Items : ChangedUnheard(i) \/ files[i] = ImageOf(i)

(* Each interface an image needs, of the object or, without it, of the VPD,  *)
(* has said nothing at some time of the pass.                                *)
Unnamed(i) ==
  \E found \in BOOLEAN :
    /\ IF found THEN i \in job.seen ELSE <<i, "object">> \in job.gone
    /\ \A k \in Calls(i, found) \cap Naming : <<i, k>> \in job.gone

(* A file is only removed if what names its object was missing during the    *)
(* pass, or a call of the pass failed; the baseboard's only if the VPD, or   *)
(* EntityManager's object, had nothing to say.                               *)
RemovedOnlyIfGone ==
  [][ \A i \in Items : files[i] # None /\ files'[i] = None => job.failed \/ Unnamed(i) ]_vars

(* fru-device ends up with the images of the inventory, whenever it starts   *)
(* and stops, with the same two exceptions and a third: the process did not  *)
(* die between its first change of a file and the ReScan.                    *)
ViewCatchesUp ==
  <>[]( ~job.failed /\ "restart before ReScan" \notin faults
          => \A i \in Items : ChangedUnheard(i) \/ fru.view[i] = ImageOf(i) )

(* The images whose texts a reader finds again, whatever properties they are *)
(* made of, but for what a one-character text hides.  (As a union, TLC makes *)
(* the set once.)                                                            *)
LegibleBaseboards ==
  UNION {IF \A p \in Properties[v] : ReadsBack(BaseboardAreas(p)) THEN {v} ELSE {} : v \in AllImages}

LegibleParts ==
  UNION {IF \A p \in Properties[v] : ReadsBack(CpuAreas(p)) /\ ReadsBack(DimmAreas(p))
         THEN {v} ELSE {} : v \in AllImages}

(* What fru-device shows of an object can be read back from it.              *)
ViewIsLegible ==
  \A i \in Items : fru.view[i] \in AllImages
      => fru.view[i] \in (IF i = Board THEN LegibleBaseboards ELSE LegibleParts)
=============================================================================

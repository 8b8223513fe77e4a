----------------------------- MODULE SegmentMap -----------------------------
(***************************************************************************)
(* The I2C segments of the host, as the CHIF daemon maps them to buses of  *)
(* the BMC: main()'s loadSegmentBusMap() at the start and on every         *)
(* InterfacesAdded signal until a load has found something, and the        *)
(* requests of the host for a transfer on a segment, which use the map.    *)
(*                                                                         *)
(* The daemon is one thread, but a load takes many steps, while entity-    *)
(* manager publishes the board, drivers bind the channels of the muxes,    *)
(* and D-Bus calls fail.  The match for the signals is made after the      *)
(* first load: a signal before that is lost.                               *)
(***************************************************************************)
EXTENDS PlatDef, Functions

CONSTANTS
  Images,       \* what the ROM may hold: a sequence of images
  Ids,          \* values of ProductId that may be published
  WideIds,      \* those beyond 16 bits
  Channels,     \* channels of the muxes, <<mux, channel>>
  BusOf(_),     \* the number of the bus of a channel
  SegmentIds,   \* segments
  Requests,     \* requests of the host for a transfer
  MaxSignals,   \* bound on the signals that wait
  MaxFaults     \* bound on calls that fail

ASSUME BoundsAssumption == MaxSignals \in Nat /\ MaxFaults \in Nat /\ WideIds \subseteq Ids

(* Whatever the bytes of a definition are, the code reads a table, or        *)
(* bundles with a table each, out of them.                                   *)
IsSequence(s) == s \in Seq(Range(s))

IsRecord(r) ==
  /\ r.size \in Nat
  /\ r.type = "engine" => /\ r.count \in Nat /\ IsSequence(r.segments)
                          /\ \A s \in Range(r.segments) : s.register \in Int

IsTable(t) ==
  /\ DOMAIN t = DOMAIN NoTable
  /\ {t.size, t.packed, t.total, t.needs} \subseteq Nat
  /\ IsSequence(t.records) /\ \A r \in Range(t.records) : IsRecord(r)

IsDefinition(blob) ==
  /\ blob.size \in Nat
  /\ IsTable(blob.table)
  /\ DOMAIN blob.bundles \subseteq Nat
  /\ \A b \in Range(blob.bundles) : {b.header, b.total} \subseteq Nat /\ IsTable(b.table)

IsFile(f) == {f.size, f.lead} \subseteq Nat /\ (IsCarrier(f) => IsDefinition(f.blob))

IsVolume(v) ==
  /\ {v.len, v.ext, v.extSize} \subseteq Nat
  /\ DOMAIN v.files \subseteq Nat /\ \A f \in Range(v.files) : IsFile(f)

IsImage(i) ==
  /\ i.size \in Nat
  /\ DOMAIN i.volumes \subseteq Nat /\ \A v \in Range(i.volumes) : IsVolume(v)

ASSUME ImagesAssumption == \A i \in DOMAIN Images : IsImage(Images[i])

(* No published id is the mark for none, and muxes are numbered from 0 on.   *)
ASSUME IdsAssumption == NoId \notin Ids

ASSUME ChannelsAssumption == \A c \in Channels : c[1] \in Nat

VARIABLES
  rom,          \* which of them is in the partition host-prime
  published,    \* ProductId of the motherboard objects in the inventory
  bound,        \* channels with a bus
  signals,      \* signals that wait for the daemon
  faults,       \* calls that failed so far
  daemon,       \* where the daemon is: its id, its walk and the bundle it is at
  map,          \* segmentToBus_
  loaded,       \* segmentMapLoaded
  scanned,      \* history: channels whose bus was found when the map was made
  reply         \* the answer that this step gives to the host

world == <<rom, published, bound>>
mapped == <<map, loaded, scanned>>
segmentVars == <<world, signals, faults, daemon, mapped, reply>>

image == Images[rom]

(* There is no such partition. *)
NoImage == [size |-> 0, volumes |-> <<>>]

NoBus == -1

MinPayload == 17    \* i2cMinPayload
MaxTransfer == 32

Buses == {BusOf(c) : c \in Channels}

Places == {"id", "open", "walk", "match", "idle"}

Nothing == [segment |-> 0, error |-> "none", bus |-> NoBus, read |-> 0]

NoReply == reply' = Nothing

(* What is the first load, before there is a match, and a later one. *)
AfterLoad == IF daemon.matched THEN "idle" ELSE "match"

-----------------------------------------------------------------------------
(* Around the daemon. *)

(* The daemon gets the signal if it has the match by then.                   *)
Signalled ==
  /\ signals < MaxSignals
  /\ signals' = IF daemon.matched THEN signals + 1 ELSE signals

(* There is one board; an object with an id that is too wide may be there    *)
(* besides.                                                                  *)
Publish(id) ==
  /\ id \notin published
  /\ id \in WideIds \/ published \subseteq WideIds
  /\ published' = published \cup {id}
  /\ Signalled
  /\ UNCHANGED <<rom, bound, faults, daemon, mapped>> /\ NoReply

PublishOther ==
  /\ daemon.matched
  /\ Signalled
  /\ UNCHANGED <<rom, published, bound, faults, daemon, mapped>> /\ NoReply

Bind(c) ==
  /\ c \notin bound /\ bound' = bound \cup {c}
  /\ UNCHANGED <<rom, published, signals, faults, daemon, mapped>> /\ NoReply

-----------------------------------------------------------------------------
(* loadSegmentBusMap(). *)

LoadFails == daemon' = [daemon EXCEPT !.at = AfterLoad]

(* readPlatformId(): the first object whose value can be read and has 16     *)
(* bits.                                                                     *)
ReadPlatformId(id) ==
  /\ daemon.at = "id"
  /\ id \in published \ WideIds
  /\ daemon' = [daemon EXCEPT !.at = "open", !.id = id]
  /\ UNCHANGED <<world, signals, faults, mapped>> /\ NoReply

NoPlatformId ==
  /\ daemon.at = "id" /\ published \subseteq WideIds
  /\ LoadFails
  /\ UNCHANGED <<world, signals, faults, mapped>> /\ NoReply

(* The mapper or the inventory does not answer.                              *)
InventoryFails ==
  /\ daemon.at = "id" /\ faults < MaxFaults
  /\ faults' = faults + 1
  /\ daemon' = [daemon EXCEPT !.at = AfterLoad, !.failed = TRUE]
  /\ UNCHANGED <<world, signals, mapped>> /\ NoReply

(* extractPlatDef(), findMtdByLabel(). *)
OpenRom ==
  /\ daemon.at = "open"
  /\ IF image.size = 0 THEN LoadFails
                       ELSE daemon' = [daemon EXCEPT !.at = "walk", !.walk = StartWalk,
                                                            !.offset = 0]
  /\ UNCHANGED <<world, signals, faults, mapped>> /\ NoReply

WalkVolumes ==
  /\ daemon.at = "walk" /\ daemon.walk.at = "volumes"
  /\ daemon' = [daemon EXCEPT !.walk = VolumeStep(daemon.walk, image)]
  /\ UNCHANGED <<world, signals, faults, mapped>> /\ NoReply

WalkFiles ==
  /\ daemon.at = "walk" /\ daemon.walk.at = "files"
  /\ daemon' = [daemon EXCEPT !.walk = FileStep(daemon.walk, image)]
  /\ UNCHANGED <<world, signals, faults, mapped>> /\ NoReply

(* The definition, when the walk over the files has ended.                   *)
Raw == Extracted(daemon.walk, image)

Passing == Passes(Raw, daemon.offset, daemon.id)

FilesWalked == daemon.at = "walk" /\ daemon.walk.at = "done"

WalkBundles ==
  /\ FilesWalked /\ Passing
  /\ daemon' = [daemon EXCEPT !.offset = NextBundle(Raw, @)]
  /\ UNCHANGED <<world, signals, faults, mapped>> /\ NoReply

(* A table that goes on behind the blob is decompressed from whatever is     *)
(* there, if it is compressed; else it is too long to be copied.             *)
TablesRead ==
  LET t == Selected(Raw, daemon.offset, daemon.id)
  IN IF ~Overruns(Raw, daemon.offset) \/ t = NoTable THEN {Decompressed(t)}
     ELSE IF t.zlib THEN {Decompressed(t), NoTable} ELSE {}

(* The map counts as loaded if there is anything in it.                      *)
Install(m, seen) ==
  IF m = <<>> THEN UNCHANGED mapped
              ELSE map' = m /\ loaded' = TRUE /\ scanned' = seen

MapOf(t, seen) == BusMap(SegmentMapping(t), [c \in seen |-> BusOf(c)])

Build(seen, failed) ==
  /\ FilesWalked /\ ~Passing
  /\ \E platDef \in TablesRead : \E m \in {MapOf(platDef, seen)} : Install(m, seen)
  /\ daemon' = [daemon EXCEPT !.at = AfterLoad, !.walk = StartWalk, !.offset = 0,
                              !.failed = failed]
  /\ UNCHANGED <<world, signals>> /\ NoReply

BuildMap == Build(bound, daemon.failed) /\ UNCHANGED faults

(* scanMuxTopology(), for a definition that there is, goes on with what it   *)
(* saw until an error.                                                       *)
ScanFails ==
  /\ faults < MaxFaults /\ faults' = faults + 1
  /\ FilesWalked /\ TablesRead # {NoTable}
  /\ \E seen \in SUBSET bound : Build(seen, TRUE)

(* Nobody catches what the copy or the decompression of a table throws that  *)
(* goes on behind the blob: systemd starts the daemon again.                 *)
StartDaemon ==
  [at |-> "id", id |-> NoId, walk |-> StartWalk, offset |-> 0, matched |-> FALSE,
   failed |-> FALSE]

Abort ==
  /\ FilesWalked /\ ~Passing
  /\ Overruns(Raw, daemon.offset) /\ Selected(Raw, daemon.offset, daemon.id) # NoTable
  /\ daemon' = StartDaemon
  /\ signals' = 0 /\ map' = <<>> /\ loaded' = FALSE /\ scanned' = {}
  /\ UNCHANGED <<world, faults>> /\ NoReply

-----------------------------------------------------------------------------
(* main(): the match after the first load, and its callback. *)

RegisterMatch ==
  /\ daemon.at = "match"
  /\ daemon' = [daemon EXCEPT !.at = "idle", !.matched = TRUE]
  /\ UNCHANGED <<world, signals, faults, mapped>> /\ NoReply

OnInterfacesAdded ==
  /\ daemon.at = "idle" /\ signals > 0
  /\ signals' = signals - 1
  /\ daemon' = IF loaded THEN daemon ELSE [daemon EXCEPT !.at = "id", !.failed = FALSE]
  /\ UNCHANGED <<world, faults, mapped>> /\ NoReply

-----------------------------------------------------------------------------
(* handleI2cProxy(). *)

(* i2cErrorFromErrno(). *)
I2cError(errno) ==
  CASE errno = "ENXIO"     -> "i2cAddressNack"
    [] errno = "ETIMEDOUT" -> "i2cBusTimeout"
    [] OTHER               -> "i2cGeneralError"

Answer(req, error, bus) ==
  [segment |-> req.segment, error |-> error, bus |-> bus,
   read |-> IF error = "success" /\ bus # NoBus THEN req.read ELSE 0]

(* Answers without a transfer.                                               *)
Refuse(req, error) ==
  /\ daemon.at = "idle"
  /\ reply' = Answer(req, error, NoBus)
  /\ UNCHANGED <<world, signals, faults, daemon, mapped>>

Complete(req) == req.size >= MinPayload

Probes(req) == req.write = 0 /\ req.read = 0

InRange(req) == req.write <= MaxTransfer /\ req.read <= MaxTransfer

I2cMalformed(req) == ~Complete(req) /\ Refuse(req, "i2cGeneralError")

I2cProbe(req) == Complete(req) /\ Probes(req) /\ Refuse(req, "success")

I2cTooLong(req) ==
  /\ Complete(req) /\ ~Probes(req) /\ ~InRange(req)
  /\ Refuse(req, "i2cGeneralError")

Served(req) == Complete(req) /\ ~Probes(req) /\ InRange(req)

I2cNoSegment(req) ==
  /\ Served(req) /\ req.segment \notin DOMAIN map
  /\ Refuse(req, "i2cSegmentNotFound")

(* The bus cannot be opened, or the data to write are not all there.         *)
I2cNoTransfer(req) ==
  /\ Served(req) /\ req.segment \in DOMAIN map
  /\ Refuse(req, "i2cGeneralError")

I2cTransfer(req) ==
  /\ daemon.at = "idle"
  /\ Served(req) /\ req.segment \in DOMAIN map
  /\ req.write <= req.size - MinPayload
  /\ \E error \in {"success"} \cup {I2cError(e) : e \in {"ENXIO", "ETIMEDOUT", "EIO"}} :
       reply' = Answer(req, error, map[req.segment])
  /\ UNCHANGED <<world, signals, faults, daemon, mapped>>

-----------------------------------------------------------------------------
SegmentInit ==
  /\ rom \in DOMAIN Images /\ published = {} /\ bound = {}
  /\ signals = 0 /\ faults = 0
  /\ daemon = StartDaemon
  /\ map = <<>> /\ loaded = FALSE /\ scanned = {}
  /\ reply = Nothing

Environment ==
  \/ \E id \in Ids : Publish(id)
  \/ PublishOther
  \/ \E c \in Channels : Bind(c)
  \/ InventoryFails
  \/ ScanFails

Load ==
  \/ \E id \in Ids : ReadPlatformId(id)
  \/ NoPlatformId
  \/ OpenRom
  \/ WalkVolumes
  \/ WalkFiles
  \/ WalkBundles
  \/ BuildMap
  \/ Abort

I2cProxy(req) ==
  \/ I2cMalformed(req)
  \/ I2cProbe(req)
  \/ I2cTooLong(req)
  \/ I2cNoSegment(req)
  \/ I2cNoTransfer(req)
  \/ I2cTransfer(req)

SegmentNext ==
  \/ Environment
  \/ Load
  \/ RegisterMatch
  \/ OnInterfacesAdded
  \/ \E req \in Requests : I2cProxy(req)

(* The daemon's thread goes on, and its event loop serves a signal that      *)
(* waits.                                                                    *)
SegmentSpec == SegmentInit /\ [][SegmentNext]_segmentVars
             /\ WF_segmentVars(Load) /\ WF_segmentVars(RegisterMatch) /\ WF_segmentVars(OnInterfacesAdded)

-----------------------------------------------------------------------------
(* Properties. *)

(* What a ROM's definitions for a platform say, wherever they are:  *)
(* pairs of a segment and its channel.                                       *)
TablesFor(blob, id) ==
  IF ~Bundled(blob)
  THEN {blob.table}
  ELSE {b.table : b \in {c \in Range(blob.bundles) : id \in ToSet(c.ids)}}

NamedIn(t) ==
  LET engines == {t.records[i] : i \in {i \in Said(t.records) : t.records[i].type = "engine"}}
  IN {<<s.id, Channel(s)>> : s \in {s \in UNION {ToSet(r.segments) : r \in engines} : s.cpld}}

DefinitionsIn(i, id) ==
  UNION {NamedIn(t) : t \in UNION {TablesFor(FileAt(i, p).blob, id) : p \in Carriers(i)}}

Definitions ==
  UNION {{<<i, id, d[1], d[2]>> : d \in DefinitionsIn(Images[i], id)} :
         i \in DOMAIN Images, id \in Ids}

AllChannels == {d[4] : d \in Definitions}

Defined(id, segment, channel) == <<rom, id, segment, channel>> \in Definitions

Board == published \ WideIds

(* A transfer for the host is on a bus that a definition for this platform   *)
(* names for the segment: never on another platform's, or on one that a read *)
(* of half a definition made up.                                             *)
RightBus ==
  reply.bus # NoBus =>
    \E id \in Board, c \in Channels :
      Defined(id, reply.segment, c) /\ BusOf(c) = reply.bus

(* The segments that can be served: each channel of theirs has a bus.        *)
Resolvable(id, channels) ==
  {s \in SegmentIds : /\ \E c \in Channels : Defined(id, s, c)
                     /\ \A c \in AllChannels : Defined(id, s, c) => c \in channels}

SoundRoms == {n \in DOMAIN Images : Sound(Images[n])}

(* If the definitions in the ROM are sound, the map that the daemon keeps to *)
(* its end leaves out no segment whose channels had their bus by then.       *)
MapWhole ==
  loaded /\ rom \in SoundRoms => \A id \in Board : Resolvable(id, scanned) \subseteq DOMAIN map

(* A load that begins when the board is known and the ROM defines a segment  *)
(* that can be served succeeds, unless the inventory does not answer or the  *)
(* scan of the muxes fails.  (A                                              *)
(* board that is announced between the first load and the match waits for    *)
(* the next signal.)                                                         *)
Usable == rom \in SoundRoms /\ Board # {} /\ \A id \in Board : Resolvable(id, bound) # {}

LoadedWhenKnown == daemon.at = "id" /\ Usable ~> loaded \/ daemon.failed

(* Whatever the ROM holds, the daemon comes back to serving the host, except *)
(* if the length of a volume or the size of a bundle goes round the address  *)
(* space: the walk may then return to where it was without end, or the       *)
(* daemon be ended by the table that it chose, each time it is started.      *)
SizesOf(p) ==
  LET blob == FileAt(image, p).blob
  IN {o + blob.bundles[o].total : o \in DOMAIN blob.bundles}

GoesRound ==
  \/ \E o \in DOMAIN image.volumes : o + image.volumes[o].len + Block > AddrSpace
  \/ \E p \in Carriers(image) : \E end \in SizesOf(p) : end >= AddrSpace

KeepsServing == ~GoesRound => []<>(daemon.at = "idle")
=============================================================================

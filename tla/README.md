# A verification model of canopybmc

canopybmc is a distribution of OpenBMC.  Most of what it runs is upstream code
fetched by recipes; what it brings itself is layers of configuration, patches,
and, for HPE Gen11 servers with the GXP chip, programs of its own:

- the **CHIF service** (`gxp-chif-service`), the daemon that talks to the host's
  ROM over shared memory,
- the **kernel drivers** of the GXP, the CHIF driver among them,
- the **FRU synthesizer**, which makes FRU images of the inventory,
- the **CMOS reset service** and the rest of `platform-init`.

These are what is modelled here.  The specifications are written from the source;
each definition that stands for code is listed in `PROJECT.json` under `map` with
the lines it stands for.

Paths below are relative to
`src/meta-canopy/meta-hpe/meta-common/recipes-hpe/gxp-chif-service/gxp-chif-service/`
(`chif/`) or give the patch's number.

## 1. Inventory

How the parts talk to each other:

    host ROM --shared memory, doorbell--> gxp-chif driver (ring) --read()--> CHIF daemon
                                                                               |
       +-------------------------+---------------------------+-----------------+
       |                         |                           |
    SMIF service              ROM service                Health service
       |                         |
    EvStorage (evs.dat)       SmbiosWriter (smbios2) --> MdrBridge --D-Bus--> smbios-mdr
       |  callback "an EV changed"                                                |
       +--> BootService <--D-Bus--> phosphor-settings                      inventory on D-Bus
       +--> BiosConfigService --D-Bus--> BIOS config manager                      |
                                                             FRU synthesizer -- /etc/fru --> fru-device
    CMOS reset service: x86-power-control, host NVRAM (flash), evs.dat, restart of the CHIF daemon

### Components with logic of their own

| Component | State | Operations | What is hard | What makes it correct |
|---|---|---|---|---|
| **EV store** (`chif/src/ev_storage.cpp`, handlers in `smif_service.cpp`) | the list of entries in memory; `evs.dat` | set, delete, delete-all, get by name/index, load, save | a save copies over the file in place; a failed save leaves memory changed; the host walks by index while BootService writes | names unique; what was acknowledged is in the file; a crash costs a tail at most; a walk misses nothing |
| **Boot override** (`chif/src/boot_service.cpp`) | a flag in the daemon; settings in phosphor-settings; `CQTBOOTNEXT`, `CQHBOOTORDER` in the EV store | settings signals, sync, apply once or always, clear, reset after consumption | three D-Bus reads and three D-Bus writes that are not one step; the daemon's own changes look like the host's; restarts in between; clients writing meanwhile | the store ends up as the settings say; a one-time override is used once and never becomes permanent; only a used one is reset |
| **CHIF driver** (kernel patch 0031) | a ring of 16 packets; FIFOs, control words and doorbells in shared memory | interrupt handler, open, read, write, poll | the interrupt and `read()` share the ring without a lock; the doorbell rings again during its handler; `write()` looks at an entry of the host several times, its two flags apart, sleeps in between, and stores bit fields that the host stores too | packets come out once, in order; no doorbell is lost; a queued packet is read; the host gets the answers that were written, whole and in order |
| **CHIF daemon** (`chif_daemon.cpp`, `main.cpp`) | none between packets | poll, read, dispatch, respond | everything is one thread, so whatever blocks, blocks all | every request leaves the ring, also if the host never takes an answer |
| **BIOS configuration** (`bios_config_service.cpp`) | the keys it published; the shared `BaseBIOSTable` | publish, in the callback of each mutation | Get, merge, Set of a table that others write; memory lost in a restart | its attributes are the store's options; those of others are left alone |
| **ROM service, SMBIOS writer, MDR bridge** (`rom_service.cpp`, `smbios_writer.cpp`, `mdr_bridge.cpp`) | the records of the session; `smbios2` | begin, record blob, end | packets lost although every answer is "success"; file operations fail; restarts of either side | the published table is complete, of one session, and reaches smbios-mdr |
| **FRU synthesizer** (`fru-synthesizer/files/main.cpp`) | `/etc/fru`; debounce timer | inventory signals, regenerate, ReScan | the inventory changes between the calls that read it; not every change makes a signal; a failed call is an empty answer; files rewritten in place; fru-device comes and goes | files, and what fru-device serves, become the inventory's images |
| **FRU encoder** (`fru_encoder.cpp`) | none | encode an image | a one-character field has the type byte of the end marker | a reader of the format gets the fields back |
| **CMOS reset** (`platform-init` patches 0004-0006, 0008) | one coroutine per call | Reset | overlapping calls; polling a slow host; the CHIF daemon writing `evs.dat` behind its back; every step can fail | success means the settings are gone; the host ends powered as it was |
| **SMIF, other commands** (`smif_service.cpp`) | the segment map | I2C proxy, network commands, platform definition download, security state, field access | lengths in the request; a map loaded late or not at all | a transfer goes to the segment's bus |
| **Network configuration** (`net_config.cpp`, `smif_network.cpp`) | none: each command makes a snapshot of its own | eight property reads, the paths of the addresses, one read for each address | the configuration changes between the calls; choice among several addresses; names cut to different lengths | the address chosen is routable if there is one, with its own mask and origin; the three answers agree |
| **Platform definition** (`platdef_extract.cpp`, `uefi_fv.cpp`, `main.cpp`) | the segment map, loaded at the start or on a later signal | walk firmware volumes and files, choose a bundle, decompress, walk records, match mux channels with buses | sizes in the image, added in 32 bits; the board's id, the channels' buses and the signals come in any order with the load | only the platform's own definitions count; the map is whole; the walk ends |
| **Host power controller, regulator** (patches 0020, 0034, 0042) | GPIO lines, power-good | power button, interrupt, debounce | interrupt against delayed work | power-good notifications end in the line's last state |

### Components without logic that a model could check

The health service answers every command alike.  The remaining GXP drivers program
registers whose behaviour is not in the repository; fan control writes single
registers on shutdown; the PECI patches and the user-space patches change a few
functions of programs whose source is not here; board files are data; the unit
files, shell scripts, firmware packaging, the ASUS layer, the build system and CI have
no run-time state.  `PROJECT.json` lists each with the reason.

## 2. The modules

| Module | What it is | Code |
|---|---|---|
| `EvEntries` | the entry list as a value: search, update, erase, size accounting, what load() accepts | `ev_storage.cpp` |
| `EvStore` | the store, its saves, its crashes, the host's requests, BootService as a writer | `ev_storage.cpp`, `smif_service.cpp` |
| `DurableMap` | abstract: what the store promises | `ev_storage.hpp` (the interface) |
| `BootOverride` | BootService with its two neighbours, client and firmware | `boot_service.cpp`, start-up in `main.cpp` |
| `ChifQueue` | the send direction of the driver, instruction by instruction where it matters | patch 0031 |
| `ChifReply` | the daemon's loop and the response direction of the driver | `chif_daemon.cpp`, patch 0031 |
| `PlatDef` | a ROM image and what the extraction makes of it, as operators: volumes, files, bundles, records, segments | `uefi_fv.cpp`, `platdef_extract.cpp` |
| `SegmentMap` | the loads of the segment map against board, buses, signals and failures; the I2C proxy | `main.cpp`, `platdef_extract.cpp`, `smif_service.cpp` |
| `NetConfig` | the network commands, call by call, against a network that changes | `net_config.cpp`, `smif_network.cpp` |
| `BiosConfig` | publish() against the store and other providers | `bios_config_service.cpp` |
| `RomSmbios` | session, file, notification | `rom_service.cpp`, `smbios_writer.cpp`, `mdr_bridge.cpp` |
| `FruImage` | the FRU encoder byte by byte, and a reader of the format, as operators | `fru_encoder.cpp`, `files/main.cpp` |
| `FruSynth` | signals, pass, files, fru-device | `fru-synthesizer/files/main.cpp` |
| `CmosReset` | calls of Reset with host, NVRAM, `evs.dat` and daemon | platform-init patches 0004-0008 |
| `EvStoreProofs`, `BootOverrideProofs`, `ChifReplyProofs`, `RomSmbiosProofs`, `FruSynthProofs`, `CmosResetProofs` | theorems about the module of that name | |
| `ChifProofs` | theorems about `ChifQueue` and `SegmentMap` | |
| `ConfigProofs` | theorems about `NetConfig` and `BiosConfig` | |
| `MC...` | the small instances for TLC | |

`EvStore` EXTENDS `EvEntries` and instantiates `DurableMap`; `SegmentMap` EXTENDS `PlatDef`
and `FruSynth` EXTENDS `FruImage`, whose operators are the algorithms their processes run.
`ChifQueue` and `ChifReply` are the two directions of one driver: the ring of the first is a
sequence in the second, which is what `RingExact` and `ReadsAreFifo` allow.  The other modules
stand alone: where one component uses another, the module has that neighbour in the form the
component can see (`BootOverride` and `BiosConfig` have the EV store as a list
in memory and the part of it a restart would load, which is what `EvStore` shows of it;
`CmosReset` has "are the old settings in `evs.dat`").  The composition of all of them
is far beyond what TLC can enumerate, and they share no more than these values.

Things called "Faulty ..." in a module are changed forms of the definition after them.
No specification uses one; they are there to see that the properties notice them.

### How state and actions correspond to the code

**EvStore.** `entries` is `entries_`; `file` is `evs.dat`, as a complete header and
the entries written in full; `call` is the mutation whose `save()` is on the stack.
`HostDeleteAll`, `HostDelete`, `HostSet`, `HostSetEmpty`, `HostBadRequest` are the
branches of `handleSetDeleteEv()`, in its order of precedence; `BmcSet`, `BmcDelete`
are BootService calling the store.  Each runs the checks of `EvStorage::set()` or `del()`
and, if they pass, changes `entries` and enters `save()`; `SaveFails`, `OpenTarget`,
`CopyHeader`, `CopyEntry`, `CopyFails`, `CopyDone` are `save()`: the temporary file,
then `copy_file(overwrite_existing)`, which truncates the target and fills it.
`Restart` is a death of the daemon and `load()`.  `StartWalk` and `GetByIndex` are
the host's enumeration.

**BootOverride.** `settings` are the three D-Bus properties, `signals` the
PropertiesChanged not yet served, `ev`/`disk` the store and what a restart would load.
`at` says which D-Bus call the daemon makes next: `ReadEnabled`, `ReadSource`,
`ReadMode` are `syncEffective()`; `ClearOneTime`, `ApplyPersistent`, `ApplyOneTime`
are `applySource()` and what it calls; `Consumed` reads the flag for "once"; `ResetMode`,
`ResetSource`, `ResetEnabled` are the writes after a consumption; `OnEvChanged` is
the mutation callback with the flag `applyingOverride_`.  The firmware reads the option
(`HostReadNext`), deletes it (`HostConsume`), publishes options and an order.

**ChifQueue.** `ring` is `chif24_queue`; `irq` is where the handler is (`IrqAck`,
`IrqScan`, `IrqTake`, `IrqDone`); `reader` is where the daemon's system call is:
`PopLoad` and `PopStore` are the load and the store of `q->size--`, `CopyFirst` and
`CopyLast` the two halves of `copy_to_user()`, `OpenCheck` and `OpenClear` the two steps of
`open()`.  The GXP has one CPU: the handler runs between any two steps of the
reader, and no step of the reader runs during the handler.

**ChifReply.** `daemon.at` is where the loop or `chif_write()` is.  `CheckGo`, `WriteDropped`,
`Activate` look at GO and store the control word as it was loaded; `LengthLoad` and
`LengthStore` are the store of the bit field `qwords`, which, depending on the instruction,
brings back its neighbours too; `LookEmpty`, `PollEmpty`, `PollLast` wait for the host's entry.
`EntryFound` reads `occupied`; `consumed` is read by a later instruction, and decides between
`Refuse` and `Copy`; `MarkLoad` and `Publish` are the store of `consumed`.  The host posts, offers an
entry, takes an answer, boots and resets between any two of these.

**SegmentMap.** `ReadPlatformId`, `OpenRom`, `WalkVolumes`, `WalkFiles`, `WalkBundles`, `BuildMap` are
`loadSegmentBusMap()`: one step of the walk per header, whose effect is `VolumeStep`, `FileStep` or
`NextBundle` of `PlatDef`, with offsets that go round at 2^32 where the code's are 32 bits wide, so that a
walk may come back to where it was; and at its end `Selected`, `Decompressed`, `SegmentMapping` and
`BusMap` in one step, since they read a copy.  `ScanFails` is the scan of the muxes ending in an exception;
`Abort` is the process ended by the table of a bundle that goes on behind the blob (a size below that of what
comes before it is a very large one, and the copy throws outside of every handler).
`RegisterMatch` is the match that `main()` makes
after the first load, `OnInterfacesAdded` its callback, `I2c...` the branches of
`handleI2cProxy()`.  Board, buses and failing calls come between any two.

**NetConfig.** `Query` starts a command; `ReadProperty`/`ReadFails`, `GetPaths`/`GetPathsFails`,
`ReadAddress`/`AddressFails` are the D-Bus calls of `queryNetworkConfig()`, one step each;
`Respond` makes the answer of the command from what was read.  A name is a sequence; `HostNames` cuts it to
the room of the answer (`HostNameRoom`, `DomainNameRoom`, `NicNameRoom`, `NicDomainRoom`), and each answer has the
`enabled` bits that its handler sets: the first always says that IPv4 is enabled, the last only if there is an
address.

**BiosConfig.** `GetTable`/`GetFails`, then `SetTable`/`SetFails`: `publish()` split at
its two D-Bus calls; `managed` is `managedKeys_`.  `OtherProvider` writes the
table at any time.

**RomSmbios.** `records` is `records_`, each tagged with its session; `Begin`,
`Record`, `End` are the handlers and `LoseBegin`, `LoseRecord` packets the daemon
never sees; `WriteTemp`, `WriteFails`, `CloseFails`, `RenameTemp`, `RenameFails`,
`Synchronize` are the steps of `handleEnd()` and `finalize()`.

**FruSynth.** An object of the inventory is what each of its interfaces says: Asset, AssetTag, Item and
Revision, the one that `GetSubTree` looks for, and, for the baseboard, the two of MachineContext.
`InventoryAnnounced` is a change that makes a signal the process listens to (InterfacesAdded, or
PropertiesChanged of Asset); `InventoryUnheard` one that makes none: a removal, or a change of the other
interfaces.  `unheard` keeps the latter until the interface is read again.  `Serve` takes the waiting signals and
arms the timer; `Fire` starts `regenerate()`.  `GetSubTree` asks for one of the three lists, `GetAll` for one
interface of one object, and `reading` is what they have said so far; a failed call says nothing, and what the
others say still makes an image (`GetSubTreeFails`, `GetAllFails`).  `EndReading` makes the images,
`OpenFile`, `Fill`, `RemoveFile` change `/etc/fru`; `ReScan` ends a pass that touched a
file.  `fru` is fru-device as the patch to entity-manager leaves it: it reads
`/etc/fru` in a scan.  An image is a value here; `FruImage` says which bytes it stands for, and
`ViewIsLegible` ties the two together.

**CmosReset.** One `call[r]` per call of Reset, in the order of its awaits:
`GetState`/`Answer`, `Ask`, `Poll`, `Erase`, `Remove`, `Restart`, `Commit`.  The
host, other clients (`UserAsks`), the firmware saving its settings and the CHIF daemon
saving its list act between any two of them.

## 3. The runs

All runs use small instances; every failing operation is an action, bounded by
allowing each kind of failure once in a behaviour (`faults`) or a number of them
(`MaxFaults`).  These bounds lose sequences of repeated failures of one kind, after
which the state is one that a single failure also leads to.

| Run | What it asks | Bounds | States |
|---|---|---|---|
| `ev_store` | Is the list sound, is what was acknowledged saved, what can a crash lose, does a walk see everything, does the store implement `DurableMap`? | three names and an over-long and an empty name field; values of length 0 to 3, 3 being too long; a file that holds two of the three names, and not two long values | 183,066 |
| `boot_override` | Do settings and store agree once everything is served? Is a one-time override used once, reset only when used, and never turned into a permanent one? Is a consumption always reconciled? | one source and Setup, two options, 2 client writes, each kind of failure once | 1,728,509 |
| `chif_queue` | Is the ring exact and first-in first-out, is a doorbell ever missed, is a queued packet read? | 2 slots, 2 FIFO entries, sequence numbers 0 and 1, 4 packets: the ring fills up and wraps | 171,320 |
| `chif_reply` | Does the host get the answers that were written, is an entry offered in time used, does the ring empty? | 2 slots, 2 descriptors, 2 polls, 3 requests with and without an answer: one in the daemon's hands and two on the ring | 475,788 |
| `segment_map` | Is a transfer on the right bus, is the map whole, is it loaded when it can be, does the daemon come back? | no image, three with a definition (table alone, bundles, compressed) and seventeen with something wrong in a header, bundle sizes that go round 2^32 among them, of which `Sound` refuses all but one without a definition; two platforms, an id that is too wide, three channels, one waiting signal, one failed call | 98,678 |
| `net_config` | Is a routable address given if there is one, with its own mask and origin; do the answers agree? | three address objects, five things an object may say, addresses of 8 bits with prefixes 0, 3 and 9, names longer than the shorter room, two changes or failures | 308,822 |
| `bios_config` | Does the table show the options? When can it be stale, when can others lose an attribute? | three options, two sharing an id, one foreign attribute | 2,907,090 |
| `rom_smbios` | Is the table complete and of one session, is nothing left out, does smbios-mdr get it? | 2 sessions of at most 2 packets, tables below, at and beyond the limit | 997,730 |
| `fru_synth` | Do the files and fru-device's view become current, is a file removed only when its object is gone, can what is served be read back? | the baseboard, with the VPD, the object of entity-manager, and another item name that makes no signal, and one DIMM; 2 inventory changes, 1 failure; an image stands for up to 21 objects, with texts of 0, 1, 11, 12 and 62 to 70 bytes among them, around every limit of the format | 713,116 |
| `cmos_reset` | What does a success mean, does the host end as it was, is the NVRAM erased only while it is off, does every call end? | 2 calls, 2 polls each, one request of another client, one fault | 433,889 |

Two further runs end in a violation; see "Disagreements".

`fru_synth` is the run without a deadlock check: when the changes and faults
are used up and nothing is armed, the synthesizer rests, which is what it should do.
In all others TLC finds that some step is always possible.

Type correctness is no property of a run: it is proved (section 4), for `NetConfig` and `SegmentMap`
as far as their proofs need it, and TLC, which evaluates every field and index that a step
uses, would stop at a value that is not of its type.

What the properties say:

- **EvStore** `UniqueStored`: no name twice, in memory or file (a duplicate would
  shadow its twin for good).  `LoadRestores`: the size checks of `set()` and of `load()`
  agree, so a file written to its end never comes back shorter.
  `AcknowledgedIsDurable`: memory and file agree unless the last save failed, and the
  host was told so.  `WalkComplete`: a walk not disturbed by an erasure sees every entry.
  `CrashLosesOnlyTail`: a crash leaves the old list or a front part of the new one.
  `ImplementsMap`: refinement of `DurableMap`.
- **BootOverride** `SettledMeansApplied`: with nothing left to serve, the store holds
  what the settings ask for, except when the host has changed its options since.
  `NoSecondOneTimeBoot`, `ResetOnlyWhenUsed`, `OneTimeNeverPersists`,
  `ConsumedIsReconciled` (liveness).
- **ChifQueue** `RingExact`: count, head and tail say what is queued, as long as no
  interrupt hit the window of `size--`.  `ReadsAreFifo`; `DoorbellHeard`,
  `QueuedIsRead` (liveness).
- **ChifReply** `DeliveredAsWritten`: the host gets every answer whose write succeeded, once, in
  order and with its length.  The driver reads the descriptor and stores the length before
  it knows that the entry is there and free, so the property excepts a host that
  during a write resets, offers the entry with another descriptor, or changes it within
  the store; and one that takes the previous answer between the look at `occupied` and the look at
  `consumed`: the answer is then copied into an entry that nobody offers, `write()` succeeds, and the next
  offer wipes it (`"dequeued"`).  For the length, it excepts an answer not yet taken when the next write begins.
  `OfferInTimeIsUsed` (liveness) speaks of an entry that is there before the last poll: the
  last one is a timeout even if it finds the entry.  `RequestsAreServed` (liveness).
- **SegmentMap** `RightBus`: whatever the ROM holds, a transfer goes to a bus that a
  definition for this platform names for the segment, in a record before the end marker.
  `MapWhole`: a map made from a sound image has every segment whose channels had a bus by
  then (a map that is not empty is never made again, so a channel that is bound later stays
  out).  `Sound`, the last section of `PlatDef`, says what the code relies on and cannot check
  in full: volumes and files side by side, each file at the next multiple of 8 after the one
  before, records within their table, no platform in two bundles, several copies of the
  definition the same.  `LoadedWhenKnown`
  (liveness): a load begun when board and buses are there succeeds, unless the inventory does not answer or the
  scan of the muxes fails; a board announced between the first load and the match waits for the next signal.
  `KeepsServing` (liveness): the daemon comes back from any image, except from one in which the length of a
  volume or the size of a bundle goes round the 32-bit address space, where the walk may not end.
- **NetConfig** `RoutablePreferred`: a routable address that lasts through the query is not
  passed over, whatever comes and goes beside it.  `OwnParameters`: mask and origin belong to the
  address given.  `AnswersAgree`: what the three commands say of the same thing agrees if
  nothing changed: the names as far as the shorter answer has room, and IPv4 as enabled in the last
  exactly if the first gives an address.
- **BiosConfig** `OwnCurrent`: after a good refresh each id shows the store's option.
  `StaleOnlyAfterFailure`: attributes of options that are gone come from a failed call or a
  restart.  `OthersKeptUnlessRaced`: a refresh leaves the others alone unless its Get failed
  or someone wrote between Get and Set.
- **RomSmbios** `FileComplete`, `SessionsApart`, `NothingLeftOut`: a cut file, a mix of
  sessions or a gap comes only from an unnoticed failure, a lost packet or the limits.
  `InventoryCatchesUp` (liveness).
- **FruSynth** `FilesCurrent`: at rest and without a failure in the last pass, the files are the images of
  the inventory, but for objects with a change that made no signal and was not read since
  (`ChangedUnheard`).  `RemovedOnlyIfGone`: a file goes only if each interface that could name its
  object said nothing at some time of the pass, or a call of the pass failed; this holds of the
  baseboard's too, which goes when neither the VPD nor entity-manager has a text for it.
  `ViewCatchesUp` (liveness): what fru-device serves becomes what the inventory says, unless
  the process died between touching a file and the ReScan (the pass after the restart finds
  the files current and asks for nothing), with the exceptions of `FilesCurrent`.
  `ViewIsLegible`: a reader finds every text of the object again in the image that is
  served, except for what a one-character text hides, whose type byte is the end marker.
- **CmosReset** `SuccessClears`: after the success event the old settings are nowhere,
  unless the erase failed unnoticed, the old CHIF daemon saved between the removal and its
  restart, or another client powered the host on.  `RestoredAtTheEnd`: if all calls
  succeeded, even overlapping ones, the host is powered as it was at first.
  `ErasedWhileOff`: a call that runs alone erases the NVRAM of a host that is off.
  `EveryCallEnds` (liveness).

### Fairness

- `EvStore`, `BiosConfig`, `NetConfig`: none; all their properties are safety.
- `BootOverride`: weak fairness of the steps of a handler that has begun.  The daemon is
  one thread and its D-Bus calls return or time out.  Signals, requests and clients
  are not assumed to come.
- `ChifQueue`: weak fairness of the interrupt handler, which the CPU runs when the doorbell
  is set, and of the steps of a system call that the daemon, polling in a loop, makes.
- `ChifReply`: weak fairness of the daemon's thread, in its loop and in `write()`, whose sleeps end.
  Nothing is assumed of the host.
- `SegmentMap`: weak fairness of the steps of a load, of making the match, and of the event loop
  serving a signal.  Nothing is assumed of entity-manager and the drivers.
- `RomSmbios`: weak fairness of `handleEnd()`, and of smbios-mdr reading when told and
  starting again (systemd restarts it).
- `FruSynth`: weak fairness of the event loop serving a signal, of the timer, of the pass
  and of fru-device starting and scanning.  Nothing is assumed of the inventory.
- `CmosReset`: weak fairness of each coroutine.  Nothing is assumed of the host: a host
  that never reaches a state makes the polling time out.

### Disagreements

Two runs check a sentence of the repository that the code does not keep, and TLC finds
the behaviour (details and lines in `PROJECT.json`, `findings`).

| Run | Said | Done |
|---|---|---|
| `ev_store_atomic` | `ev_storage.hpp:37`: mutations persist "via atomic write" | the temporary file is copied over `evs.dat`, which is truncated first; a daemon that dies in the copy comes back with a front part of the list |
| `chif_queue_race` | the driver exchanges packets with the host | `size++` in the interrupt and `size--` in `read()` share no lock; a packet can stay on the ring unread |

Others need no run of their own, because they are the exceptions in properties that hold:

- `bios_config_service.hpp:54` "without disturbing attributes owned by other providers": a failed Get
  counts as an empty table, and a write between Get and Set is undone
  (`disturbed` in `OthersKeptUnlessRaced`).
- `smbios_writer.hpp:64` "Returns true on success": the stream is checked before it is closed; a
  cut table can replace the good one (`"close"` in `FileComplete`).
- `fru-synthesizer/files/main.cpp:482` ReScan "whenever fru-device (re)appears": a pass that finds all
  files current returns before the ReScan (`ViewCatchesUp`).
- `net_config.cpp:128` speaks of the first routable address; each routable one replaces
  the one before, so the last is given.  `RoutablePreferred` asks for a routable one only.
- `smbios_writer.hpp:60` says that `addRecord()` takes one record, its "raw bytes"; by the code and its tests
  it takes a packet: a count, and that many records, each with its size before it.  The comment is stale.
- The read-modify-write of the control word in `chif_write()` can bring back a GO that the host has
  just taken away, or take away one it has just set (`StoreCtrl` in `ChifReply`).

## 4. What is proved

The eight proof modules prove 50 theorems, for every value of the constants that the named
assumptions of the modules allow: any number of names, options, slots, packets, objects,
calls, and any bounds.  Each has the same shape: an inductive invariant `IInv`
(`QueueInv`, `SegmentInv`, `NetInv`, `BiosInv` where a module has two), that the initial
states have it, that every action keeps it (one lemma for each action or group of
alike actions), `Spec => []IInv`, and from it each
property.

| Module | Type correctness and |
|---|---|
| `EvStoreProofs` | `UniqueStored`, `AcknowledgedIsDurable`, `CrashLosesOnlyTail`, `WalkComplete`, `LoadRestores`, and the refinement `ImplementsMap` |
| `ChifProofs` | of `ChifQueue`: `RingExact`, `ReadsAreFifo`, `OverrunOnlyWhenFull` (a packet is overwritten under its reader only if the ring was full; no run) |
| | of `SegmentMap`: `RightBus`, `MapWhole` |
| `ChifReplyProofs` | `DeliveredAsWritten` |
| `BootOverrideProofs` | `NoSecondOneTimeBoot`, `ResetOnlyWhenUsed`, `OneTimeNeverPersists`, `SettledMeansApplied` |
| `ConfigProofs` | of `NetConfig`: `RoutablePreferred`, `OwnParameters`, `AnswersAgree` |
| | of `BiosConfig`: `OwnCurrent`, `StaleOnlyAfterFailure`, `OthersKeptUnlessRaced` |
| `RomSmbiosProofs` | `FileComplete`, `SessionsApart`, `NothingLeftOut` |
| `FruSynthProofs` | `FilesCurrent`, `RemovedOnlyIfGone`, `ViewIsLegible`; of the encoder, `ImagesReadBack` (no run) |
| `CmosResetProofs` | `SuccessClears`, `RestoredAtTheEnd`, `ErasedWhileOff` |

`ChifProofs` and `ConfigProofs` EXTEND two components each, so that the assumptions of both are facts of
the proofs; this is why `SegmentMap` and `NetConfig` have a prefix on the names of their specification
(`SegmentSpec`, `NetSpec`, and so on).

### What the proofs compute

Several properties are about what a loop makes of a sequence: the size of a list of entries, the
bytes of records, the paths that have an address, a boot order without an option, a power of two.
The operators that say it are functions that LET defines by recursion, and tlapm knows of such a
function only that it is chosen among those that meet its definition.  The proofs therefore show, with
induction by the least counterexample (`Least`, from `WFMin` of the library, and `Induct`), first
that there is one (`SumsExist`, `BytesExist`, `StepsExist`), then that it goes by its steps
(`SizeSteps`, `ByteSteps`, `PowerSteps`, ...), and from these what the invariants need:
a front part is no larger than the whole, the size of an appended, replaced or erased list, the
bytes of two sequences in one, the bits of a mask.  `Min` and `Max` of a set of positions are
shown to be what they are in the same way (`MinOf`, `MaxOf`).

### EvStore and ChifQueue

`EvStoreProofs` proves, for every set of names, values, sizes, limits and requests:

| Theorem | Property |
|---|---|
| `Invariant` | `Spec => []IInv` |
| `TypeCorrect` | `TypeOK` |
| `NoDuplicates` | `UniqueStored` |
| `Durability` | `AcknowledgedIsDurable` |
| `CrashLoss` | `CrashLosesOnlyTail` |
| `WalksAreComplete` | `WalkComplete` |
| `NothingTooLarge` | `LoadRestores` |
| `StoreIsDurableMap` | `ImplementsMap` |

The assumptions are the two named ones of the constants: `SizesAssumption` (sizes are
natural numbers, an entry has some size of its own) and `NamesAssumption` (the over-long
and empty name fields are not names; requests are requests).

**The inductive invariant.** `AcknowledgedIsDurable` and the crash property are not
inductive: they speak of the end of a save and say nothing of its middle.  `IInv` adds

- `UniqueStored`, since search, update and erase do what they should only in a list
  without duplicates;
- `CopyIsFront`: while the copy runs, the file is a front part of the list in memory,
  which makes each step of the copy extend it and its end meet `FileOf(entries)`;
- `TempKeepsOld`: before the target is opened, the file loads as `call.before`;
- `NotAnswered`: no answer is outstanding while a save runs;
- `WalkSound`: a walk not disturbed has seen exactly the names at the positions it has
  passed.

The argument follows the code: a mutation makes a list without duplicates of one
(lemmas on `Put` and `Erase`), enters the save with nothing changed on disk, the copy
extends a front part, and only the end of the copy answers success.  For these, `Loaded` is used
only through the fact that it is a front part of the file.  `WalkComplete` needs that `Put` never
moves an entry, and that `Erase` moves only those behind the erased one.

**Sizes.** `LoadRestores` says that a load takes in whatever was saved: no list gets larger than the
file may be.  It follows from `EverythingFits`, an invariant beside `IInv`: list and file are
within the limits.  `set()` checks the size that the list will have (`PutFits`, by `AppendSize` and
`ReplaceSize`: the size of the replaced entry goes off first, as in the code), `del()` makes it
smaller (`EraseFits`), a copy writes a front part (`FrontFits`), and a file that fits is loaded to its
end (`FittingLoads`).

**Refinement.** `ImplementsMap` is that the store is the map `DurableMap`, with `view`, `durable` and
the answer in place of lists, file and phases.  The initial states map to initial states; `StepMaps`
shows of each step of the code what it is there: a mutation changes the view as the map does (`PutView`,
`EraseView`), the steps of a save are stutters or lose entries of the durable part, its
end makes the view durable, a restart puts the durable part in place of the view (`FrontView`: a front part of
a list is a part of its view).  It rests on `EverythingFits`: a file that `load()` would cut short is
not what the map calls durable.

`ChifProofs` proves of `ChifQueue`, for every number of slots, FIFO entries, sequence numbers and
packets (from `ConstantsAssumption`: at least one slot, finitely many entries):

| Theorem | Property |
|---|---|
| `QueueInvariant` | `Spec => []QueueInv` |
| `QueueTypeCorrect` | `TypeOK` |
| `RingIsExact` | `RingExact` |
| `ReadsInOrder` | `ReadsAreFifo` |
| `OverrunNeedsFullRing` | `OverrunOnlyWhenFull` |

**The inductive invariant.** `RingExact` says nothing of a reader in the middle of a call.
`RingFollows` adds that the count the reader has loaded is still the count (unless an
interrupt came in between, which is the race), and that the head stands one place
behind the slot being copied.  `ReadFollows` adds what the reader holds: the slot it copies
from, and the half it has copied, are those of the last packet popped, unless the slot was
filled again.  `LoadedSome` keeps the count from going below zero.  The positions are
computed with `%` in the code; `ModOnce` reduces them to a comparison and a
subtraction (`Place`), and the rest is linear: no two of the places 0 to Slots-1 are the
same, so a push touches no slot in use, and the slot being copied is the place
Slots-1 behind the head, which only the packet that fills the ring can take.

### The others

**ChifReply.** `DeliveredAsWritten` compares histories; what makes it inductive is what the driver
has in its hands.  `SameDescriptor`: after the length is stored, the descriptor it has read is
the entry's, unless the host moved it.  `Measured`: the length in the entry is that of the
answer being written.  `FoundStays`: an entry found to be offered still is, unless the host reset or took
the previous answer since, which is the mishap that `consumed`, being read later, lets happen;
`Remeasured`: it can only be taken then if the length was stored over that of an answer not yet taken.
`CopiedWaits`: an answer copied and not published is in the
descriptor, in an entry that the host does not take for an answer.

**BootOverride.** Three parts that do not need each other.  `Used`: the daemon is in the reset only
after a consumption.  `Spent`: without a failure, a consumed override stays set only while
the reset runs; no sync has read it, and `CQTBOOTNEXT` is gone.  This is where the order of the
three resets matters: "once" goes last.  `Orderliness`: an orderly client's settings ask for no
persistent override at any step of the reset, and what a sync has read is what they are.

`SettledMeansApplied` has a part of its own, `Mirror`: without a failure, and unless the host has written
to the store since, a daemon without a signal to serve has left in the store what the
settings say; a daemon in the middle of a sync has read what they say, or a signal waits that will make it
read again; and disk and memory agree.  The part must know the boot order to be a sequence of
options, also when it has been rewritten: `Others` goes through it as the loop of the code does.

**BiosConfig.** `Fresh`: a refreshed table has what `publish()` made of the store, which a lemma on
the search through the store (`OursIsFirst`) turns into `OwnCurrent`.  `AllManaged`: without a failed
Set or a restart, table and copy hold no boot option the daemon does not manage.
`CopyHolds`: the copy agrees with the table on what belongs to others.

**SegmentMap.** `RightBus` is about a chain of values: the id of the board that a load goes by (`OwnId`), a
file in the image that has the name looked for (`InImage`: no step of the walk loses the
volume it is in), the bundle that covers the id (`SelectedCovers`), the records that stay the same when
decompressed, the segments among them (`MappedIsNamed`), the channels that have a bus.
`BuiltIsDefined` puts them together, and `MapBacked` keeps the result: the map outlives the load, and the
board stays what it is.  No arithmetic of the ROM's offsets is used for it, so that the theorem holds whatever
the headers claim.

`MapWhole` is the other half, and there the offsets are what matters.  `WholeInv` adds to the invariant that
there is one board (`OneBoard`), that a map is only made for a board (`LoadedForBoard`), and `OnItsWay`: in a
sound image the walk still has a definition ahead of it, or holds one (`Ahead`).  That the walk never passes
the definition rests on what it steps over: the rounding of a volume's length leads to the next multiple of
the block, which the next volume does not lie before (`StepsTo`, `VolumePassed`, `VolumeStepAhead`), and the
rounding of a file's to the next file (`Align8Is`, `FileStepAhead`).  What is extracted is then the whole
definition (`ExtractedWhole`), the walk over its bundles begins at the first (`AtFirst`) and does not pass the one that covers the id (`Toward`: that
one lies at the offset or behind it, and the sizes of sound bundles do not go round), the only one for the
platform (`SelectedWhole`), every record before the end marker is walked (`RecordsWalked`), and each segment has a last
record that the map takes (`LastIs`, `NamedIsMapped`, `BuiltIsWhole`).  `Position`, a recursive function on
the records, is known to be a number by an induction on the sequence (`PositionsExist`).

`ImagesAssumption` says that what is read is of its kind: sizes and lengths are not negative, records,
segments and bundles are sequences, a definition has a table, or bundles that have one.  It claims nothing of
what the numbers are; that is for `Sound`, which no action and no other property but `LoadedWhenKnown`
goes by.  `IdsAssumption` keeps the mark for no id apart from the ids, and `ChannelsAssumption` says that muxes
have numbers that are not negative.

**NetConfig.** A query takes many calls while the network changes, so the invariant relates what it has
collected to three things.  `OwnV4`: an address that was taken is one that an object had since the query
began, with the mask and origin of that object.  `RoutableTaken`: if one of those
that stayed and have been read is routable, the one taken is.  `Consistent`: if nothing has changed, the
configuration collected is what the first calls give, one after the other (`Snapshot`, a sequence
of configurations, of which there is only one: `WholeUnique`), so two queries in a
quiet time give the same, and `AnswersAgree` is left to compare what the three answers take of it: a name cut
twice is a name cut to the shorter room (`CutTwice`), for which what is collected must be names
(`PropsType`, `CfgType`).
`OwnParameters` is about bits: `MaskBits` shows, for every width and prefix, that the difference of two
powers of two has the ones of the prefix and then zeros.  `WorldsAssumption` says that address
objects have an address and a prefix.

**RomSmbios.** `OneSession`: what the daemon holds is of the firmware's session, what the files hold
of one session.  `CompleteTemp`: what is renamed is complete.  `NothingLeftOut` is inductive beside
them: a record packet is taken up to the first record that is cut short or has no room
(`Taken`), the bytes held and the bytes sent grow by the same (`BytesOfBoth`), and if what was sent fits
the limit so does each front part of it (`BytesOfFront`), so nothing is refused.  It needs the assumption that a
packet without a damaged record has no more of them than `addRecord()` takes of a packet.

**FruSynth.** A pass is right although the inventory changes under it, between any two of its calls,
because of `ReadIsRight`: what a list or a call has said is still so, or a signal waits that will start
another pass (signals are served only when the pass is over), or the change made none and is noted.  `MadeIsRight` says the
same of the images made of it: `EndReading` goes from one to the other, where the calls that were made
are those that the inventory now calls for, unless the object's coming or going is noted.  A change
keeps both (`ChangeKeeps`), since whatever differs after it is told by a signal or noted.  `GoneIsKnown`
and `UnreadIsBlank` say what may be without a text, `DoneIsDone` what the writing and removing has reached.

**The encoder.** `ImagesReadBack` says of the images of all three kinds, for any texts at all, that a
reader finds in each area the fields that the encoder was given, but for what a one-character text
hides; `ViewIsLegible` follows, since what fru-device holds is always some inventory's image.
`FruImage` builds bytes with folds, so the proof begins with what a fold does to a sum (`TotalSteps`)
and to a concatenation (`FlattenSteps`, `FlattenLays`: where in the image each area lies).
`FinalizedIs` gives the length of a padded area, a multiple of 8 that its length byte holds: no area
exceeds 464 bytes, since a field is cut at 63, so the count of 8-byte units never wraps; it also gives the
checksum, which makes the bytes add up to zero modulo 256.  `FieldsFromIs` walks with the reader from one
type/length byte to the next and shows that it stops at the end marker, or at the first field of one
character, whose type byte is the same.  `AreaIs` and `ImageReadsBack` put the header's
offsets and the areas together.  `PropertiesAssumption` says that the texts in the inventory are
sequences of bytes.

**CmosReset.** `Nvram` and `Evs` say what has been cleared at each step of a call.  `Power` counts what
the calls together do to the host: one that ran is on, or is being powered on by a call that
still waits, unless a call holds it off; one that did not run is left alone.  `AloneKnows` is
what a call that no other overlaps knows of the host at each step.

### Only model-checked

- All liveness (`ConsumedIsReconciled`, `DoorbellHeard`, `QueuedIsRead`, `OfferInTimeIsUsed`,
  `RequestsAreServed`, `LoadedWhenKnown`, `KeepsServing`, `InventoryCatchesUp`, `ViewCatchesUp`,
  `EveryCallEnds`): fairness and ENABLED are outside what the prover does.

## 5. What is left out

Abstracted in the modelled components: names and values (members of small sets; only
a length, an id or a choice is kept), wording of logs and events, D-Bus signatures,
the version byte of the SMBIOS file, the bytes of firmware volume headers, command-line options.  Neighbours whose source is not
in the repository (phosphor-settings, the BIOS config manager, smbios-mdr,
x86-power-control, systemd, the host firmware, the flash) act as the code under
`src/` expects of them, and may fail.

### Not modelled

- **EV store**: an intact `evs.dat` that cannot be opened when the daemon starts (`load()` returns -1, and the
  daemon goes on with an empty list that the next save writes over the file).  `Restart` reads the file.
- **Driver**: the control word of one channel stands for that of any whose packets go to the ring.  A packet larger
  than a slot, which the interrupt handler drops with `-QUEUE_RC_PKT_OVER_SIZE`, is left out: packets are those
  that fit.  In the send direction, the store of ACTIVE by `active_ccb()`, which is the same
  read-modify-write that `ChifReply` models for the other channel.  Probe and remove are registration
  calls of the kernel.
- **SMIF**: statistics and state of the store, authentication status, platform definition download,
  security state and field access answer from fixed or read-only data.  To the loop
  they are requests with an answer.
- **CMOS reset**: that clients do not ask for a transition while `ActivationBlocksTransition` is there
  (`TransitionsBlocked`) is what that interface means to x86-power-control and its clients; nothing under
  `src/` shows it, and no property depends on it.
- **Health service**: one fixed answer.
- **Host power controller, regulator, PGOOD debounce** (patches 0020, 0034, 0042): sequences of register
  writes at a button press and at the power-good interrupt, with no lock between the two, and one read
  of a bit 500 ms after the last interrupt.  Which order of these writes does harm is decided by the
  CPLD, of which the repository says no more than a comment ("the CPLD enters a fault
  state"), and the notifications go to upstream drivers.  `CmosReset` has the host's power as
  `x86-power-control` shows it.
- **Other GXP drivers, PECI, fan control**: register accesses and callbacks of the kernel.
- **Patches to upstream daemons**: changes of a few functions of programs whose source is not here.
- **fru-device** beyond the loading of synthetic FRUs: upstream code.
- **Data, scripts, packaging, the ASUS layer, build and CI**: no state of the running system.

## 6. Running it

    tlc -workers 2 -config EvStore.cfg MCEvStore
    tlapm EvStoreProofs.tla

and so on for the pairs of module and configuration under `runs` in `PROJECT.json`.

------------------------------ MODULE PlatDef ------------------------------
(***************************************************************************)
(* The host's ROM image and what is in it, as the CHIF service reads them: *)
(* firmware volumes with files, the platform definition in one of these    *)
(* files, its bundles for several platforms, its records, and the I2C      *)
(* segments that these define.                                             *)
(*                                                                         *)
(* An image maps the offsets at which a header lies to the header: what is *)
(* at other offsets is erased flash.  A blob is the content of a file:     *)
(* bundles, each with a table, by the offsets at which their headers lie,  *)
(* or a table alone.  Lengths and offsets are those in the headers, so     *)
(* that a header may claim what the image does not have, and sums of them  *)
(* go round the address space.                                             *)
(***************************************************************************)
EXTENDS Integers, Sequences, FiniteSets, SequencesExt

CONSTANTS
  Block,      \* the step from volume to volume (0x10000)
  AddrSpace,  \* the size of the address space of size_t (2^32 on the GXP)
  NoId        \* no platform id

ASSUME SizesAssumption == Block \in Nat \ {0} /\ AddrSpace \in Nat /\ AddrSpace > Block

(* Sizes of headers, in bytes. *)
VolumeHeader == 56
ExtHeader == 20
FileHeader == 24
SectionHeader == 4
GuidSectionHeader == 20
BundleHeader == 24
TableHeader == 112
RecordHeader == 32
EngineEnd == 80     \* a record header and the engine's fixed fields
SegmentSize == 32

CpldBase == 132     \* cpldRegisterBase, 0x84

ASSUME BlockAssumption == Block > VolumeHeader

NoTable ==
  [size |-> 0, zlib |-> FALSE, packed |-> 0, total |-> 0, needs |-> 0, records |-> <<>>]

NoBlob == [size |-> 0, bundles |-> <<>>, table |-> NoTable]

-----------------------------------------------------------------------------
(* extractFfsFile(): the walk over volumes and their files.  The state of    *)
(* the walk is the offset of the volume, the offset of the file, whether the *)
(* stream is still good (a read beyond the image makes every later one       *)
(* fail), and whether the file is found.                                     *)

StartWalk == [at |-> "volumes", fv |-> 0, file |-> 0, good |-> TRUE, found |-> FALSE]

Wrap(n) == n % AddrSpace

Aligned(len) ==
  LET l == Wrap(len) IN IF l % Block = 0 THEN l ELSE Wrap(l - (l % Block) + Block)

(* Faulty FvStep: a length of 0 is not looked for. *)
FvStepAsIs(len) == Aligned(len)

(* From one volume to the next: its length, up to a multiple of Block.       *)
FvStep(len) == IF Aligned(len) = 0 THEN Block ELSE Aligned(len)

ReadsWell(w, image, offset, len) == w.good /\ offset + len <= image.size

(* The volume is the one that is looked for.  Its name is in an extended     *)
(* header, which not every volume has.                                       *)
NameReads(w, image, v) == ReadsWell(w, image, w.fv + v.ext, ExtHeader)

Wanted(w, image, v) == v.ffs2 /\ v.ext # 0 /\ NameReads(w, image, v) /\ v.apml

(* Where the files of a volume begin. *)
FirstFile(o, v) == o + v.ext + v.extSize

AfterVolume(w, v) == [w EXCEPT !.at = "volumes", !.fv = Wrap(@ + FvStep(v.len))]

VolumeStep(w, image) ==
  LET v == image.volumes[w.fv]
  IN IF ~(w.fv + VolumeHeader < image.size) \/ ~w.good
     THEN [w EXCEPT !.at = "done"]
     ELSE IF w.fv \notin DOMAIN image.volumes
     THEN [w EXCEPT !.fv = Wrap(@ + Block)]
     ELSE IF Wanted(w, image, v)
     THEN [w EXCEPT !.at = "files", !.file = Wrap(FirstFile(w.fv, v))]
     ELSE [AfterVolume(w, v) EXCEPT !.good = v.ffs2 /\ v.ext # 0 => NameReads(w, image, v)]

Align8(n) == ((n + 7) \div 8) * 8

FvEnd(w, image, v) ==
  LET end == Wrap(w.fv + Wrap(v.len)) IN IF end > image.size THEN image.size ELSE end

(* What is skipped in a file to get at the blob: the header of a section of  *)
(* a kind that is known.                                                     *)
HasSection(f) == f.freeform /\ f.size - FileHeader > SectionHeader

Skipped(f) == IF ~HasSection(f) THEN 0
              ELSE CASE f.section = "raw"  -> SectionHeader
                     [] f.section = "guid" -> GuidSectionHeader
                     [] OTHER -> 0

TooShort(f) == HasSection(f) /\ f.section = "guid" /\ f.size - FileHeader <= Skipped(f)

(* The file that is looked for: its name is right, and it is not a large one.*)
IsCarrier(f) == f.apml /\ ~f.large

(* Faulty FileStep: a file with another name ends the volume. *)
FileStepFirst(w, image) ==
  LET v == image.volumes[w.fv]
      at == Align8(w.file)
  IN IF at \in DOMAIN v.files /\ v.files[at].apml
     THEN [w EXCEPT !.at = "done", !.file = at, !.found = TRUE]
     ELSE AfterVolume(w, v)

FileStep(w, image) ==
  LET v == image.volumes[w.fv]
      at == Wrap(Align8(w.file))
      f == v.files[at]
  IN IF ~(Wrap(w.file + FileHeader) < FvEnd(w, image, v))
     THEN AfterVolume(w, v)
     ELSE IF ~ReadsWell(w, image, at, FileHeader)
     THEN [AfterVolume(w, v) EXCEPT !.good = FALSE]
     ELSE IF at \notin DOMAIN v.files \/ f.size < FileHeader
     THEN AfterVolume(w, v)
     ELSE IF ~IsCarrier(f)
     THEN [w EXCEPT !.file = at + f.size]
     ELSE IF TooShort(f) /\ ReadsWell(w, image, at, FileHeader + SectionHeader)
     THEN AfterVolume(w, v)
     ELSE [w EXCEPT !.at = "done", !.file = at, !.found = ReadsWell(w, image, at, f.size)]

(* The blob is what is read if what is skipped is what lies before it; else  *)
(* it is neither a bundle nor a table.                                       *)
Extracted(w, image) ==
  LET f == image.volumes[w.fv].files[w.file]
  IN IF w.found /\ Skipped(f) = f.lead THEN f.blob ELSE NoBlob

-----------------------------------------------------------------------------
(* selectPlatDefBundle(). *)

(* The walk from bundle to bundle, in 32 bits, begins if there is one at 0.  *)
Bundled(blob) == 0 \in DOMAIN blob.bundles

NextBundle(blob, o) == Wrap(o + blob.bundles[o].total)

Malformed(blob, o) ==
  LET b == blob.bundles[o]
  IN \/ b.header < BundleHeader + 2 * Len(b.ids)
     \/ b.total <= b.header
     \/ NextBundle(blob, o) > blob.size

(* Without an id, only a bundle that is the only one will do. *)
Covers(blob, o, id) ==
  IF id = NoId THEN o = 0 /\ NextBundle(blob, o) \notin DOMAIN blob.bundles
               ELSE id \in ToSet(blob.bundles[o].ids)

(* The walk passes a bundle that is well-formed and for other platforms.     *)
Passes(blob, o, id) ==
  o \in DOMAIN blob.bundles /\ ~Malformed(blob, o) /\ ~Covers(blob, o, id)

(* The table in a bundle is what is behind its header.                       *)
TableOf(b) == [b.table EXCEPT !.size = b.total - b.header]

(* Faulty Selected: the first bundle, whatever it covers. *)
SelectedFirst(blob, o, id) ==
  IF Bundled(blob) THEN TableOf(blob.bundles[0]) ELSE blob.table

(* What there is at the offset at which the walk stops.                      *)
Selected(blob, o, id) ==
  IF ~Bundled(blob) THEN blob.table
  ELSE IF o \notin DOMAIN blob.bundles \/ Malformed(blob, o) \/ ~Covers(blob, o, id)
  THEN NoTable
  ELSE TableOf(blob.bundles[o])

(* A bundle whose size goes round is larger than the blob it is in.          *)
Overruns(blob, o) ==
  /\ Bundled(blob) /\ o \in DOMAIN blob.bundles
  /\ o + blob.bundles[o].total > blob.size

(* decompressPlatDef(): the buffer is as large as the header says, within    *)
(* limits; 'packed' is the size of the compressed table, 'needs' that of its *)
(* records.                                                                  *)
Room(total) == IF total = 0 \/ total > 512 * 1024 THEN 256 * 1024 ELSE total

Decompressed(t) ==
  IF t.size < TableHeader THEN NoTable
  ELSE IF ~t.zlib THEN t
  ELSE IF t.packed < TableHeader \/ t.packed > t.size \/ t.needs > Room(t.total)
  THEN NoTable
  ELSE [t EXCEPT !.size = TableHeader + t.needs]

-----------------------------------------------------------------------------
(* parseI2cSegments(). *)

Position(records, i) ==
  LET pos[j \in 1..i] == IF j = 1 THEN 0 ELSE pos[j - 1] + 16 * records[j - 1].size
  IN pos[i]

(* The walk ends at an end marker, or at a record that the table has no room *)
(* for.                                                                      *)
Ends(t, i) ==
  LET r == t.records[i]
  IN \/ r.type = "end" \/ r.size = 0
     \/ Position(t.records, i) + RecordHeader > t.size
     \/ Position(t.records, i) + 16 * r.size > t.size
     \/ r.type = "engine" /\ Position(t.records, i) + EngineEnd > t.size

Walked(t) == {i \in DOMAIN t.records : \A j \in 1..i : ~Ends(t, j)}

(* Faulty HasRoom: not the last. *)
HasRoomLess(r, j) == j < r.count /\ EngineEnd + j * SegmentSize <= 16 * r.size

(* Where the segments are that count: in an engine's record, as many as it   *)
(* says and has room for, and behind a CPLD mux.                             *)
HasRoom(r, j) == j <= r.count /\ EngineEnd + j * SegmentSize <= 16 * r.size

EnginesOf(t) == {i \in Walked(t) : t.records[i].type = "engine"}

SegmentsAt(t) ==
  UNION {{<<i, j>> : j \in {j \in DOMAIN t.records[i].segments :
                           HasRoom(t.records[i], j) /\ t.records[i].segments[j].cpld}} :
         i \in EnginesOf(t)}

Segment(t, p) == t.records[p[1]].segments[p[2]]

(* A later segment of the same number replaces an earlier.                   *)
IsLast(p, ps) == \A q \in ps : q[1] < p[1] \/ (q[1] = p[1] /\ q[2] <= p[2])

LastSegments(t) ==
  LET ps == SegmentsAt(t)
  IN {p \in ps : IsLast(p, {q \in ps : Segment(t, q).id = Segment(t, p).id})}

Gen11(t) == /\ t.size >= RecordHeader /\ t.records # <<>>
            /\ 16 * t.records[1].size = TableHeader

SegmentMapping(t) ==
  LET segs == IF Gen11(t) THEN {Segment(t, p) : p \in LastSegments(t)} ELSE {}
  IN [id \in {s.id : s \in segs} |-> CHOOSE s \in segs : s.id = id]

(* buildSegmentBusMap(): the segments whose mux channel has a bus. *)
Channel(seg) == <<seg.register - CpldBase, seg.channel>>

BusMap(mapping, topology) ==
  LET resolved == {id \in DOMAIN mapping : /\ mapping[id].register >= CpldBase
                                           /\ Channel(mapping[id]) \in DOMAIN topology}
  IN [id \in resolved |-> topology[Channel(mapping[id])]]

-----------------------------------------------------------------------------
(* Sound images: what the code above relies on, which it cannot check in     *)
(* full, for an image whose definition it is to find and to read whole.      *)

(* The records of a table are those before its end marker.                   *)
Said(records) == {i \in DOMAIN records : \A j \in 1..i : records[j].type # "end"}

(* Each record lies within the table, an engine's has all of its segments,   *)
(* and what is compressed is all there.                                      *)
SoundTable(t) ==
  LET size == IF t.zlib THEN TableHeader + t.needs ELSE t.size
  IN /\ t.size >= TableHeader
     /\ t.zlib => TableHeader <= t.packed /\ t.packed <= t.size /\ t.needs <= Room(t.total)
     /\ t.records # <<>> /\ 16 * t.records[1].size = TableHeader
     /\ \A i \in Said(t.records) :
          LET r == t.records[i]
          IN /\ RecordHeader <= 16 * r.size
             /\ Position(t.records, i) + 16 * r.size <= size
             /\ r.type = "engine" => /\ r.count = Len(r.segments)
                                     /\ EngineEnd + r.count * SegmentSize <= 16 * r.size

(* The bundles follow each other in the blob, each is well-formed, and no    *)
(* two are for the same platform.                                            *)
SoundBlob(blob) ==
  IF ~Bundled(blob) THEN SoundTable(blob.table)
  ELSE \A o \in DOMAIN blob.bundles :
         LET b == blob.bundles[o]
         IN /\ ~Malformed(blob, o) /\ o + b.total <= blob.size
            /\ SoundTable(TableOf(b))
            /\ \A p \in DOMAIN blob.bundles :
                 /\ o < p => o + b.total <= p
                 /\ ToSet(b.ids) \cap ToSet(blob.bundles[p].ids) # {} => o = p
            /\ o + b.total \in DOMAIN blob.bundles \/ \A p \in DOMAIN blob.bundles : p <= o

SoundCarrier(f) ==
  /\ f.lead = Skipped(f) /\ f.blob.size > 0 /\ f.size = FileHeader + f.lead + f.blob.size
  /\ SoundBlob(f.blob)

(* The files of a volume follow each other, each at the next multiple of 8,  *)
(* and lie within the volume.                                                *)
FileEnds(o, v) == {FirstFile(o, v)} \cup {a + v.files[a].size : a \in DOMAIN v.files}

SoundFiles(o, v) ==
  /\ \A a \in DOMAIN v.files :
       /\ a % 8 = 0 /\ v.files[a].size >= FileHeader
       /\ FirstFile(o, v) <= a /\ a + v.files[a].size <= o + v.len
       /\ \A b \in DOMAIN v.files : a < b => a + v.files[a].size <= b
       /\ IsCarrier(v.files[a]) => SoundCarrier(v.files[a])
  /\ \A end \in FileEnds(o, v) :
       Align8(end) \in DOMAIN v.files \/ \A a \in DOMAIN v.files : a < end

(* The carriers of an image, by where they are. *)
Carriers(image) ==
  UNION {{<<o, a>> : a \in {a \in DOMAIN image.volumes[o].files :
                           IsCarrier(image.volumes[o].files[a])}} : o \in DOMAIN image.volumes}

FileAt(image, p) == image.volumes[p[1]].files[p[2]]

SoundVolume(image, o) ==
  LET v == image.volumes[o]
  IN /\ o % Block = 0 /\ o + VolumeHeader < image.size /\ o + v.len <= image.size
     /\ \A p \in DOMAIN image.volumes : o < p => o + v.len <= p
     /\ v.ffs2 /\ v.ext # 0 => /\ o + v.ext + ExtHeader <= image.size
                               /\ FirstFile(o, v) <= o + v.len
     /\ (\E p \in Carriers(image) : p[1] = o) => v.ffs2 /\ v.ext # 0 /\ v.apml
     /\ SoundFiles(o, v)

(* Volumes and files lie side by side in it, and if there are several copies *)
(* of the definition they are the same.                                      *)
Sound(image) ==
  /\ image.size + Block <= AddrSpace
  /\ \A o \in DOMAIN image.volumes : SoundVolume(image, o)
  /\ \A p, q \in Carriers(image) : FileAt(image, p).blob = FileAt(image, q).blob
=============================================================================

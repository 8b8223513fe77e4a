--------------------------- MODULE MCSegmentMap ---------------------------
(* Images of 4 KiB with a volume every 1 KiB at most: sound ones with a      *)
(* table alone and with bundles for two platforms, and ones in which a       *)
(* header says what is not so.                                               *)
EXTENDS SegmentMap

Wide == 70000
MCIds == {1, 2, Wide}
MCWideIds == {Wide}
MCChannels == {<<0, 1>>, <<0, 2>>, <<1, 1>>}
MCBusOf(c) == 20 + 10 * c[1] + c[2]
MCSegmentIds == 1..3

Req(size, segment, write, read) ==
  [size |-> size, segment |-> segment, write |-> write, read |-> read]

MCRequests == {Req(16, 1, 0, 1), Req(17, 1, 0, 0), Req(20, 1, 3, 33), Req(17, 1, 1, 1)}
              \cup {Req(17, s, 0, 1) : s \in MCSegmentIds}

-----------------------------------------------------------------------------
Seg(id, mux, channel) ==
  [id |-> id, cpld |-> TRUE, register |-> CpldBase + mux, channel |-> channel]

Direct(id) == [Seg(id, 0, 1) EXCEPT !.cpld = FALSE]

TableRecord == [type |-> "table", size |-> 7]
OtherRecord == [type |-> "other", size |-> 2]
EndRecord == [type |-> "end", size |-> 1]
Engine(segments) ==
  [type |-> "engine", size |-> 5 + 2 * Len(segments), count |-> Len(segments),
   segments |-> segments]

RecordBytes(records) == FoldLeft(LAMBDA sum, r : sum + 16 * r.size, 0, records)

Table(records) ==
  [size |-> RecordBytes(records), zlib |-> FALSE, packed |-> 0, total |-> 0, needs |-> 0,
   records |-> records]

Zipped(records) ==
  [Table(records) EXCEPT !.size = 160, !.zlib = TRUE, !.packed = 160,
     !.needs = RecordBytes(records) - TableHeader, !.total = RecordBytes(records)]

Bundle(ids, table) == [ids |-> ids, header |-> 32, total |-> 32 + table.size, table |-> table]

Single(table) == [size |-> table.size, bundles |-> <<>>, table |-> table]

(* Bundles one behind the other, and 4 bytes behind the last. *)
Behind(layout, bundle) ==
  [bundles |-> layout.bundles @@ (layout.size :> bundle), size |-> layout.size + bundle.total]

Packed(bundles) ==
  LET layout == FoldLeft(Behind, [bundles |-> <<>>, size |-> 0], bundles)
  IN [size |-> layout.size + 4, bundles |-> layout.bundles, table |-> NoTable]

Records1 == <<TableRecord, OtherRecord, Engine(<<Seg(1, 0, 1), Direct(2), Seg(2, 0, 2)>>),
              Engine(<<Seg(3, -1, 1)>>), EndRecord, Engine(<<Seg(3, 1, 1)>>)>>
Records2 == <<TableRecord, Engine(<<Seg(1, 1, 1)>>), Engine(<<Seg(2, 0, 1)>>)>>

-----------------------------------------------------------------------------
File(section, lead, blob) ==
  [apml |-> TRUE, large |-> FALSE, freeform |-> section # "none", section |-> section,
   lead |-> lead, size |-> FileHeader + lead + blob.size, blob |-> blob]

OtherFile == [File("raw", 4, Single(Table(Records2))) EXCEPT !.apml = FALSE, !.size = 50]

Volume(len, apml, files) ==
  [ffs2 |-> TRUE, ext |-> 80, extSize |-> 20, apml |-> apml, len |-> len, files |-> files]

Image(volumes) == [size |-> 4096, volumes |-> volumes]

(* A volume of another file system, one without a name, and the one with the *)
(* definition, behind another file and a large one.                          *)
Around(file) ==
  Image(0 :> [Volume(500, FALSE, <<>>) EXCEPT !.ffs2 = FALSE]
        @@ 1024 :> [Volume(0, FALSE, <<>>) EXCEPT !.ext = 0]
        @@ 2048 :> Volume(2048, TRUE, 2152 :> OtherFile
                                      @@ 2208 :> [OtherFile EXCEPT !.apml = TRUE, !.large = TRUE]
                                      @@ 2264 :> file))

Simple(file) == Image(0 :> Volume(4096, TRUE, 104 :> file))

OfBundles(bs) == File("guid", 20, Packed(bs))

Bundle1 == Bundle(<<1>>, Table(Records1))
Bundle2 == Bundle(<<7, 2>>, Zipped(Records2))

(* One of the two bundles says something else. *)
Second == Bundle1.total

Instead(o, bundle) == [OfBundles(<<Bundle1, Bundle2>>) EXCEPT !.blob.bundles[o] = bundle]

(* The size of the second takes the walk back to the first, which is for     *)
(* another platform too.                                                     *)
RoundTrip ==
  [Instead(0, [Bundle1 EXCEPT !.ids = <<8>>])
   EXCEPT !.blob.bundles[Second] = [Bundle2 EXCEPT !.ids = <<7>>, !.total = AddrSpace - Second]]

SoundImages == <<
  Around(File("raw", 4, Single(Table(Records1)))),
  Around(OfBundles(<<Bundle1, Bundle2>>)),
  Simple(File("none", 0, Single(Zipped(Records2))))>>

(* Definitions with something wrong in them. *)
BadDefinitions == <<
  Instead(Second, [Bundle2 EXCEPT !.total = 32]),
  Instead(0, [Bundle1 EXCEPT !.header = 16]),
  Instead(0, [Bundle1 EXCEPT !.total = AddrSpace]),
  Instead(Second, [Bundle2 EXCEPT !.total = AddrSpace - Second]),
  RoundTrip,
  File("raw", 4, Single([Table(Records1) EXCEPT !.size = TableHeader + 32 + 100])),
  File("raw", 4, Single([Zipped(Records1) EXCEPT !.total = 200 * 1024, !.packed = 500])),
  File("raw", 4, Single(Table(<<TableRecord, [Engine(<<Seg(1, 0, 1)>>) EXCEPT !.count = 2,
                                               !.segments = @ \o <<Seg(2, 1, 1)>>]>>))),
  File("raw", 0, Single(Table(Records1))),
  [File("guid", 20, Single(Table(Records1))) EXCEPT !.size = FileHeader + 10],
  [File("raw", 4, Single(Table(Records1))) EXCEPT !.size = 5000]>>

(* Volumes with something wrong in them. *)
BadVolumes == <<
  Image(0 :> Volume(900, FALSE, <<>>)),
  Image(0 :> Volume(0, TRUE, 104 :> OtherFile)),
  Image(0 :> [Volume(1024, TRUE, <<>>) EXCEPT !.ext = 4090]),
  Image(0 :> [Volume(4096, TRUE, 104 :> OtherFile) EXCEPT !.extSize = AddrSpace - 80]),
  Image(0 :> Volume(4096, TRUE, 104 :> [OtherFile EXCEPT !.size = 4020])),
  Image(1024 :> Volume(16384 - 1024, FALSE, <<>>))>>

MCImages ==
  <<NoImage>> \o SoundImages
  \o [i \in DOMAIN BadDefinitions |-> Simple(BadDefinitions[i])]
  \o BadVolumes
=============================================================================

------------------------------ MODULE FruImage ------------------------------
(***************************************************************************)
(* The FRU image of an inventory object: which of its properties go where  *)
(* (main.cpp), the bytes that become of them (fru_encoder.cpp), and how a  *)
(* reader of the format takes these apart: fru-device and IPMI clients.    *)
(*                                                                         *)
(* A text is a sequence of bytes; one that is not there is empty.  What an *)
(* image holds is the texts of its three areas, NoArea for one it lacks.   *)
(***************************************************************************)
EXTENDS Integers, Sequences, SequencesExt

Octets == {b \in Nat : b <= 255}

NoArea == <<>>

AreaNames == <<"chassis", "board", "product">>

(* The bytes before the first field: version, length, and chassis type,      *)
(* language, or language and date.                                           *)
Preamble == [chassis |-> <<1, 0, 23>>, board |-> <<1, 0, 0, 0, 0, 0>>, product |-> <<1, 0, 0>>]

EndOfFields == 193    \* 0xC1
TypeAscii == 192      \* 0xC0
MaxFieldLen == 63
AreaAlign == 8

-----------------------------------------------------------------------------
(* main.cpp.  The properties of an object, as getString() lets them through. *)

PropertyNames == {"manufacturer", "model", "prettyName", "part", "serial", "assetTag", "version"}

Prefer(text, other) == IF text # <<>> THEN text ELSE other

Baseboard == <<98, 97, 115, 101, 98, 111, 97, 114, 100>>

(* buildBaseboard(): the product area is there for the asset tag only.       *)
BaseboardAreas(p) ==
  LET name == Prefer(p.model, p.prettyName)
  IN [chassis |-> <<p.part, p.serial>>,
      board |-> <<p.manufacturer, name, p.serial, p.part, Baseboard>>,
      product |-> IF p.assetTag = <<>> THEN NoArea
                  ELSE <<p.manufacturer, name, p.part, <<>>, p.serial, p.assetTag, <<>>>>]

(* buildCpu(): the version is a custom field. *)
CpuAreas(p) ==
  [chassis |-> NoArea, product |-> NoArea,
   board |-> <<p.manufacturer, Prefer(p.prettyName, p.model), p.serial, p.part, <<>>>>
             \o (IF p.version = <<>> THEN <<>> ELSE <<p.version>>)]

(* buildDimm(). *)
DimmAreas(p) ==
  [chassis |-> NoArea, board |-> NoArea,
   product |-> <<p.manufacturer, p.prettyName, Prefer(p.part, p.model), p.version, p.serial,
                 <<>>, <<>>>>]

-----------------------------------------------------------------------------
(* fru_encoder.cpp. *)

Total(bytes) ==
  LET sum[i \in 0..Len(bytes)] == IF i = 0 THEN 0 ELSE sum[i - 1] + bytes[i]
  IN sum[Len(bytes)]

(* zeroChecksum(). *)
ZeroChecksum(bytes) == (256 - (Total(bytes) % 256)) % 256

Cut(text) == IF Len(text) > MaxFieldLen THEN SubSeq(text, 1, MaxFieldLen) ELSE text

(* Faulty Field: a text that is too long is not cut. *)
FieldUncut(text) == <<(TypeAscii + Len(text)) % 256>> \o text

(* appendField(). *)
Field(text) == <<TypeAscii + Len(Cut(text))>> \o Cut(text)

Zeros(n) == [i \in 1..n |-> 0]

(* finalizeArea(). *)
Finalized(bytes) ==
  LET ended == Append(bytes, EndOfFields)
      padded == ended \o Zeros((AreaAlign - ((Len(ended) + 1) % AreaAlign)) % AreaAlign)
      sized == [padded EXCEPT ![2] = ((Len(padded) + 1) \div AreaAlign) % 256]
  IN Append(sized, ZeroChecksum(sized))

(* buildChassisArea(), buildBoardArea(), buildProductArea(). *)
Area(name, texts) ==
  IF texts = NoArea THEN <<>>
  ELSE Finalized(Preamble[name] \o FlattenSeq([i \in DOMAIN texts |-> Field(texts[i])]))

(* The blocks before the n-th area; the header is the first.                 *)
BlocksBefore(areas, n) == 1 + (Len(FlattenSeq(SubSeq(areas, 1, n - 1))) \div AreaAlign)

(* build(). *)
Build(info) ==
  LET areas == [n \in DOMAIN AreaNames |-> Area(AreaNames[n], info[AreaNames[n]])]
      at(n) == IF areas[n] = <<>> THEN 0 ELSE BlocksBefore(areas, n) % 256
      header == <<1, 0, at(1), at(2), at(3), 0, 0>>
  IN Append(header, ZeroChecksum(header)) \o FlattenSeq(areas)

-----------------------------------------------------------------------------
(* A reader. *)

Byte(bytes, i) == IF i \in DOMAIN bytes THEN bytes[i] ELSE EndOfFields

(* From one field to the next, up to the end marker.                         *)
FieldsFrom(bytes, first) ==
  LET from[i \in first..(Len(bytes) + 64)] ==
        LET len == Byte(bytes, i) % 64
        IN IF Byte(bytes, i) = EndOfFields \/ i + len > Len(bytes) THEN <<>>
           ELSE <<SubSeq(bytes, i + 1, i + len)>> \o from[i + len + 1]
  IN from[first]

Sound(bytes) == Total(bytes) % 256 = 0

(* The texts of an area, or NoArea if the header or the area is not sound.   *)
ReadArea(image, n) ==
  LET at == AreaAlign * image[2 + n]
      area == SubSeq(image, at + 1, at + AreaAlign * Byte(image, at + 2))
  IN IF ~Sound(SubSeq(image, 1, AreaAlign)) \/ image[2 + n] = 0 \/ ~Sound(area)
     THEN NoArea
     ELSE FieldsFrom(area, Len(Preamble[AreaNames[n]]) + 1)

(* What can be read of the texts: a text of one character has the code of    *)
(* the end marker, and hides itself and what follows it in its area.         *)
Readable(texts) ==
  LET hides == SelectInSeq(texts, LAMBDA t : Len(t) = 1)
  IN [i \in 1..(IF hides = 0 THEN Len(texts) ELSE hides - 1) |-> Cut(texts[i])]

ReadsBack(info) ==
  \A n \in DOMAIN AreaNames : ReadArea(Build(info), n) = Readable(info[AreaNames[n]])
=============================================================================

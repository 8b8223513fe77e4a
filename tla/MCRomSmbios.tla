---------------------------- MODULE MCRomSmbios -----------------------------
(* Two records of one and two bytes against a limit of three, so that tables *)
(* end below, at and beyond it; packets with one and two records, with a     *)
(* malformed one, and the largest allowed.                                   *)
EXTENDS RomSmbios

MCRecords == {"bios", "dimm"}
MCSize == [r \in MCRecords |-> IF r = "dimm" THEN 2 ELSE 1]
MCBlobs == {<<"bios">>, <<"bios", "dimm">>, <<"bios", "bad", "dimm">>}
=============================================================================

---------------------------- MODULE MCChifQueue -----------------------------
(* Two slots and two entries, so that the ring wraps and fills up, and that  *)
(* one handler can find two packets.                                         *)
EXTENDS ChifQueue

MCEntries == {1, 2}
MCSeqNums == {0, 1}
=============================================================================

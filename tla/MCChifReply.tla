---------------------------- MODULE MCChifReply ----------------------------
(* A ring of two, two descriptors, answers of two lengths and requests       *)
(* without an answer; two polls: one that may find the entry in time, and    *)
(* the last.                                                                 *)
EXTENDS ChifReply

MCDescs == 0..1
MCLens == 0..2
=============================================================================

----------------------------- MODULE MCEvStore ------------------------------
(***************************************************************************)
(* A small store for TLC.  Sizes are scaled down: a file has room for      *)
(* two of the three names, and not for two values of length 2, so that an  *)
(* update, and not only an insertion, can be refused for want of room.     *)
(***************************************************************************)
EXTENDS EvStore

CONSTANTS n1, n2, n3, long, nil, d0, d1, d2, d3

MCNames == {n1, n2, n3}
MCLongNames == {long}
MCCut == [r \in {long} |-> n1]
MCBmcNames == {n3}
MCData == {d0, d1, d2, d3}
MCSize == [d \in MCData |-> CASE d = d0 -> 0 [] d = d1 -> 1 [] d = d2 -> 2 [] d = d3 -> 3]

(* Every well-formed request, each malformed one once, and two requests with *)
(* more than one flag set.                                                   *)
Req(f, n, d, p) == [flags |-> f, name |-> n, data |-> d, parts |-> p]
MCRequests ==
  {Req({"deleteAll"}, n1, d0, 1), Req({"deleteAll", "set"}, n1, d1, 4)}
  \cup {Req({"delete"}, n, d0, 2) : n \in MCNames \cup {long, nil}}
  \cup {Req({"delete", "set"}, n1, d1, 4)}
  \cup {Req({"set"}, n, d, 4) : n \in MCNames, d \in {d0, d1, d2}}
  \cup {Req({"set"}, n, d1, 4) : n \in {long, nil}}
  \cup {Req({"set"}, n1, d3, 4), Req({}, n1, d0, 1)}
  \cup {Req(f, n1, d1, 0) : f \in {{}}} \cup {Req({"delete"}, n1, d0, 1)}
  \cup {Req({"set"}, n1, d1, p) : p \in {1, 3}}
=============================================================================

----------------------------- MODULE MCFruSynth -----------------------------
(* The baseboard and one DIMM, each with three states of its object, one of  *)
(* them reached by a change that makes no signal; an earlier boot left a     *)
(* file that is current and one that is not.                                 *)
EXTENDS FruSynth

CONSTANTS board, dimm, a, b

Nothing == [k \in Interfaces |-> None]

Saying(o, fields) == [k \in Interfaces |-> IF k \in DOMAIN fields THEN fields[k] ELSE o[k]]

VpdOnly == Saying(Nothing, [system |-> a])
OfEntityManager == Saying(VpdOnly, [object |-> a, asset |-> a, item |-> a])
Renamed == Saying(OfEntityManager, [item |-> b])

Module == Saying(Nothing, [object |-> a, asset |-> a, item |-> None, revision |-> a])
OtherModule == Saying(Module, [asset |-> b])

MCObjects == (board :> {VpdOnly, OfEntityManager, Renamed}) @@ (dimm :> {Nothing, Module, OtherModule})

(* The host's table is there before EntityManager. *)
MCInventories == {(board :> VpdOnly) @@ (dimm :> Module)}

ImageFor(i, o) ==
  ImageIn([k \in ReadInterfaces |-> IF k \in Calls(i, o["object"] # None) THEN o[k] ELSE None])

MCOldFiles == {(board :> ImageFor(board, VpdOnly)) @@ (dimm :> ImageFor(dimm, OtherModule))}

(* Texts whose bytes include the end marker's. *)
Text(n) == [i \in 1..n |-> 190 + (i % 10)]

Plain == [name \in PropertyNames |-> Text(5)]

(* One property deviates, or two are long; those of an interface that says   *)
(* nothing are empty; the VPD has three or four.                             *)
Deviating == {[Plain EXCEPT ![name] = Text(n)] : name \in PropertyNames, n \in {0, 1, 12}}
LongOnes == {[Plain EXCEPT !["model"] = Text(n), !["serial"] = Text(n)] : n \in {62, 63, 64, 70}}
OfVpd == {[Plain EXCEPT !["prettyName"] = Text(0), !["assetTag"] = Text(0),
                        !["version"] = Text(0), !["serial"] = Text(n)] : n \in {0, 1, 11}}

Speaking(v) == {k \in ReadInterfaces : v[k] # None}

Unsaid(v) ==
  (IF v["item"] = None THEN {"prettyName"} ELSE {}) \cup (IF v["assetTag"] = None THEN {"assetTag"} ELSE {})
  \cup (IF v["revision"] = None THEN {"version"} ELSE {})
  \cup (IF v["asset"] = None THEN {"manufacturer", "model", "part", "serial"} ELSE {})

(* No image is made of other sets of interfaces.                             *)
MCProperties ==
  [v \in AllImages |->
     IF Speaking(v) \subseteq Calls(board, FALSE) THEN OfVpd
     ELSE IF Speaking(v) \subseteq Calls(board, TRUE) \/ Speaking(v) \subseteq Calls(dimm, TRUE)
     THEN {[name \in PropertyNames |-> IF name \in Unsaid(v) THEN Text(0) ELSE p[name]] :
             p \in IF v["asset"] = a THEN Deviating ELSE LongOnes}
     ELSE {}]
=============================================================================

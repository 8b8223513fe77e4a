----------------------------- MODULE DurableMap -----------------------------
(***************************************************************************)
(* What the EV store promises to those who use it, without lists, files or *)
(* steps of a copy: a set of entries that is read and written (view), and  *)
(* what a restart would bring back (durable).                              *)
(*                                                                         *)
(* The promise is weaker than an atomic write: while a save runs, and for  *)
(* as long as a failed one is not followed by a good one, durable may be   *)
(* any part of what the view was.  It never mixes in anything else: each   *)
(* entry that comes back is one that the view held when it was saved.      *)
(***************************************************************************)
CONSTANTS Names, Data

VARIABLES
  view,      \* the entries a reader sees
  durable,   \* the entries a restart would find
  synced     \* the last change was reported as saved

vars == <<view, durable, synced>>

Entry == [name : Names, data : Data]

Without(S, n) == {e \in S : e.name # n}

Init == view = {} /\ durable = {} /\ synced = TRUE

(* One change of the view at a time; nothing is durable yet. *)
Assign(e) ==
  /\ view' = Without(view, e.name) \cup {e}
  /\ synced' = FALSE
  /\ UNCHANGED durable

Discard(n) ==
  /\ view' = Without(view, n)
  /\ synced' = FALSE
  /\ UNCHANGED durable

DiscardAll ==
  /\ view' = {}
  /\ synced' = FALSE
  /\ UNCHANGED durable

(* A save under way, or one that broke off: part of the view is durable. *)
Rewrite ==
  /\ durable' \in SUBSET view
  /\ ~synced /\ synced' = FALSE
  /\ UNCHANGED view

(* A save that ended well. *)
Commit ==
  /\ ~synced /\ synced' = TRUE
  /\ durable = view
  /\ UNCHANGED <<view, durable>>

(* A crash and restart: the view is what was durable. *)
Recover ==
  /\ view' = durable
  /\ synced' = TRUE
  /\ UNCHANGED durable

Next ==
  \/ \E e \in Entry : Assign(e)
  \/ \E n \in Names : Discard(n)
  \/ DiscardAll
  \/ Rewrite
  \/ Commit
  \/ Recover

Spec == Init /\ [][Next]_vars
=============================================================================

---------------------------- MODULE MCCmosReset -----------------------------
(* Two calls of Reset; a host has two seconds to change its state.           *)
EXTENDS CmosReset

CONSTANTS r1, r2

MCRequests == {r1, r2}
=============================================================================

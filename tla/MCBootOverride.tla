-------------------------- MODULE MCBootOverride ----------------------------
(***************************************************************************)
(* One boot source, the setup mode, and two boot options.  The source has  *)
(* a first and a second choice, so that what the firmware has published    *)
(* decides between no match, the second best and the best; setup mode has  *)
(* one match.                                                              *)
(***************************************************************************)
EXTENDS BootOverride

MCSources == {"Network"}
MCOptions == {1, 2}
MCPreferred == [t \in Targets |-> IF t = "Setup" THEN <<2>> ELSE <<1, 2>>]
MCOptionSets == {{2}, {1, 2}}
MCOrders == {<<2, 1>>}
MCLeftover == {[source |-> "Default", mode |-> "Regular", oneTime |-> FALSE],
               [source |-> "Network", mode |-> "Regular", oneTime |-> TRUE]}
=============================================================================

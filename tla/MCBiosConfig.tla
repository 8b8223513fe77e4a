---------------------------- MODULE MCBiosConfig ----------------------------
(* Three options, two of which share an id, and one foreign attribute. *)
EXTENDS BiosConfig

MCOptions == {"0001", "0101", "0002"}
MCId == [o \in MCOptions |-> IF o = "0002" THEN "Boot02" ELSE "Boot01"]
MCLabels == {"disk", "net"}
MCValues == {"on", "off"}
MCForeign == {"numa"}
=============================================================================

----------------------------- MODULE BiosConfig -----------------------------
(***************************************************************************)
(* The boot options as BIOS attributes: class BiosConfigService of the     *)
(* CHIF daemon keeps the BaseBIOSTable of the BIOS config manager in step  *)
(* with the CQSBOOT#### entries of the EV store.                           *)
(*                                                                         *)
(* The table is one D-Bus property that several providers share, so a      *)
(* refresh is a Get, a merge in the daemon, and a Set of the whole table.  *)
(* The Get and the Set are steps of their own: others may write the table  *)
(* between them, and each call may fail.  The EV store does not change in  *)
(* between, the daemon being one thread.                                   *)
(***************************************************************************)
EXTENDS Integers, Sequences, FiniteSets, Functions, SequencesExt

CONSTANTS
  Options,     \* the CQSBOOT#### entry names
  Id,          \* Id[o]: the option's two-digit id, its attribute Boot##
  Labels,      \* display names
  NoName,      \* a payload without a display name
  Foreign,     \* attributes of other providers
  Values,      \* their values
  Missing      \* no such attribute

Ids == Range(Id)
Keys == Ids \cup Foreign

ASSUME ConstantsAssumption ==
  /\ DOMAIN Id = Options
  /\ Ids \cap Foreign = {}
  /\ NoName \notin Labels
  /\ Missing \notin Labels \cup Values

VARIABLES
  entries,   \* the CQSBOOT#### entries in memory, in the order of the store
  file,      \* those a restart would load
  table,     \* BaseBIOSTable
  managed,   \* managedKeys_
  at,        \* "idle", or the D-Bus call publish() is about to make
  read,      \* what the Get returned
  synced,    \* history: the last refresh succeeded and nothing was stored since
  disturbed, \* history: another provider wrote since the last Get, or it failed
  faults     \* history: the kinds of failure so far

vars == <<entries, file, table, managed, at, read, synced, disturbed, faults>>

EntryType == [option : Options, label : Labels \cup {NoName}]

Table == {t \in [Keys -> Labels \cup Values \cup {Missing}] :
            /\ \A i \in Ids : t[i] \notin Values \ Labels
            /\ \A k \in Foreign : t[k] \in Values \cup {Missing}}

EmptyTable == [k \in Keys |-> Missing]

(* Bound: each kind of failure once in a behaviour. *)
Fault(kind) == kind \notin faults /\ faults' = faults \cup {kind}

-----------------------------------------------------------------------------
(* The part of the EV store that matters here. *)

StorePut(s, o, l) ==
  IF \E i \in DOMAIN s : s[i].option = o
  THEN [i \in DOMAIN s |-> IF s[i].option = o THEN [option |-> o, label |-> l] ELSE s[i]]
  ELSE Append(s, [option |-> o, label |-> l])

(* saveAndNotify(): the refresh follows a save that succeeds.  After a       *)
(* failed one memory is ahead, and the file is as it was or cut anywhere.    *)
StoreChange(new) ==
  /\ at = "idle"
  /\ entries' = new
  /\ \/ file' = new /\ at' = "get" /\ UNCHANGED <<synced, faults>>
     \/ /\ Fault("save")
        /\ file' \in {file} \cup {SubSeq(new, 1, k) : k \in 0..Len(new)}
        /\ synced' = FALSE
        /\ UNCHANGED at
  /\ UNCHANGED <<table, managed, read, disturbed>>

HostSet(o, l) == StoreChange(StorePut(entries, o, l))

HostDelete(o) ==
  \E i \in DOMAIN entries : entries[i].option = o /\ StoreChange(RemoveAt(entries, i))

(* Faulty HostDeleteAll: a bulk clear does not start a refresh. *)
HostDeleteAllUnheard ==
  /\ at = "idle"
  /\ entries' = <<>> /\ file' = <<>>
  /\ UNCHANGED <<table, managed, at, read, synced, disturbed, faults>>

HostDeleteAll == StoreChange(<<>>)

-----------------------------------------------------------------------------
(* publish(). *)

(* An entry that gives attribute i a name. *)
Names(e, i) == e.label # NoName /\ Id[e.option] = i

Named(s) == {i \in Ids : \E j \in DOMAIN s : Names(s[j], i)}

(* Faulty Ours: a later option takes the id of an earlier one. *)
OursLast(s) ==
  [i \in Named(s) |-> s[SelectLastInSeq(s, LAMBDA e : Names(e, i))].label]

(* One attribute for each id in use: emplace() keeps the first option that   *)
(* has it and a name.                                                        *)
Ours(s) ==
  [i \in Named(s) |-> s[SelectInSeq(s, LAMBDA e : Names(e, i))].label]

(* Faulty Merge: the old attributes are not erased. *)
MergeOver(old, mine, ours) ==
  [k \in Keys |-> IF k \in DOMAIN ours THEN ours[k] ELSE old[k]]

(* Faulty Merge: only the boot options are published. *)
MergeNothing(old, mine, ours) ==
  [k \in Keys |-> IF k \in DOMAIN ours THEN ours[k] ELSE Missing]

(* Our old attributes go, our new ones come. *)
Merge(old, mine, ours) ==
  [k \in Keys |-> IF k \in DOMAIN ours THEN ours[k]
                  ELSE IF k \in mine THEN Missing ELSE old[k]]

GetTable ==
  /\ at = "get"
  /\ read' = table /\ disturbed' = FALSE
  /\ at' = "set"
  /\ UNCHANGED <<entries, file, table, managed, synced, faults>>

(* A failed Get counts as an empty table. *)
GetFails ==
  /\ at = "get"
  /\ Fault("get")
  /\ read' = EmptyTable /\ disturbed' = TRUE
  /\ at' = "set"
  /\ UNCHANGED <<entries, file, table, managed, synced>>

Published == Merge(read, managed, Ours(entries))

SetTable ==
  /\ at = "set"
  /\ table' = Published
  /\ managed' = DOMAIN Ours(entries)
  /\ synced' = TRUE
  /\ at' = "idle"
  /\ read' = EmptyTable
  /\ UNCHANGED <<entries, file, disturbed, faults>>

(* The keys are replaced although the table may not be; a call that timed    *)
(* out may have been served.  Nothing tries again.                           *)
SetFails ==
  /\ at = "set"
  /\ Fault("set")
  /\ table' \in {table, Published}
  /\ managed' = DOMAIN Ours(entries)
  /\ synced' = FALSE
  /\ at' = "idle"
  /\ read' = EmptyTable
  /\ UNCHANGED <<entries, file, disturbed>>

-----------------------------------------------------------------------------
(* Another provider writes or removes one of its attributes. *)
OtherProvider(k, v) ==
  /\ table[k] # v
  /\ table' = [table EXCEPT ![k] = v]
  /\ disturbed' = TRUE
  /\ UNCHANGED <<entries, file, managed, at, read, synced, faults>>

(* The daemon dies at any point and starts again: what it had published is   *)
(* forgotten, and its constructor refreshes the table.                       *)
Restart ==
  /\ Fault("restart")
  /\ entries' = file
  /\ managed' = {}
  /\ at' = "get"
  /\ read' = EmptyTable
  /\ synced' = FALSE
  /\ UNCHANGED <<file, table, disturbed>>

Init ==
  /\ entries = <<>> /\ file = <<>>
  /\ table = EmptyTable
  /\ managed = {}
  /\ at = "get"
  /\ read = EmptyTable
  /\ synced = FALSE /\ disturbed = TRUE
  /\ faults = {}

Publish == GetTable \/ GetFails \/ SetTable \/ SetFails

Next ==
  \/ \E o \in Options, l \in Labels \cup {NoName} : HostSet(o, l)
  \/ \E o \in Options : HostDelete(o)
  \/ HostDeleteAll
  \/ Publish
  \/ \E k \in Foreign, v \in Values \cup {Missing} : OtherProvider(k, v)
  \/ Restart

Spec == Init /\ [][Next]_vars

-----------------------------------------------------------------------------
(* The state has its type. *)
TypeOK ==
  /\ entries \in Seq(EntryType) /\ file \in Seq(EntryType)
  /\ table \in Table /\ read \in Table
  /\ managed \subseteq Ids
  /\ at \in {"idle", "get", "set"}
  /\ synced \in BOOLEAN /\ disturbed \in BOOLEAN
  /\ faults \subseteq {"save", "get", "set", "restart"}

(* The option that gives an id its name: the first in the store that has     *)
(* the id and a name.                                                        *)
Speaks(i) ==
  /\ entries[i].label # NoName
  /\ \A j \in 1..i-1 : Id[entries[j].option] = Id[entries[i].option]
                         => entries[j].label = NoName

(* A table the daemon has refreshed shows each option the store has, under   *)
(* its present name, and of the attributes the daemon manages no other:      *)
(* whichever of the store's changes came before, bulk or single.             *)
OwnCurrent ==
  at = "idle" /\ synced =>
    /\ \A i \in DOMAIN entries :
         Speaks(i) => table[Id[entries[i].option]] = entries[i].label
    /\ \A k \in managed : \E i \in DOMAIN entries :
         Id[entries[i].option] = k /\ table[k] = entries[i].label

(* Boot option attributes in the table that the daemon would never erase. *)
Forgotten == {k \in Ids : table[k] # Missing} \ managed

(* A boot option that is gone stays in the table only if a Set failed or the *)
(* daemon was restarted: in any other history the daemon still manages it.   *)
StaleOnlyAfterFailure ==
  Forgotten # {} => faults \cap {"set", "restart"} # {}

(* A refresh leaves the attributes of other providers as they are, unless    *)
(* its Get failed or one of them wrote between the Get and the Set.          *)
OthersKeptUnlessRaced ==
  [][ at = "set" /\ at' # "set" /\ ~disturbed
        => \A k \in Foreign : table'[k] = table[k] ]_vars

=============================================================================

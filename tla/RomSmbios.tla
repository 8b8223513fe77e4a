----------------------------- MODULE RomSmbios ------------------------------
(***************************************************************************)
(* The SMBIOS table on its way from the firmware to the BMC's inventory:   *)
(* class RomService takes the table in packets, SmbiosWriter collects the  *)
(* records and writes the file smbios2, MdrBridge tells smbios-mdr to read *)
(* it.                                                                     *)
(*                                                                         *)
(* A session of the firmware is Begin, packets of records, End.  Nothing   *)
(* in an answer tells it whether a packet was of use, and packets can be   *)
(* lost: the driver's ring was full, or the daemon was starting.  The      *)
(* daemon may die at any step of the write, and each of its file           *)
(* operations can fail.                                                    *)
(*                                                                         *)
(* The version byte in the file's header is left out: nothing in the       *)
(* repository reads it.                                                    *)
(***************************************************************************)
EXTENDS Integers, Sequences, FiniteSets, Functions, FiniteSetsExt

CONSTANTS
  Records,      \* SMBIOS records
  Size,         \* Size[r]: bytes of record r
  Bad,          \* a record whose size is 0 or beyond the packet
  Blobs,        \* what a packet can hold
  RecordsLimit, \* maxRecordsPerBlob (1000)
  DataLimit,    \* maxSmbiosDataSize (1 MiB)
  Buffered,     \* a table smaller than this stays in the stream's buffer
  MaxSessions,  \* bound: sessions of the firmware
  MaxPackets,   \* bound: packets of records in a session
  MaxFaults     \* bound: kinds of failure in a behaviour

(* A packet of 4 KiB has room for some 500 of the smallest SMBIOS records,    *)
(* so that the limit of 1000 only cuts what is not a list of records.        *)
ASSUME ConstantsAssumption ==
  /\ Size \in [Records -> Nat \ {0}]
  /\ Bad \notin Records
  /\ Blobs \subseteq Seq(Records \cup {Bad})
  /\ \A blob \in Blobs : Bad \notin Range(blob) => Len(blob) <= RecordsLimit
  /\ {RecordsLimit, DataLimit, Buffered, MaxSessions, MaxPackets, MaxFaults} \subseteq Nat

VARIABLES
  host,      \* the firmware: its session, packets of records sent, and records in them
  records,   \* records_: each with the session that sent it
  temp,      \* smbios_temp
  file,      \* smbios2
  at,        \* where handleEnd() is
  told,      \* an AgentSynchronizeData is on its way
  mdr,       \* smbios-mdr: whether it runs, and the table it has read
  whole,     \* history: the daemon has had all of this session so far
  faults     \* history: what has failed so far

vars == <<host, records, temp, file, at, told, mdr, whole, faults>>

Held == [record : Records, session : 1..MaxSessions]

None == [exists |-> FALSE, complete |-> FALSE, records |-> <<>>]

FileType == [exists : BOOLEAN, complete : BOOLEAN, records : Seq(Held)]

(* records_.size() grows record by record. *)
BytesUpTo(rs) ==
  LET bytes[i \in 0..Len(rs)] == IF i = 0 THEN 0 ELSE bytes[i - 1] + Size[rs[i]]
  IN bytes

Bytes(rs) == BytesUpTo(rs)[Len(rs)]

(* The records as they will stand in the file. *)
Plain(hs) == [i \in DOMAIN hs |-> hs[i].record]

HeldBytes(hs) == Bytes(Plain(hs))

(* Bound: MaxFaults kinds of failure, each once in a behaviour. *)
Fault(kind) ==
  /\ kind \notin faults /\ Cardinality(faults) < MaxFaults
  /\ faults' = faults \cup {kind}

-----------------------------------------------------------------------------
(* addRecord(). *)

(* Faulty Accepted: the last record the limit allows is not taken. *)
AcceptedShort(blob) ==
  {k \in 0..Len(blob) :
     /\ k > 0 => k < RecordsLimit
     /\ \A i \in 1..k : blob[i] # Bad
     /\ k > 0 => HeldBytes(records) + Bytes(SubSeq(blob, 1, k)) <= DataLimit}

(* The numbers of records that can be taken from the front of the packet.    *)
Accepted(blob) ==
  {k \in 0..Len(blob) :
     /\ k <= RecordsLimit
     /\ \A i \in 1..k : blob[i] # Bad
     /\ k > 0 => HeldBytes(records) + Bytes(SubSeq(blob, 1, k)) <= DataLimit}

AddRecord(blob) ==
  records' = records \o [i \in 1..Max(Accepted(blob)) |->
                           [record |-> blob[i], session |-> host.session]]

-----------------------------------------------------------------------------
(* The firmware's packets, and the handlers that do nothing else. *)

Idle == at = "idle"

NewSession ==
  /\ host.session < MaxSessions
  /\ host' = [session |-> host.session + 1, packets |-> 0, sent |-> <<>>]

(* Faulty Begin: the records of the last session are kept. *)
BeginKeeping ==
  /\ Idle /\ NewSession
  /\ whole' = TRUE
  /\ UNCHANGED <<records, temp, file, at, told, mdr, faults>>

Begin ==
  /\ Idle /\ NewSession
  /\ records' = <<>>
  /\ whole' = TRUE
  /\ UNCHANGED <<temp, file, at, told, mdr, faults>>

SendBlob(blob) ==
  /\ host.session > 0 /\ host.packets < MaxPackets
  /\ host' = [host EXCEPT !.packets = @ + 1, !.sent = @ \o blob]

(* handleRecord() and handleBlob() are the same. *)
Record(blob) ==
  /\ Idle /\ SendBlob(blob)
  /\ AddRecord(blob)
  /\ UNCHANGED <<temp, file, at, told, mdr, whole, faults>>

(* A packet that no one takes: the firmware goes on without an answer.       *)
LoseBegin ==
  /\ Fault("begin") /\ NewSession
  /\ whole' = FALSE
  /\ UNCHANGED <<records, temp, file, at, told, mdr>>

LoseRecord(blob) ==
  /\ Fault("record") /\ SendBlob(blob)
  /\ whole' = FALSE
  /\ UNCHANGED <<records, temp, file, at, told, mdr>>

-----------------------------------------------------------------------------
(* handleEnd(). *)

(* finalize() gives up without records, or without its directory.            *)
End ==
  /\ Idle /\ host.session > 0 /\ records # <<>>
  /\ at' = "write"
  /\ UNCHANGED <<host, records, temp, file, told, mdr, whole, faults>>

EndRefused ==
  /\ Idle /\ host.session > 0
  /\ IF records = <<>> THEN UNCHANGED faults ELSE Fault("directory")
  /\ UNCHANGED <<host, records, temp, file, at, told, mdr, whole>>

Written == [exists |-> TRUE, complete |-> TRUE, records |-> records]

Cut == {[exists |-> TRUE, complete |-> FALSE, records |-> SubSeq(records, 1, k)] :
          k \in 0..Len(records)}

(* Faulty WriteTemp: the file itself is written. *)
WriteTempInPlace ==
  /\ at = "write"
  /\ file' \in Cut /\ temp' = Written
  /\ at' = "rename"
  /\ UNCHANGED <<host, records, told, mdr, whole, faults>>

(* The stream is opened, which cuts the temporary file, and written.         *)
WriteTemp ==
  /\ at = "write"
  /\ temp' = Written
  /\ at' = "rename"
  /\ UNCHANGED <<host, records, file, told, mdr, whole, faults>>

WriteFails ==
  /\ at = "write"
  /\ Fault("write")
  /\ temp' \in {temp} \cup Cut
  /\ at' = "idle"
  /\ UNCHANGED <<host, records, file, told, mdr, whole>>

(* A small table reaches the file when the stream is closed; that is after   *)
(* the stream's state was looked at, and a failure is not noticed.           *)
CloseFails ==
  /\ at = "write" /\ HeldBytes(records) < Buffered
  /\ Fault("close")
  /\ temp' \in Cut
  /\ at' = "rename"
  /\ UNCHANGED <<host, records, file, told, mdr, whole>>

RenameTemp ==
  /\ at = "rename"
  /\ file' = temp /\ temp' = None
  /\ at' = "sync"
  /\ UNCHANGED <<host, records, told, mdr, whole, faults>>

RenameFails ==
  /\ at = "rename"
  /\ Fault("rename")
  /\ at' = "idle"
  /\ UNCHANGED <<host, records, temp, file, told, mdr, whole>>

(* Faulty Synchronize: smbios-mdr is not told. *)
SynchronizeNot ==
  /\ at = "sync"
  /\ at' = "idle"
  /\ UNCHANGED <<host, records, temp, file, told, mdr, whole, faults>>

(* call_noreply(): whether anyone listens is not known.                      *)
Synchronize ==
  /\ at = "sync"
  /\ told' = mdr.up
  /\ at' = "idle"
  /\ UNCHANGED <<host, records, temp, file, mdr, whole, faults>>

-----------------------------------------------------------------------------
(* The daemon dies and starts again: the session's records so far are gone,  *)
(* and the firmware is not told.                                             *)
Restart ==
  /\ Fault(IF at = "sync" THEN "restart before sync" ELSE "restart")
  /\ records' = <<>>
  /\ whole' = FALSE
  /\ at' = "idle"
  /\ UNCHANGED <<host, temp, file, told, mdr>>

(* smbios-mdr reads the file when it starts and when it is told to.          *)
MdrReads ==
  /\ told
  /\ told' = FALSE /\ mdr' = [up |-> TRUE, table |-> file]
  /\ UNCHANGED <<host, records, temp, file, at, whole, faults>>

MdrStops ==
  /\ mdr.up /\ Fault("mdr")
  /\ told' = FALSE /\ mdr' = [up |-> FALSE, table |-> None]
  /\ UNCHANGED <<host, records, temp, file, at, whole>>

MdrStarts ==
  /\ ~mdr.up
  /\ mdr' = [up |-> TRUE, table |-> file]
  /\ UNCHANGED <<host, records, temp, file, at, told, whole, faults>>

Init ==
  /\ host = [session |-> 0, packets |-> 0, sent |-> <<>>]
  /\ records = <<>>
  /\ temp = None /\ file = None
  /\ at = "idle" /\ told = FALSE
  /\ mdr = [up |-> FALSE, table |-> None]
  /\ whole = TRUE /\ faults = {}

Handler == WriteTemp \/ WriteFails \/ CloseFails \/ RenameTemp \/ RenameFails \/ Synchronize

Next ==
  \/ Begin \/ LoseBegin
  \/ \E blob \in Blobs : Record(blob) \/ LoseRecord(blob)
  \/ End \/ EndRefused
  \/ Handler
  \/ Restart
  \/ MdrReads \/ MdrStops \/ MdrStarts

(* A handler runs to its end, a D-Bus message is served, and systemd starts  *)
(* smbios-mdr again.                                                         *)
Spec ==
  Init /\ [][Next]_vars /\ WF_vars(Handler) /\ WF_vars(MdrReads) /\ WF_vars(MdrStarts)

-----------------------------------------------------------------------------
(* The state has its type. *)
TypeOK ==
  /\ host \in [session : 0..MaxSessions, packets : 0..MaxPackets,
               sent : Seq(Records \cup {Bad})]
  /\ records \in Seq(Held)
  /\ temp \in FileType /\ file \in FileType
  /\ at \in {"idle", "write", "rename", "sync"}
  /\ told \in BOOLEAN
  /\ mdr \in [up : BOOLEAN, table : FileType]
  /\ whole \in BOOLEAN

(* Whatever fails and whenever the daemon dies, smbios2 and what smbios-mdr  *)
(* has read of it are complete tables, unless a failing close was missed.    *)
FileComplete ==
  "close" \notin faults => \A f \in {file, mdr.table} : f.exists => f.complete

(* A table never mixes two sessions, unless the packet between them was lost.*)
SessionsApart ==
  "begin" \notin faults =>
    \A i, j \in DOMAIN file.records : file.records[i].session = file.records[j].session

(* Within the limits nothing of a session is left out: if no packet was lost *)
(* and the daemon lived, the daemon holds all records sent since Begin, in   *)
(* order and once.  It never holds more than the limit.                      *)
NothingLeftOut ==
  /\ whole /\ Bad \notin Range(host.sent) /\ Bytes(host.sent) <= DataLimit
       => Plain(records) = host.sent
  /\ HeldBytes(records) <= DataLimit

(* smbios-mdr ends up with the table in the file, however often it stops,    *)
(* unless the daemon died between the rename and the call.                   *)
InventoryCatchesUp ==
  <>[](mdr.table = file \/ "restart before sync" \in faults)
=============================================================================

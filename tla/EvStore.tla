------------------------------ MODULE EvStore -------------------------------
(***************************************************************************)
(* The EV store of the CHIF daemon: class EvStorage and the SMIF commands  *)
(* through which the host's ROM reads and writes it.                       *)
(*                                                                         *)
(* The daemon is one thread.  A mutation changes the list in memory first; *)
(* then save() writes a temporary file on tmpfs and copies it over         *)
(* evs.dat, which is not one step: the copy truncates the file and fills   *)
(* it again.  The daemon can die between any two steps, and the save can   *)
(* fail before the copy or in it.  "call" is the mutation whose save is    *)
(* under way; no other request is served meanwhile.                        *)
(*                                                                         *)
(* The host sends one request at a time and walks the store by index until *)
(* it is told there is no such entry; between two of its requests the      *)
(* daemon's own BootService may change the store.                          *)
(*                                                                         *)
(* A set/delete request of the host is a record: its flags, its name field *)
(* and value, and how many of its parts are in the payload (1 the flags, 2 *)
(* the name too, 3 the data length too, 4 everything).                     *)
(***************************************************************************)
EXTENDS EvEntries

CONSTANTS
  LongNames,   \* name fields of 32 characters, with no terminator
  Cut,         \* Cut[r]: the first 31 characters of such a field
  EmptyName,   \* a name field that starts with the terminator
  Requests,    \* the set/delete requests the host may send
  BmcNames     \* the names BootService writes: CQTBOOTNEXT, CQHBOOTORDER

ASSUME NamesAssumption ==
  /\ Cut \in [LongNames -> Names]
  /\ EmptyName \notin Names
  /\ LongNames \cap (Names \cup {EmptyName}) = {}
  /\ BmcNames \subseteq Names
  /\ Requests \subseteq [flags : SUBSET {"deleteAll", "delete", "set"},
                          name : Names \cup LongNames \cup {EmptyName},
                          data : Data, parts : 0..4]

VARIABLES
  entries,   \* entries_: the list in memory
  file,      \* evs.dat
  call,      \* the mutation being saved, or Idle
  lastSave,  \* how the last save of this run of the daemon ended
  resp,      \* the answer to the host's last request, if a set/delete
  walk       \* the host's walk through the store by index

vars == <<entries, file, call, lastSave, resp, walk>>

Codes == {"success", "noSuchEv", "deviceError", "nameTooLong", "dataTooLarge",
          "unsupported"}

(* The mutations; "setEmpty" is a delete that came as a set of length 0. *)
Kinds == {"deleteAll", "delete", "set", "setEmpty", "bmc"}

NoCall == [phase |-> "idle"]

Call == [phase : {"temp", "copy"}, kind : Kinds, before : Seq(Entry)]

NoResp == [kind |-> "none"]

Resp == [kind : Kinds \cup {"refused"}, code : Codes]

Idle == call = NoCall

-----------------------------------------------------------------------------
(* Answers. *)

Answer(kind, code) == resp' = [kind |-> kind, code |-> code]

(* Faulty Outcome: the result of the save is not looked at. *)
OutcomeIgnored(kind, ok) == "success"

(* The code for a mutation that ended with ok = TRUE or FALSE. *)
Outcome(kind, ok) ==
  CASE kind = "setEmpty" -> "success"
    [] ok -> "success"
    [] kind = "delete" -> "deviceError"
    [] OTHER -> "nameTooLong"

(* BootService calls the store in the same process: the host hears nothing. *)
Return(kind, ok) ==
  IF kind = "bmc" THEN UNCHANGED resp ELSE Answer(kind, Outcome(kind, ok))

(* The name in a set request: the terminator is forced at position 31. *)
SetName(r) == IF r.name \in LongNames THEN Cut[r.name] ELSE r.name

-----------------------------------------------------------------------------
(* Mutations. *)

(* The list is changed, and saveAndNotify() is entered. *)
Mutate(kind, new) ==
  /\ Idle
  /\ entries' = new
  /\ call' = [phase |-> "temp", kind |-> kind, before |-> Loaded(file)]
  /\ resp' = NoResp
  /\ UNCHANGED <<file, lastSave>>

(* The call returns false before anything is changed. *)
Reject(kind) ==
  /\ Idle
  /\ Return(kind, FALSE)
  /\ UNCHANGED <<entries, file, call, lastSave, walk>>

(* Erasing an entry that the walk has read moves those it has not. *)
ShiftWalk(i) ==
  walk' = IF i <= walk.next THEN [walk EXCEPT !.shifted = TRUE] ELSE walk

DoSet(kind, n, d) ==
  \/ /\ Settable(entries, n, d)
     /\ Mutate(kind, Put(entries, n, d))
     /\ UNCHANGED walk
  \/ /\ ~Settable(entries, n, d)
     /\ Reject(kind)

DoDelete(kind, n) ==
  \/ /\ Has(entries, n)
     /\ Mutate(kind, Erase(entries, n))
     /\ ShiftWalk(IndexOf(entries, n))
  \/ /\ ~Has(entries, n)
     /\ Reject(kind)

DoDeleteAll ==
  /\ Mutate("deleteAll", <<>>)
  /\ ShiftWalk(1)

Refuse(code) ==
  /\ Idle
  /\ Answer("refused", code)
  /\ UNCHANGED <<entries, file, call, lastSave, walk>>

(* handleSetDeleteEv(): delete-all goes before delete, delete before set,   *)
(* and each has its own minimal payload.                                    *)
HostDeleteAll(r) ==
  /\ r.parts >= 1 /\ "deleteAll" \in r.flags
  /\ DoDeleteAll

HostDelete(r) ==
  /\ r.parts >= 2 /\ "deleteAll" \notin r.flags /\ "delete" \in r.flags
  /\ r.name \notin LongNames
  /\ DoDelete("delete", r.name)

IsSet(r) == r.parts >= 1 /\ r.flags = {"set"}

HostSet(r) ==
  /\ IsSet(r) /\ r.parts = 4
  /\ Size[r.data] \in 1..MaxData
  /\ DoSet("set", SetName(r), r.data)

HostSetEmpty(r) ==
  /\ IsSet(r) /\ r.parts >= 3
  /\ Size[r.data] = 0
  /\ DoDelete("setEmpty", SetName(r))

HostBadRequest(r) ==
  \/ /\ \/ r.parts < 1
        \/ r.parts < 2 /\ "deleteAll" \notin r.flags /\ "delete" \in r.flags
        \/ IsSet(r) /\ r.parts < 3
        \/ IsSet(r) /\ r.parts = 3 /\ Size[r.data] \in 1..MaxData
     /\ Refuse("noSuchEv")
  \/ /\ r.parts >= 2 /\ "deleteAll" \notin r.flags /\ "delete" \in r.flags
     /\ r.name \in LongNames
     /\ Refuse("nameTooLong")
  \/ /\ IsSet(r) /\ r.parts >= 3
     /\ Size[r.data] > MaxData
     /\ Refuse("dataTooLarge")
  \/ /\ r.parts >= 1 /\ r.flags = {}
     /\ Refuse("unsupported")

(* BootService: applyOneTime and applyPersistent set, clearOneTime deletes. *)
BmcSet(n, d) == Size[d] >= 2 /\ DoSet("bmc", n, d)

BmcDelete(n) == Has(entries, n) /\ DoDelete("bmc", n)

-----------------------------------------------------------------------------
(* save(). *)

(* Faulty Finish: a failed save is taken for a good one. *)
FinishForgetful(ok) ==
  /\ call' = NoCall
  /\ lastSave' = "ok"
  /\ Return(call.kind, ok)
  /\ UNCHANGED <<entries, walk>>

Finish(ok) ==
  /\ call' = NoCall
  /\ lastSave' = IF ok THEN "ok" ELSE "failed"
  /\ Return(call.kind, ok)
  /\ UNCHANGED <<entries, walk>>

(* mkstemp, open, write or flush on tmpfs fails, or evs.dat does not open. *)
SaveFails ==
  /\ call # NoCall /\ call.phase = "temp"
  /\ Finish(FALSE)
  /\ UNCHANGED file

(* Faulty OpenTarget: without O_TRUNC. *)
OpenTargetKeepsOld ==
  /\ call # NoCall /\ call.phase = "temp"
  /\ call' = [call EXCEPT !.phase = "copy"]
  /\ UNCHANGED <<entries, file, lastSave, resp, walk>>

(* copy_file opens the target with O_TRUNC ... *)
OpenTarget ==
  /\ call # NoCall /\ call.phase = "temp"
  /\ call' = [call EXCEPT !.phase = "copy"]
  /\ file' = NoFile
  /\ UNCHANGED <<entries, lastSave, resp, walk>>

(* ... and fills it from the front. *)
CopyHeader ==
  /\ call # NoCall /\ call.phase = "copy" /\ ~file.header
  /\ file' = FileOf(<<>>)
  /\ UNCHANGED <<entries, call, lastSave, resp, walk>>

CopyEntry ==
  /\ call # NoCall /\ call.phase = "copy" /\ file.header
  /\ Len(file.entries) < Len(entries)
  /\ file' = FileOf(SubSeq(entries, 1, Len(file.entries) + 1))
  /\ UNCHANGED <<entries, call, lastSave, resp, walk>>

Copied == call # NoCall /\ call.phase = "copy" /\ file = FileOf(entries)

(* The flash file system fills up, or gives an error: what was copied stays. *)
CopyFails ==
  /\ call # NoCall /\ call.phase = "copy"
  /\ ~Copied
  /\ Finish(FALSE)
  /\ UNCHANGED file

CopyDone ==
  /\ Copied
  /\ Finish(TRUE)
  /\ UNCHANGED file

(* The daemon dies at any point; systemd starts it again and load() runs.   *)
(* To the host the restart is not visible: its walk goes on.                *)
Restart ==
  /\ entries' = Loaded(file)
  /\ call' = NoCall
  /\ lastSave' = "none"
  /\ resp' = NoResp
  /\ ShiftWalk(0)
  /\ UNCHANGED file

-----------------------------------------------------------------------------
(* The host walks the store: get-by-index 0, 1, 2, ... until no such EV. *)

NewWalk == [next |-> 0, seen |-> {}, shifted |-> FALSE, done |-> FALSE]

EndedWalk == [NewWalk EXCEPT !.done = TRUE]

Walk == [next : Nat, seen : SUBSET Names, shifted : BOOLEAN, done : BOOLEAN]

StartWalk ==
  /\ Idle
  /\ walk' = NewWalk
  /\ resp' = NoResp
  /\ UNCHANGED <<entries, file, call, lastSave>>

(* getByIndex(): index counts from 0. *)
GetByIndex ==
  /\ Idle /\ ~walk.done
  /\ walk' = IF walk.next >= Len(entries)
             THEN EndedWalk
             ELSE [walk EXCEPT !.next = @ + 1,
                               !.seen = @ \cup {entries[walk.next + 1].name}]
  /\ resp' = NoResp
  /\ UNCHANGED <<entries, file, call, lastSave>>

-----------------------------------------------------------------------------
Init ==
  /\ entries = <<>>
  /\ file = NoFile
  /\ call = NoCall
  /\ lastSave = "none"
  /\ resp = NoResp
  /\ walk = NewWalk

HostRequest(r) ==
  \/ HostDeleteAll(r)
  \/ HostDelete(r)
  \/ HostSet(r)
  \/ HostSetEmpty(r)
  \/ HostBadRequest(r)

Saving ==
  \/ SaveFails
  \/ OpenTarget
  \/ CopyHeader
  \/ CopyEntry
  \/ CopyFails
  \/ CopyDone

Next ==
  \/ \E r \in Requests : HostRequest(r)
  \/ \E n \in BmcNames, d \in Data : BmcSet(n, d)
  \/ \E n \in BmcNames : BmcDelete(n)
  \/ Saving
  \/ Restart
  \/ StartWalk
  \/ GetByIndex

Spec == Init /\ [][Next]_vars

-----------------------------------------------------------------------------
(* The list, the file, the save under way and the walk have their types. *)
TypeOK ==
  /\ entries \in Seq(Entry)
  /\ file \in File
  /\ call \in Call \cup {NoCall}
  /\ lastSave \in {"none", "ok", "failed"}
  /\ resp \in Resp \cup {NoResp}
  /\ walk \in Walk

(* No name is ever stored twice, in memory or on disk.  load() does not      *)
(* look for duplicates and getByName() stops at the first, so a duplicate    *)
(* once written would shadow its twin for good, across every restart.        *)
UniqueStored == UniqueNames(entries) /\ UniqueNames(file.entries)

(* What set() lets in, load() lets in: the checks on the way into the list   *)
(* and the ones on the way back from the file agree, so that no file that    *)
(* was written to its end comes back shorter.                                *)
LoadRestores == Loaded(FileOf(entries)) = entries

(* While no save runs, memory is what the file says, unless the last save    *)
(* failed; and the host, told "success" for a change, has it in the file.    *)
(* With LoadRestores: it finds the change again after a restart.  (A set of  *)
(* length 0 is answered with success whatever became of it.)                 *)
AcknowledgedIsDurable ==
  Idle =>
    /\ lastSave = "ok" => file = FileOf(entries)
    /\ lastSave = "none" => Loaded(file) = entries
    /\ resp # NoResp /\ resp.code = "success" /\ resp.kind # "setEmpty"
         => lastSave = "ok"

(* A walk of the host that was told "no such EV" has read every entry of     *)
(* the store, whatever BootService added or updated between its requests,    *)
(* unless an entry it had read was erased (or the daemon restarted).         *)
WalkComplete ==
  [][walk'.done /\ ~walk.done /\ ~walk.shifted
       => {e.name : e \in Range(entries)} \subseteq walk.seen]_vars

(* A daemon that dies while it saves comes back with the store as it was     *)
(* before the mutation, or with a front part of the new list: entries are    *)
(* lost from the end, never reordered, and never mixed with older values.    *)
CrashLosesOnlyTail ==
  [][~Idle /\ call' = NoCall /\ lastSave' = "none"
       => IF call.phase = "temp"
          THEN entries' = call.before
          ELSE \E k \in 0..Len(entries) : entries' = SubSeq(entries, 1, k)]_vars

(* "All mutations persist to disk immediately via atomic write": whenever    *)
(* the daemon dies in a save, the restart finds the old list or the new one. *)
AtomicSave == ~Idle => Loaded(file) \in {call.before, entries}

(* The store seen from outside: a set of entries and what a restart finds.   *)
Map == INSTANCE DurableMap WITH
  view <- Range(entries),
  durable <- Range(Loaded(file)),
  synced <- Idle /\ lastSave # "failed"

(* The store implements the durable map: one entry changes at a time, and a  *)
(* save leaves nothing durable but entries of the list being saved.          *)
ImplementsMap == Map!Spec
=============================================================================

---------------------------- MODULE BootOverride ----------------------------
(***************************************************************************)
(* The boot override: class BootService of the CHIF daemon between         *)
(* phosphor-settings (what Redfish reads and writes) and the EV store      *)
(* (what the host's firmware reads and writes).                            *)
(*                                                                         *)
(* An override is a boot source or the mode "Setup", with a flag for "only *)
(* once".  The daemon mirrors it into the store: CQTBOOTNEXT for one boot, *)
(* or the head of CQHBOOTORDER for all.  The firmware deletes CQTBOOTNEXT  *)
(* when it has used it, and then the daemon resets the settings.           *)
(*                                                                         *)
(* The daemon is one thread, so each of its handlers runs to its end; but  *)
(* every D-Bus call in a handler is a step of its own, between which the   *)
(* client may write the settings.  PropertiesChanged signals queue up and  *)
(* are served when the daemon is idle, as are the host's requests.         *)
(*                                                                         *)
(* The store is the one EvStore implements: a change in memory, then a     *)
(* save that may fail and leave any part of the new contents on disk.      *)
(***************************************************************************)
EXTENDS Integers, Sequences, FiniteSets, Functions, SequencesExt

CONSTANTS
  Sources,      \* the boot sources other than "Default"
  Options,      \* boot option numbers (CQSBOOT####)
  NoOption,     \* std::nullopt
  Preferred,    \* Preferred[t]: the options whose name matches target t, best first
  OptionSets,   \* the sets of options the firmware publishes
  Orders,       \* the boot orders the firmware publishes
  Leftover,     \* what phosphor-settings may hold when the daemon first starts
  MaxWrites     \* bound on the client's property writes

Targets == Sources \cup {"Setup"}

ASSUME TargetsAssumption ==
  /\ "Default" \notin Sources /\ "Setup" \notin Sources
  /\ Preferred \in [Targets -> Seq(Options)]
  /\ Leftover \subseteq [source : Sources \cup {"Default"},
                          mode : {"Regular", "Setup"}, oneTime : BOOLEAN]
  /\ NoOption \notin Options
  /\ OptionSets \subseteq SUBSET Options
  /\ Orders \subseteq Seq(Options) \ {<<>>}
  /\ MaxWrites \in Nat

VARIABLES
  settings,   \* phosphor-settings: Boot.Source, Boot.Mode, one_time Enabled
  signals,    \* PropertiesChanged signals the daemon has not served
  ev,         \* the store in memory
  disk,       \* the store a restart would load
  at,         \* where the daemon is: "idle", or a step of a handler
  snap,       \* what the handler has read
  plan,       \* the one-time option the firmware has read and will use
  writes,     \* writes of the client so far
  faults,     \* the kinds of failure met so far
  hist        \* what happened since the client's last write, and to the order

vars == <<settings, signals, ev, disk, at, snap, plan, writes, faults, hist>>

Settings == [source : Sources \cup {"Default"}, mode : {"Regular", "Setup"},
             oneTime : BOOLEAN]

(* CQTBOOTNEXT, CQHBOOTORDER (<<>> when missing) and the CQSBOOT#### present. *)
IsStore(s) ==
  /\ s = [next |-> s.next, order |-> s.order, options |-> s.options]
  /\ s.next \in Options \cup {NoOption} /\ s.options \subseteq Options

EmptyStore == [next |-> NoOption, order |-> <<>>, options |-> {}]

ResetSteps == {"resetMode", "resetSource", "resetEnabled"}

Steps == ResetSteps \cup {"readEnabled", "readSource", "readMode", "clear", "persist",
          "setNext", "consumed"}

Snap == [oneTime : BOOLEAN, source : Sources \cup {"Default"},
         option : Options \cup {NoOption}]

NoSnap == [oneTime |-> FALSE, source |-> "Default", option |-> NoOption]

(* boots: one-time options consumed since the client's last write (2 is     *)
(* "more than one"); excused: that write fell into the firmware's use of an *)
(* option or into the reset of the settings, or the firmware has deleted    *)
(* all EVs since; orderly: so far the client enabled "once" before it chose *)
(* a target, and wrote only while the daemon was idle; touched: the         *)
(* firmware has changed the store since the last sync began.                *)
Hist == [boots : 0..2, excused : BOOLEAN, orderly : BOOLEAN, touched : BOOLEAN]

Idle == at = "idle"

-----------------------------------------------------------------------------
(* targetKeywords and matchOption: setup mode goes before the source; the   *)
(* keywords are tried in order, and only options in the store count.        *)
Resolve(source, mode, options) ==
  LET target == IF mode = "Setup" THEN "Setup" ELSE source
      found == IF target = "Default" THEN 0
               ELSE SelectInSeq(Preferred[target], LAMBDA o : o \in options)
  IN IF found = 0 THEN NoOption ELSE Preferred[target][found]

(* std::erase: the order without the option. *)
Others(order, option) ==
  LET kept[i \in 0..Len(order)] ==
        IF i = 0 THEN <<>>
        ELSE IF order[i] = option THEN kept[i - 1] ELSE Append(kept[i - 1], order[i])
  IN kept[Len(order)]

(* reorderBootOrder: the option moves to the front, or is added there. *)
Reorder(order, option) == <<option>> \o Others(order, option)

-----------------------------------------------------------------------------
(* The store. *)

Part(s) == [next : {s.next, NoOption}, order : {s.order, <<>>},
            options : SUBSET s.options]

(* Bound: each kind of failure once in a behaviour. *)
Fault(kind) == kind \notin faults /\ faults' = faults \cup {kind}

SaveOk(new) == ev' = new /\ disk' = new /\ UNCHANGED faults

(* The change stays in memory; on disk it may be missing or torn. *)
SaveFailed(new) ==
  /\ ev' = new
  /\ disk' \in {disk} \cup Part(new)
  /\ Fault("save")

(* set() finds no room, or the save fails: nothing but a log line follows. *)
Write(new) ==
  \/ SaveOk(new)
  \/ SaveFailed(new)
  \/ UNCHANGED <<ev, disk>> /\ Fault("save")

-----------------------------------------------------------------------------
(* The settings: a write that changes a property makes a signal. *)

(* Faulty Put: the match on the one-time object is missing. *)
PutUnheard(new) ==
  /\ settings' = new
  /\ signals' = IF [new EXCEPT !.oneTime = settings.oneTime] = settings
                THEN signals ELSE signals + 1

Put(new) ==
  /\ settings' = new
  /\ signals' = IF new = settings THEN signals ELSE signals + 1

(* A read that fails is logged, and its default taken instead. *)
Read(field, default) ==
  \/ snap' = [snap EXCEPT ![field] = settings[field]] /\ UNCHANGED faults
  \/ snap' = [snap EXCEPT ![field] = default] /\ Fault("bus")

-----------------------------------------------------------------------------
(* syncEffective(), entered from a signal or from the constructor. *)

Serve ==
  /\ Idle /\ signals > 0
  /\ signals' = signals - 1
  /\ at' = "readEnabled"
  /\ UNCHANGED <<settings, ev, disk, snap, plan, writes, faults, hist>>

ReadEnabled ==
  /\ at = "readEnabled" /\ at' = "readSource"
  /\ Read("oneTime", FALSE)
  /\ hist' = [hist EXCEPT !.touched = FALSE]
  /\ UNCHANGED <<settings, signals, ev, disk, plan, writes>>

ReadSource ==
  /\ at = "readSource" /\ at' = "readMode"
  /\ Read("source", "Default")
  /\ UNCHANGED <<settings, signals, ev, disk, plan, writes, hist>>

(* The last read; the option is resolved and the way to apply it chosen. *)
Decide(mode) ==
  LET option == Resolve(snap.source, mode, ev.options)
  IN /\ snap' = [snap EXCEPT !.option = option]
     /\ at' = IF option # NoOption /\ snap.oneTime THEN "setNext" ELSE "clear"

ReadMode ==
  /\ at = "readMode"
  /\ \/ Decide(settings.mode) /\ UNCHANGED faults
     \/ Decide("Regular") /\ Fault("bus")
  /\ UNCHANGED <<settings, signals, ev, disk, plan, writes, hist>>

Done == at' = "idle" /\ snap' = NoSnap

(* Faulty AfterClear: without applyingOverride_. *)
AfterClearHeard ==
  IF ev.next # NoOption /\ ev'.next = NoOption THEN at' = "consumed" /\ snap' = NoSnap
  ELSE IF snap.option = NoOption THEN at' = "idle" /\ snap' = NoSnap
  ELSE at' = "persist" /\ UNCHANGED snap

(* clearOneTime(): applyingOverride_ hides the erasure from onEvChanged().  *)
AfterClear == IF snap.option = NoOption THEN Done ELSE at' = "persist" /\ UNCHANGED snap

ClearOneTime ==
  /\ at = "clear"
  /\ IF ev.next = NoOption
     THEN UNCHANGED <<ev, disk, faults>>
     ELSE LET new == [ev EXCEPT !.next = NoOption]
          IN SaveOk(new) \/ SaveFailed(new)
  /\ AfterClear
  /\ UNCHANGED <<settings, signals, plan, writes, hist>>

(* applyPersistent(); the change callback ignores CQHBOOTORDER. *)
ApplyPersistent ==
  /\ at = "persist"
  /\ IF ev.order = <<>>
     THEN UNCHANGED <<ev, disk, faults>>
     ELSE Write([ev EXCEPT !.order = Reorder(@, snap.option)])
  /\ Done
  /\ UNCHANGED <<settings, signals, plan, writes, hist>>

(* applyOneTime(); the change callback finds CQTBOOTNEXT present. *)
ApplyOneTime ==
  /\ at = "setNext"
  /\ Write([ev EXCEPT !.next = snap.option])
  /\ Done
  /\ UNCHANGED <<settings, signals, plan, writes, hist>>

-----------------------------------------------------------------------------
(* Faulty OnEvChanged: deletions are not looked at. *)
OnEvChangedDeaf == at' = "idle"

(* onEvChanged(), entered when the firmware's erasure has been saved. *)

OnEvChanged ==
  at' = IF ev'.next = NoOption THEN "consumed" ELSE "idle"

(* Faulty Consumed: the flag for "once" is taken for granted. *)
ConsumedForgets ==
  /\ at = "consumed" /\ at' = "idle"
  /\ UNCHANGED <<settings, signals, ev, disk, snap, plan, writes, faults, hist>>

Consumed ==
  /\ at = "consumed"
  /\ \/ at' = (IF settings.oneTime THEN "resetMode" ELSE "idle") /\ UNCHANGED faults
     \/ at' = "idle" /\ Fault("bus")
  /\ UNCHANGED <<settings, signals, ev, disk, snap, plan, writes, hist>>

(* clearOverrideSettings(): three calls, whose failures nobody looks at. *)
Reset(new) ==
  /\ \/ Put(new) /\ UNCHANGED faults
     \/ UNCHANGED <<settings, signals>> /\ Fault("bus")
  /\ UNCHANGED <<ev, disk, snap, plan, writes, hist>>

(* Faulty reset: "once" is taken back first. *)
ResetModeAndOnce ==
  /\ at = "resetMode" /\ at' = "resetSource"
  /\ Reset([settings EXCEPT !.mode = "Regular", !.oneTime = FALSE])

ResetMode ==
  /\ at = "resetMode" /\ at' = "resetSource"
  /\ Reset([settings EXCEPT !.mode = "Regular"])

ResetSource ==
  /\ at = "resetSource" /\ at' = "resetEnabled"
  /\ Reset([settings EXCEPT !.source = "Default"])

ResetEnabled ==
  /\ at = "resetEnabled" /\ at' = "idle"
  /\ Reset([settings EXCEPT !.oneTime = FALSE])

-----------------------------------------------------------------------------
(* The firmware's requests, each one handler of the daemon. *)

(* A save that ended well is followed by the change callbacks. *)
HostChange(new, callback) ==
  \/ SaveOk(new) /\ callback
  \/ SaveFailed(new) /\ at' = "idle"

HostSets(new) ==
  /\ Idle /\ new # ev
  /\ HostChange(new, at' = "idle")
  /\ hist' = [hist EXCEPT !.touched = TRUE]
  /\ UNCHANGED <<settings, signals, snap, plan, writes>>

HostPublishOptions(S) == HostSets([ev EXCEPT !.options = S])

HostPublishOrder(order) == HostSets([ev EXCEPT !.order = order])

HostReadNext ==
  /\ Idle
  /\ plan' = ev.next
  /\ UNCHANGED <<settings, signals, ev, disk, at, snap, writes, faults, hist>>

(* The firmware has used the option it read and deletes CQTBOOTNEXT. *)
HostConsume ==
  /\ Idle /\ plan # NoOption
  /\ plan' = NoOption
  /\ IF ev.next = NoOption
     THEN UNCHANGED <<ev, disk, at, faults, hist>>
     ELSE /\ HostChange([ev EXCEPT !.next = NoOption], OnEvChanged)
          /\ hist' = [hist EXCEPT !.touched = TRUE,
                                  !.boots = IF @ = 2 THEN 2 ELSE @ + 1]
  /\ UNCHANGED <<settings, signals, snap, writes>>

(* Delete-all, as a reset of the NVRAM does; the callback gets no name. *)
HostWipe ==
  /\ Idle
  /\ HostChange(EmptyStore, OnEvChanged)
  /\ hist' = [hist EXCEPT !.touched = TRUE, !.excused = TRUE]
  /\ UNCHANGED <<settings, signals, snap, plan, writes>>

-----------------------------------------------------------------------------
(* Settings that, taken as they are, do not ask for a persistent override. *)
Orderly(st) == st.oneTime \/ (st.source = "Default" /\ st.mode = "Regular")

(* A client of phosphor-settings writes one property at a time. *)

ClientWrites(new) ==
  /\ writes < MaxWrites /\ new # settings
  /\ writes' = writes + 1
  /\ Put(new)
  /\ hist' = [hist EXCEPT
       !.boots = 0,
       !.excused = plan # NoOption \/ at \in {"consumed"} \cup ResetSteps,
       !.orderly = @ /\ Idle /\ Orderly(new)]
  /\ UNCHANGED <<ev, disk, at, snap, plan, faults>>

Client ==
  \/ \E v \in Sources \cup {"Default"} : ClientWrites([settings EXCEPT !.source = v])
  \/ \E v \in {"Regular", "Setup"} : ClientWrites([settings EXCEPT !.mode = v])
  \/ \E v \in BOOLEAN : ClientWrites([settings EXCEPT !.oneTime = v])

-----------------------------------------------------------------------------
(* The daemon stops between two handlers, or dies in one, and is started    *)
(* again: the store is loaded, queued signals are gone, and the constructor *)
(* runs syncEffective().                                                    *)
Restart ==
  /\ ev' = disk
  /\ signals' = 0
  /\ at' = "readEnabled"
  /\ snap' = NoSnap
  /\ IF Idle THEN UNCHANGED faults ELSE Fault("crash")
  /\ UNCHANGED <<settings, disk, plan, writes, hist>>

-----------------------------------------------------------------------------
Init ==
  /\ settings \in Leftover
  /\ signals = 0
  /\ ev = EmptyStore
  /\ disk = EmptyStore
  /\ at = "readEnabled"
  /\ snap = NoSnap
  /\ plan = NoOption
  /\ writes = 0
  /\ faults = {}
  /\ hist = [boots |-> 0, excused |-> FALSE, orderly |-> Orderly(settings),
             touched |-> FALSE]

Handler ==
  \/ ReadEnabled \/ ReadSource \/ ReadMode
  \/ ClearOneTime \/ ApplyPersistent \/ ApplyOneTime
  \/ Consumed \/ ResetMode \/ ResetSource \/ ResetEnabled

Host ==
  \/ \E S \in OptionSets : HostPublishOptions(S)
  \/ \E order \in Orders : HostPublishOrder(order)
  \/ HostReadNext
  \/ HostConsume
  \/ HostWipe

Next == Serve \/ Handler \/ Host \/ Client \/ Restart

(* Nothing is assumed of the host, the client or failures; a handler that   *)
(* was entered runs on, since a D-Bus call returns or times out.            *)
Spec == Init /\ [][Next]_vars /\ WF_vars(Handler)

-----------------------------------------------------------------------------
(* The settings, the two option stores and the daemon have their types. *)
TypeOK ==
  /\ settings \in Settings
  /\ signals \in Nat
  /\ IsStore(ev) /\ IsStore(disk)
  /\ at \in Steps \cup {"idle"}
  /\ snap \in Snap
  /\ plan \in Options \cup {NoOption}
  /\ writes \in 0..MaxWrites
  /\ faults \subseteq {"bus", "save", "crash"}
  /\ hist \in Hist

(* The store says what the settings say. *)
InEffect ==
  LET option == Resolve(settings.source, settings.mode, ev.options)
  IN /\ ev.next = IF settings.oneTime THEN option ELSE NoOption
     /\ option # NoOption /\ ~settings.oneTime /\ ev.order # <<>>
          => Head(ev.order) = option

(* Once the daemon has served every signal, the store mirrors the settings,  *)
(* in memory and on disk, however the client's writes fell between the three *)
(* reads of a sync: a torn read is always followed by another sync.  Not so  *)
(* after a failed call or save, which nobody repeats, nor after the firmware *)
(* has changed the options, which starts no sync.                            *)
SettledMeansApplied ==
  Idle /\ signals = 0 /\ faults \subseteq {"crash"} /\ ~hist.touched
    => InEffect /\ disk = ev

(* A one-time override is used once: without a failure, the firmware does    *)
(* not find CQTBOOTNEXT a second time unless the client has written again,   *)
(* whatever signals and restarts of the idle daemon come in between.         *)
NoSecondOneTimeBoot == faults = {} => hist.boots <= 1

(* Only the firmware ends a one-time override.  The daemon's own erasures of *)
(* CQTBOOTNEXT are not taken for its consumption: the settings are reset     *)
(* only if the firmware consumed an option or wiped the store since the      *)
(* client's last write, or that write fell into the firmware's use of the    *)
(* old option or into the reset itself.                                      *)
ResetOnlyWhenUsed ==
  at \in ResetSteps => hist.boots > 0 \/ hist.excused

(* A one-time override does not become a persistent one: if the client sets  *)
(* "once" before the target and does not write into a running sync, then     *)
(* the daemon leaves CQHBOOTORDER alone, even if it dies half-way through    *)
(* the reset of the settings and starts again from what is left of them, or  *)
(* cannot save.  (A failed D-Bus call does make it persistent.)              *)
OneTimeNeverPersists ==
  hist.orderly /\ "bus" \notin faults => at # "persist"

(* A consumed one-time override is reported as consumed: Redfish shows it    *)
(* disabled again, unless the client has written since or something failed.  *)
ConsumedIsReconciled ==
  (at = "consumed" /\ faults = {})
    ~> (~settings.oneTime \/ hist.boots = 0 \/ faults # {})
=============================================================================

----------------------------- MODULE CmosReset ------------------------------
(***************************************************************************)
(* The CMOS reset service of platform-init: a Reset method that powers the *)
(* host off, erases its NVRAM, removes the EV file of the CHIF daemon,     *)
(* restarts that daemon, and powers the host on again if it was running.   *)
(*                                                                         *)
(* Each call is a coroutine of one thread, and nothing keeps a second call *)
(* from starting while the first waits for the host.  A D-Bus property is  *)
(* read by a request and an answer: the coroutine goes on with the answer  *)
(* later, when the host may be in another state.  The platform function    *)
(* itself awaits nothing, so no other coroutine runs during it; the host,  *)
(* the CHIF daemon and systemd do.                                         *)
(*                                                                         *)
(* The host, its firmware, x86-power-control and systemd are external.  Of *)
(* the NVRAM, of evs.dat and of the daemon's memory the model keeps        *)
(* whether the settings from before the reset are in it.                   *)
(***************************************************************************)
EXTENDS Integers, FiniteSets

CONSTANTS
  Requests,   \* the calls of Reset: a bound on them
  Tries,      \* HOST_STATE_TRANSITION_TIMEOUT, one try each second (60)
  MaxUser,    \* bound on the power requests of other clients
  MaxFaults   \* bound on failing steps, host crashes and deaths of the service

ASSUME ConstantsAssumption ==
  /\ IsFiniteSet(Requests)
  /\ Tries \in Nat \ {0}
  /\ MaxUser \in Nat /\ MaxFaults \in Nat

VARIABLES
  host,      \* the host's power, what was asked of it, its firmware's settings
  nvram,     \* /dev/mtd/host-reserved
  evs,       \* /var/lib/chif/evs.dat
  chif,      \* the EVs in the CHIF daemon's memory, and its restart job
  call,      \* the coroutine of each call of Reset
  hist,      \* history: what makes a reset not do all it should
  wasOn,     \* history: the host was running at first
  budget     \* power requests and faults left

vars == <<host, nvram, evs, chif, call, hist, wasOn, budget>>

Powers == {"Off", "Running", "Other"}   \* CurrentHostState

Host == [power : Powers, asked : {"none", "On", "Off"}, settings : {"old", "default"}]

Phases == {"new", "state", "askOff", "waitOff", "erase", "remove", "restart",
           "askOn", "waitOn", "ok", "bad", "succeeded", "failed", "lost"}

Call == [at : Phases, seen : Powers \cup {"none"}, restore : BOOLEAN, tries : 0..Tries-1]

NotCalled == [at |-> "new", seen |-> "none", restore |-> FALSE, tries |-> 0]

Dead == [at |-> "lost", seen |-> "none", restore |-> FALSE, tries |-> 0]

InFlight(r) == call[r].at \notin {"new", "succeeded", "failed", "lost"}

(* The platform function runs, with ActivationBlocksTransition on D-Bus. *)
TransitionsBlocked == \E r \in Requests : call[r].at \in {"erase", "remove", "restart"}

Fault == budget.faults > 0 /\ budget' = [budget EXCEPT !.faults = @ - 1]

-----------------------------------------------------------------------------
(* The host and x86-power-control. *)

PowerOff ==
  /\ host.asked = "Off"
  /\ host' = [host EXCEPT !.power = "Off", !.asked = "none"]
  /\ UNCHANGED <<nvram, evs, chif, call, hist, wasOn, budget>>

(* Firmware that finds its NVRAM erased starts with the defaults. *)
PowerOn ==
  /\ host.asked = "On"
  /\ IF host.power = "Off"
     THEN /\ host' = [power |-> "Running", asked |-> "none",
                      settings |-> IF nvram = "old" THEN "old" ELSE "default"]
          /\ nvram' = IF nvram = "erased" THEN "default" ELSE nvram
     ELSE host' = [host EXCEPT !.asked = "none"] /\ UNCHANGED nvram
  /\ UNCHANGED <<evs, chif, call, hist, wasOn, budget>>

FirmwareSaves ==
  /\ host.power = "Running"
  /\ nvram' = host.settings
  /\ UNCHANGED <<host, evs, chif, call, hist, wasOn, budget>>

HostCrash ==
  /\ host.power = "Running" /\ Fault
  /\ host' = [host EXCEPT !.power = "Other"]
  /\ hist' = hist \cup {"crash"}
  /\ UNCHANGED <<nvram, evs, chif, call, wasOn>>

UserAsks(transition) ==
  /\ ~TransitionsBlocked
  /\ budget.user > 0 /\ budget' = [budget EXCEPT !.user = @ - 1]
  /\ host' = [host EXCEPT !.asked = transition]
  /\ hist' = hist \cup {"user"}
  /\ UNCHANGED <<nvram, evs, chif, call, wasOn>>

-----------------------------------------------------------------------------
(* The CHIF daemon and systemd. *)

(* EvStorage::save(): the whole list in memory becomes the file, after any   *)
(* change by the host or by BootService.                                     *)
ChifSave ==
  /\ evs' = chif.mem
  /\ hist' = IF evs = "none" /\ chif.mem = "old" THEN hist \cup {"savedBetween"} ELSE hist
  /\ UNCHANGED <<host, nvram, chif, call, wasOn, budget>>

(* EvStorage::load(): without a file the daemon starts with no EVs. *)
ChifRestart ==
  /\ chif.job
  /\ chif' = [mem |-> IF evs = "old" THEN "old" ELSE "clean", job |-> FALSE]
  /\ UNCHANGED <<host, nvram, evs, call, hist, wasOn, budget>>

-----------------------------------------------------------------------------
(* The coroutines. *)

At(r, phase) == call[r].at = phase /\ (phase \in {"erase", "remove", "restart"} \/ ~TransitionsBlocked)

Becomes(r, at, seen, restore, tries) ==
  call' = [call EXCEPT ![r] = [at |-> at, seen |-> seen, restore |-> restore, tries |-> tries]]

GoTo(r, phase) == Becomes(r, phase, call[r].seen, call[r].restore, call[r].tries)

(* method_call(reset_t): the coroutine is spawned, whatever else is running. *)
ResetCall(r) ==
  /\ At(r, "new")
  /\ GoTo(r, "state")
  /\ hist' = IF \E q \in Requests : InFlight(q) THEN hist \cup {"overlap"} ELSE hist
  /\ UNCHANGED <<host, nvram, evs, chif, wasOn, budget>>

(* CurrentHostState is read: the answer leaves x86-power-control. *)
Answer(r) ==
  /\ call[r].at \in {"state", "waitOff", "waitOn"} /\ call[r].seen = "none"
  /\ Becomes(r, call[r].at, host.power, call[r].restore, call[r].tries)
  /\ UNCHANGED <<host, nvram, evs, chif, hist, wasOn, budget>>

(* doReset() with the answer of getState(). *)
GetState(r) ==
  /\ At(r, "state") /\ call[r].seen # "none"
  /\ \E phase \in Phases :
       /\ \/ call[r].seen = "Off" /\ phase = "erase"
          \/ call[r].seen = "Running" /\ phase = "askOff"
          \/ call[r].seen = "Other" /\ phase = "bad"
       /\ Becomes(r, phase, "none", call[r].restore, call[r].tries)
  /\ UNCHANGED <<host, nvram, evs, chif, hist, wasOn, budget>>

(* setState(): the transition is requested. *)
Ask(r, phase, transition, next) ==
  /\ At(r, phase)
  /\ host' = [host EXCEPT !.asked = transition]
  /\ Becomes(r, next, call[r].seen, call[r].restore, 0)
  /\ UNCHANGED <<nvram, evs, chif, hist, wasOn, budget>>

Seen(r, power, next) ==
  /\ call[r].seen = power
  /\ Becomes(r, next, "none", call[r].restore \/ power = "Off", 0)

TryAgain(r, phase) == Becomes(r, phase, "none", call[r].restore, call[r].tries + 1)

(* Faulty Poll: the last try counts as the state reached. *)
PollLastIsGood(r, phase, power, next) ==
  /\ At(r, phase) /\ call[r].seen # "none"
  /\ \/ Seen(r, power, next)
     \/ /\ call[r].seen # power
        /\ IF call[r].tries + 1 = Tries
           THEN Becomes(r, next, "none", call[r].restore \/ power = "Off", 0)
           ELSE TryAgain(r, phase)
  /\ UNCHANGED <<host, nvram, evs, chif, hist, wasOn, budget>>

(* Faulty Poll: the tries are not counted. *)
PollForever(r, phase, power, next) ==
  /\ At(r, phase) /\ call[r].seen # "none"
  /\ \/ Seen(r, power, next)
     \/ call[r].seen # power /\ Becomes(r, phase, "none", call[r].restore, 0)
  /\ UNCHANGED <<host, nvram, evs, chif, hist, wasOn, budget>>

(* setState(): the state is polled once a second until it is the wanted one. *)
(* A host that has been powered off here is to be powered on again.          *)
Poll(r, phase, power, next) ==
  /\ At(r, phase) /\ call[r].seen # "none"
  /\ \/ Seen(r, power, next)
     \/ /\ call[r].seen # power
        /\ IF call[r].tries + 1 = Tries
           THEN Becomes(r, "bad", "none", call[r].restore, 0)
           ELSE TryAgain(r, phase)
  /\ UNCHANGED <<host, nvram, evs, chif, hist, wasOn, budget>>

-----------------------------------------------------------------------------
(* gxp_cmos_reset(). *)

(* flash_eraseall succeeds; or it cannot be started; or it ends with an      *)
(* error, which makes the status of system() positive and is not noticed.    *)
Erase(r) ==
  /\ At(r, "erase")
  /\ \/ /\ nvram' = "erased"
        /\ GoTo(r, "remove")
        /\ UNCHANGED <<hist, budget>>
     \/ /\ Fault
        /\ GoTo(r, "bad")
        /\ UNCHANGED <<nvram, hist>>
     \/ /\ Fault
        /\ GoTo(r, "remove")
        /\ hist' = hist \cup {"eraseFailed"}
        /\ UNCHANGED nvram
  /\ UNCHANGED <<host, evs, chif, wasOn>>

(* A file that is not there is as good as a removed one. *)
Remove(r) ==
  /\ At(r, "remove")
  /\ \/ /\ evs' = "none"
        /\ GoTo(r, "restart")
        /\ UNCHANGED budget
     \/ /\ Fault
        /\ GoTo(r, "bad")
        /\ UNCHANGED evs
  /\ UNCHANGED <<host, nvram, chif, hist, wasOn>>

(* Faulty AfterReset: the host is left as it is. *)
AfterResetStay(r) == "ok"

AfterReset(r) == IF call[r].restore THEN "askOn" ELSE "ok"

(* Faulty Restart: the daemon is left running. *)
RestartSkipped(r) ==
  /\ At(r, "restart")
  /\ GoTo(r, AfterReset(r))
  /\ UNCHANGED <<host, nvram, evs, chif, hist, wasOn, budget>>

(* RestartUnit is sent without a reply: systemd queues the job. *)
Restart(r) ==
  /\ At(r, "restart")
  /\ \/ /\ chif' = [chif EXCEPT !.job = TRUE]
        /\ GoTo(r, AfterReset(r))
        /\ UNCHANGED budget
     \/ /\ Fault
        /\ GoTo(r, "bad")
        /\ UNCHANGED chif
  /\ UNCHANGED <<host, nvram, evs, hist, wasOn>>

(* startReset(): the event that says how it went. *)
Commit(r) ==
  /\ \/ At(r, "ok") /\ GoTo(r, "succeeded")
     \/ At(r, "bad") /\ GoTo(r, "failed")
  /\ UNCHANGED <<host, nvram, evs, chif, hist, wasOn, budget>>

(* An error of a D-Bus call is an exception that no coroutine catches: the   *)
(* process ends, and systemd starts another, which knows of no call.         *)
ServiceDies ==
  /\ Fault
  /\ \E r \in Requests : InFlight(r)
  /\ call' = [r \in Requests |-> IF InFlight(r) THEN Dead ELSE call[r]]
  /\ UNCHANGED <<host, nvram, evs, chif, hist, wasOn>>

-----------------------------------------------------------------------------
Init ==
  /\ \E power \in {"Off", "Running"} :
       /\ host = [power |-> power, asked |-> "none", settings |-> "old"]
       /\ wasOn = (power = "Running")
  /\ nvram = "old" /\ evs = "old"
  /\ chif = [mem |-> "old", job |-> FALSE]
  /\ call = [r \in Requests |-> NotCalled]
  /\ hist = {}
  /\ budget = [user |-> MaxUser, faults |-> MaxFaults]

External ==
  \/ PowerOff \/ PowerOn \/ FirmwareSaves \/ HostCrash
  \/ \E transition \in {"On", "Off"} : UserAsks(transition)
  \/ ChifSave \/ ChifRestart

Coroutine(r) ==
  \/ Answer(r) \/ GetState(r)
  \/ Ask(r, "askOff", "Off", "waitOff")
  \/ Poll(r, "waitOff", "Off", "erase")
  \/ Erase(r) \/ Remove(r) \/ Restart(r)
  \/ Ask(r, "askOn", "On", "waitOn")
  \/ Poll(r, "waitOn", "Running", "ok")
  \/ Commit(r)

Next ==
  \/ External
  \/ \E r \in Requests : ResetCall(r) \/ Coroutine(r)
  \/ ServiceDies

(* The service's event loop runs what is ready, and D-Bus reads are answered.*)
(* Nothing is assumed of the host: it may never change its state.            *)
Spec == Init /\ [][Next]_vars /\ \A r \in Requests : WF_vars(Coroutine(r))

-----------------------------------------------------------------------------
(* The host, the files, the daemon and the calls have their types. *)
TypeOK ==
  /\ host \in Host
  /\ nvram \in {"old", "erased", "default"}
  /\ evs \in {"old", "clean", "none"}
  /\ chif \in [mem : {"old", "clean"}, job : BOOLEAN]
  /\ call \in [Requests -> Call]
  /\ hist \subseteq {"user", "overlap", "crash", "eraseFailed", "savedBetween"}
  /\ wasOn \in BOOLEAN
  /\ budget \in [user : 0..MaxUser, faults : 0..MaxFaults]

(* When a reset has been reported as a success, the old settings are gone    *)
(* from the NVRAM, from evs.dat and from the daemon, which may still have to *)
(* be restarted, and nothing brings them back; except if flash_eraseall      *)
(* failed unnoticed, if the old daemon saved once more between the removal   *)
(* of its file and its restart, or if another client powered the host on.    *)
SuccessClears ==
  /\ \E r \in Requests : call[r].at = "succeeded"
  /\ hist \cap {"eraseFailed", "savedBetween", "user"} = {}
  => /\ nvram # "old" /\ evs # "old"
     /\ chif.mem = "old" => chif.job

(* Step 6 of the flow: when all calls have ended with success, even calls    *)
(* that overlapped, the host is powered as it was before the first, unless   *)
(* it crashed or another client asked for something else.                    *)
RestoredAtTheEnd ==
  /\ \A r \in Requests : call[r].at \in {"new", "succeeded"}
  /\ hist \cap {"user", "crash"} = {}
  => wasOn <=> (host.power = "Running" /\ host.asked # "Off")

(* The NVRAM is erased only while the host is off, though the coroutine goes *)
(* by an answer that is out of date: unless calls overlapped, an earlier one *)
(* failed with its power request still pending, or another client asked.     *)
Alone(r) ==
  /\ hist \cap {"user", "overlap"} = {}
  /\ \A q \in Requests \ {r} : call[q].at \in {"new", "succeeded"}

ErasedWhileOff ==
  [][ \A r \in Requests :
        call[r].at = "erase" /\ call'[r].at = "remove" /\ Alone(r) => host.power = "Off" ]_vars

(* Every call of Reset ends: with an event, or with the service.             *)
EveryCallEnds == \A r \in Requests : InFlight(r) ~> ~InFlight(r)
=============================================================================

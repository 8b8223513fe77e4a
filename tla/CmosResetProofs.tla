-------------------------- MODULE CmosResetProofs ---------------------------
(***************************************************************************)
(* What holds of the CMOS reset for any number of calls, however many      *)
(* tries a call has, and whatever fails.                                   *)
(***************************************************************************)
EXTENDS CmosReset, TLAPS

-----------------------------------------------------------------------------
(* The invariant, in four parts that do not need each other. *)

PastErase == {"remove", "restart", "askOn", "waitOn", "ok", "succeeded"}
PastRemove == PastErase \ {"remove"}
PastRestart == PastRemove \ {"restart"}

(* Until the first erasure nobody powers the host on, so a call that has     *)
(* seen it off erases while it is off; after it no firmware runs with the    *)
(* old settings.                                                             *)
Nvram ==
  hist \cap {"user", "eraseFailed"} = {} =>
    IF nvram = "old"
    THEN /\ host.asked # "On"
         /\ \A r \in Requests :
              /\ call[r].at \notin PastErase
              /\ call[r].seen = "Off" \/ call[r].at = "erase" => host.power = "Off"
    ELSE host.power = "Running" => host.settings # "old"

(* The daemon's file does not come back once it is removed. *)
Evs ==
  /\ evs = "clean" => chif.mem = "clean"
  /\ "savedBetween" \notin hist =>
       \A r \in Requests :
         /\ call[r].at \in PastRemove => evs # "old"
         /\ call[r].at \in PastRestart => chif.mem = "clean" \/ chif.job

(* The call has asked for the host to be off, and has still to ask for it to *)
(* be on.                                                                    *)
HoldsOff(r) ==
  \/ call[r].at \in {"waitOff", "askOn"}
  \/ call[r].at \in {"erase", "remove", "restart"} /\ call[r].restore

(* A call polls for the host to run, and has not seen it. *)
Awaits(r) == call[r].at = "waitOn" /\ call[r].seen # "Running"

(* A host that ran is powered on again when no call holds it off; one that   *)
(* did not is left alone.                                                    *)
Power ==
  hist \cap {"user", "crash"} = {} =>
    /\ host.power # "Other"
    /\ wasOn /\ (\A r \in Requests : call[r].at \notin {"bad", "failed", "lost"} /\ ~HoldsOff(r))
         => /\ host.asked # "Off"
            /\ \/ host.power = "Running"
               \/ host.asked = "On" /\ \E r \in Requests : Awaits(r)
    /\ ~wasOn =>
         /\ host.power = "Off" /\ host.asked = "none"
         /\ \A r \in Requests :
              /\ call[r].at \notin {"askOff", "waitOff", "askOn", "waitOn"}
              /\ ~call[r].restore /\ call[r].seen # "Running"

(* An answer is held only while it is waited for. *)
Answers ==
  \A r \in Requests : call[r].seen # "none" => call[r].at \in {"state", "waitOff", "waitOn"}

(* Calls run one at a time if none overlapped. *)
OneAtATime ==
  "overlap" \notin hist => \A q, r \in Requests : InFlight(q) /\ InFlight(r) => q = r

(* What a call that is alone knows of the host. *)
Knows(r) ==
  LET c == call[r] IN
  /\ c.at \in {"new", "succeeded", "ok", "state", "askOff"} => host.asked = "none"
  /\ c.at = "state" => /\ c.seen = "Off" => host.power = "Off"
                       /\ c.seen = "Running" => host.power # "Off"
  /\ c.at = "askOff" => host.power # "Off"
  /\ c.at = "waitOff" => \/ host.asked = "Off" /\ host.power # "Off" /\ c.seen # "Off"
                         \/ host.asked = "none" /\ host.power = "Off"
  /\ c.at \in {"erase", "remove", "restart", "askOn"} => host.asked = "none" /\ host.power = "Off"
  /\ c.at = "waitOn" => \/ host.asked = "On" /\ host.power = "Off" /\ c.seen # "Running"
                        \/ host.asked = "none" /\ host.power # "Off"

AloneKnows == \A r \in Requests : Alone(r) => Knows(r)

IInv == TypeOK /\ Answers /\ Nvram /\ Evs /\ Power /\ OneAtATime /\ AloneKnows

-----------------------------------------------------------------------------
(* Types. *)

LEMMA FaultType ==
  ASSUME budget \in [user : 0..MaxUser, faults : 0..MaxFaults], Fault
  PROVE  budget' \in [user : 0..MaxUser, faults : 0..MaxFaults]
BY ConstantsAssumption DEF Fault

LEMMA UserType ==
  ASSUME budget \in [user : 0..MaxUser, faults : 0..MaxFaults],
         budget.user > 0, budget' = [budget EXCEPT !.user = @ - 1]
  PROVE  budget' \in [user : 0..MaxUser, faults : 0..MaxFaults]
BY ConstantsAssumption

(* A coroutine's step changes its own call only, to these values. *)
Effect(r, at, seen, restore) ==
  /\ call' \in [Requests -> Call]
  /\ \A q \in Requests \ {r} : call'[q] = call[q]
  /\ call'[r].at = at /\ call'[r].seen = seen /\ call'[r].restore = restore

LEMMA CallType ==
  ASSUME TypeOK, NEW r \in Requests
  PROVE  /\ call[r].at \in Phases /\ call[r].seen \in Powers \cup {"none"}
         /\ call[r].restore \in BOOLEAN /\ call[r].tries \in 0..Tries-1
BY DEF TypeOK, Call

LEMMA BecomesEffect ==
  ASSUME TypeOK, NEW r \in Requests, NEW at \in Phases, NEW seen \in Powers \cup {"none"},
         NEW restore \in BOOLEAN, NEW tries \in 0..Tries-1, Becomes(r, at, seen, restore, tries)
  PROVE  Effect(r, at, seen, restore)
<1> DEFINE c == [at |-> at, seen |-> seen, restore |-> restore, tries |-> tries]
<1>1. c \in Call
  BY DEF Call
<1>2. call' = [call EXCEPT ![r] = c]
  BY DEF Becomes
<1> QED
  BY <1>1, <1>2 DEF TypeOK, Effect

LEMMA GoToEffect ==
  ASSUME TypeOK, NEW r \in Requests, NEW phase \in Phases, GoTo(r, phase)
  PROVE  Effect(r, phase, call[r].seen, call[r].restore)
BY CallType, BecomesEffect DEF GoTo

LEMMA AnswerEffect ==
  ASSUME TypeOK, NEW r \in Requests, Answer(r)
  PROVE  Effect(r, call[r].at, host.power, call[r].restore)
<1>1. host.power \in Powers \cup {"none"}
  BY DEF TypeOK, Host
<1> QED
  BY <1>1, CallType, BecomesEffect DEF Answer

LEMMA GetStateEffect ==
  ASSUME TypeOK, NEW r \in Requests, GetState(r)
  PROVE  \/ call[r].seen = "Off" /\ Effect(r, "erase", "none", call[r].restore)
         \/ call[r].seen = "Running" /\ Effect(r, "askOff", "none", call[r].restore)
         \/ call[r].seen = "Other" /\ Effect(r, "bad", "none", call[r].restore)
<1>1. PICK phase \in Phases :
        /\ \/ call[r].seen = "Off" /\ phase = "erase"
           \/ call[r].seen = "Running" /\ phase = "askOff"
           \/ call[r].seen = "Other" /\ phase = "bad"
        /\ Becomes(r, phase, "none", call[r].restore, call[r].tries)
  BY DEF GetState
<1>2. Effect(r, phase, "none", call[r].restore)
  BY <1>1, CallType, BecomesEffect
<1> QED
  BY <1>1, <1>2

LEMMA AskEffect ==
  ASSUME TypeOK, NEW r \in Requests, NEW phase, NEW transition, NEW next \in Phases,
         Ask(r, phase, transition, next)
  PROVE  Effect(r, next, call[r].seen, call[r].restore)
<1>1. 0 \in 0..Tries-1
  BY ConstantsAssumption
<1> QED
  BY <1>1, CallType, BecomesEffect DEF Ask

LEMMA PollEffect ==
  ASSUME TypeOK, NEW r \in Requests, NEW phase \in Phases, NEW power, NEW next \in Phases,
         Poll(r, phase, power, next)
  PROVE  \/ call[r].seen = power /\ Effect(r, next, "none", call[r].restore \/ power = "Off")
         \/ call[r].seen # power /\ Effect(r, "bad", "none", call[r].restore)
         \/ call[r].seen # power /\ Effect(r, phase, "none", call[r].restore)
<1>1. 0 \in 0..Tries-1 /\ (call[r].restore \/ power = "Off") \in BOOLEAN
  BY ConstantsAssumption
<1>2. CASE Seen(r, power, next)
  BY <1>1, <1>2, BecomesEffect DEF Seen
<1>3. CASE call[r].seen # power /\ Becomes(r, "bad", "none", call[r].restore, 0)
  BY <1>1, <1>3, CallType, BecomesEffect DEF Phases
<1>4. CASE call[r].seen # power /\ call[r].tries + 1 # Tries /\ TryAgain(r, phase)
  <2>1. call[r].tries + 1 \in 0..Tries-1
    BY <1>4, CallType, ConstantsAssumption
  <2> QED
    BY <1>4, <2>1, CallType, BecomesEffect DEF TryAgain
<1> QED
  BY <1>2, <1>3, <1>4 DEF Poll

(* The four steps that wait for the host, spelled out. *)
LEMMA AskOffEffect ==
  ASSUME TypeOK, NEW r \in Requests, Ask(r, "askOff", "Off", "waitOff")
  PROVE  /\ call[r].at = "askOff" /\ Effect(r, "waitOff", call[r].seen, call[r].restore)
         /\ host'.power = host.power /\ host'.asked = "Off" /\ host'.settings = host.settings
         /\ UNCHANGED <<nvram, evs, chif, hist, wasOn, budget>>
<1>1. "waitOff" \in Phases
  BY DEF Phases
<1>2. Effect(r, "waitOff", call[r].seen, call[r].restore)
  BY <1>1, AskEffect
<1> QED
  BY <1>2 DEF Ask, At, TypeOK, Host

LEMMA AskOnEffect ==
  ASSUME TypeOK, NEW r \in Requests, Ask(r, "askOn", "On", "waitOn")
  PROVE  /\ call[r].at = "askOn" /\ Effect(r, "waitOn", call[r].seen, call[r].restore)
         /\ host'.power = host.power /\ host'.asked = "On" /\ host'.settings = host.settings
         /\ UNCHANGED <<nvram, evs, chif, hist, wasOn, budget>>
<1>1. "waitOn" \in Phases
  BY DEF Phases
<1>2. Effect(r, "waitOn", call[r].seen, call[r].restore)
  BY <1>1, AskEffect
<1> QED
  BY <1>2 DEF Ask, At, TypeOK, Host

LEMMA PollOffEffect ==
  ASSUME TypeOK, NEW r \in Requests, Poll(r, "waitOff", "Off", "erase")
  PROVE  /\ call[r].at = "waitOff"
         /\ \/ call[r].seen = "Off" /\ Effect(r, "erase", "none", TRUE)
            \/ Effect(r, "bad", "none", call[r].restore)
            \/ Effect(r, "waitOff", "none", call[r].restore)
         /\ UNCHANGED <<host, nvram, evs, chif, hist, wasOn, budget>>
<1>1. {"waitOff", "erase"} \subseteq Phases /\ (call[r].restore \/ "Off" = "Off") = TRUE
  BY DEF Phases
<1>2. \/ call[r].seen = "Off" /\ Effect(r, "erase", "none", call[r].restore \/ "Off" = "Off")
      \/ Effect(r, "bad", "none", call[r].restore)
      \/ Effect(r, "waitOff", "none", call[r].restore)
  BY <1>1, PollEffect
<1>3. call[r].at = "waitOff" /\ UNCHANGED <<host, nvram, evs, chif, hist, wasOn, budget>>
  BY DEF Poll, At
<1> QED
  BY <1>1, <1>2, <1>3

LEMMA PollOnEffect ==
  ASSUME TypeOK, NEW r \in Requests, Poll(r, "waitOn", "Running", "ok")
  PROVE  /\ call[r].at = "waitOn"
         /\ \/ call[r].seen = "Running" /\ Effect(r, "ok", "none", call[r].restore)
            \/ Effect(r, "bad", "none", call[r].restore)
            \/ call[r].seen # "Running" /\ Effect(r, "waitOn", "none", call[r].restore)
         /\ UNCHANGED <<host, nvram, evs, chif, hist, wasOn, budget>>
<1>1. /\ {"waitOn", "ok"} \subseteq Phases
      /\ (call[r].restore \/ "Running" = "Off") = call[r].restore
  BY CallType DEF Phases
<1>2. \/ call[r].seen = "Running" /\ Effect(r, "ok", "none", call[r].restore \/ "Running" = "Off")
      \/ Effect(r, "bad", "none", call[r].restore)
      \/ call[r].seen # "Running" /\ Effect(r, "waitOn", "none", call[r].restore)
  BY <1>1, PollEffect
<1>3. call[r].at = "waitOn" /\ UNCHANGED <<host, nvram, evs, chif, hist, wasOn, budget>>
  BY DEF Poll, At
<1> QED
  BY <1>1, <1>2, <1>3

LEMMA DiesEffect ==
  ASSUME TypeOK, ServiceDies
  PROVE  /\ call' \in [Requests -> Call]
         /\ \A q \in Requests : call'[q] = IF InFlight(q) THEN Dead ELSE call[q]
<1>1. Dead \in Call
  BY ConstantsAssumption DEF Dead, Call, Phases
<1> QED
  BY <1>1 DEF ServiceDies, TypeOK

LEMMA TypeKept == ASSUME TypeOK, [Next]_vars PROVE TypeOK'
<1> USE DEF TypeOK
<1>1. CASE PowerOff
  BY <1>1 DEF PowerOff, Host, Powers
<1>2. CASE PowerOn
  BY <1>2 DEF PowerOn, Host, Powers
<1>3. CASE FirmwareSaves
  BY <1>3 DEF FirmwareSaves, Host
<1>4. CASE HostCrash
  BY <1>4, FaultType DEF HostCrash, Host, Powers
<1>5. ASSUME NEW transition \in {"On", "Off"}, UserAsks(transition) PROVE TypeOK'
  BY <1>5, UserType DEF UserAsks, Host
<1>6. CASE ChifSave
  BY <1>6 DEF ChifSave
<1>7. CASE ChifRestart
  BY <1>7 DEF ChifRestart
<1>8. ASSUME NEW r \in Requests, ResetCall(r) PROVE TypeOK'
  BY <1>8, GoToEffect DEF ResetCall, Effect, Phases
<1>9. ASSUME NEW r \in Requests, Coroutine(r) PROVE TypeOK'
  <2> USE DEF Effect
  <2>1. CASE Answer(r)
    BY <2>1, AnswerEffect DEF Answer
  <2>2. CASE GetState(r)
    BY <2>2, GetStateEffect DEF GetState
  <2>3. ASSUME NEW phase, NEW transition \in {"On", "Off"}, NEW next \in Phases,
               Ask(r, phase, transition, next)
        PROVE  TypeOK'
    BY <2>3, AskEffect DEF Ask, Host
  <2>4. ASSUME NEW phase \in Phases, NEW power, NEW next \in Phases,
               Poll(r, phase, power, next)
        PROVE  TypeOK'
    BY <2>4, PollEffect DEF Poll
  <2>5. CASE Erase(r)
    BY <2>5, GoToEffect, FaultType DEF Erase, Phases
  <2>6. CASE Remove(r)
    BY <2>6, GoToEffect, FaultType DEF Remove, Phases
  <2>7. CASE Restart(r)
    <3>1. AfterReset(r) \in Phases /\ chif' \in [mem : {"old", "clean"}, job : BOOLEAN]
      BY <2>7 DEF Restart, AfterReset, Phases
    <3> QED
      BY <2>7, <3>1, GoToEffect, FaultType DEF Restart, Phases
  <2>8. CASE Commit(r)
    BY <2>8, GoToEffect DEF Commit, Phases
  <2> QED
    BY <1>9, <2>1, <2>2, <2>3, <2>4, <2>5, <2>6, <2>7, <2>8 DEF Coroutine, Phases
<1>10. CASE ServiceDies
  BY <1>10, FaultType, DiesEffect DEF ServiceDies
<1>11. CASE UNCHANGED vars
  BY <1>11 DEF vars
<1> QED
  BY <1>1, <1>2, <1>3, <1>4, <1>5, <1>6, <1>7, <1>8, <1>9, <1>10, <1>11 DEF Next, External

-----------------------------------------------------------------------------
(* Steps keep the parts. *)

(* An answer is taken before the call goes on. *)
LEMMA AnswersKept ==
  ASSUME TypeOK, Answers, [Next]_vars, TypeOK'
  PROVE  Answers'
<1> USE DEF Answers
<1>1. CASE PowerOff
  BY <1>1 DEF PowerOff, TypeOK, Host, Powers
<1>2. CASE PowerOn
  BY <1>2 DEF PowerOn, TypeOK, Host, Powers
<1>3. CASE FirmwareSaves
  BY <1>3 DEF FirmwareSaves, TypeOK, Host, Powers
<1>4. CASE HostCrash
  BY <1>4 DEF HostCrash, TypeOK, Host, Powers
<1>5. ASSUME NEW transition \in {"On", "Off"}, UserAsks(transition) PROVE Answers'
  BY <1>5 DEF UserAsks
<1>6. CASE ChifSave
  BY <1>6 DEF ChifSave, TypeOK
<1>7. CASE ChifRestart
  BY <1>7 DEF ChifRestart, TypeOK
<1>8. ASSUME NEW r \in Requests, ResetCall(r) PROVE Answers'
  BY <1>8, GoToEffect DEF ResetCall, At, Effect, Answers, InFlight, Phases
<1>9. ASSUME NEW r \in Requests, Coroutine(r) PROVE Answers'
  <2> USE DEF Effect, At, Answers
  <2>1. CASE Answer(r)
    BY <2>1, AnswerEffect DEF Answer
  <2>2. CASE GetState(r)
    BY <2>2, GetStateEffect DEF GetState
  <2>3. CASE Ask(r, "askOff", "Off", "waitOff")
    BY <2>3, AskOffEffect
  <2>4. CASE Poll(r, "waitOff", "Off", "erase")
    BY <2>4, PollOffEffect
  <2>5. CASE Erase(r)
    BY <2>5, GoToEffect DEF Erase, Phases
  <2>6. CASE Remove(r)
    BY <2>6, GoToEffect DEF Remove, Phases
  <2>7. CASE Restart(r)
    BY <2>7, GoToEffect DEF Restart, AfterReset, Phases, TypeOK
  <2>8. CASE Ask(r, "askOn", "On", "waitOn")
    BY <2>8, AskOnEffect
  <2>9. CASE Poll(r, "waitOn", "Running", "ok")
    BY <2>9, PollOnEffect
  <2>10. CASE Commit(r)
    BY <2>10, GoToEffect DEF Commit, Phases
  <2> QED
    BY <1>9, <2>1, <2>2, <2>3, <2>4, <2>5, <2>6, <2>7, <2>8, <2>9, <2>10 DEF Coroutine
<1>10. CASE ServiceDies
  BY <1>10, DiesEffect DEF ServiceDies, Dead, InFlight
<1>11. CASE UNCHANGED vars
  BY <1>11 DEF vars
<1> QED
  BY <1>1, <1>2, <1>3, <1>4, <1>5, <1>6, <1>7, <1>8, <1>9, <1>10, <1>11 DEF Next, External

(* What Nvram rests on: a host that is off and not asked on stays off. *)
LEMMA NvramKept ==
  ASSUME TypeOK, Answers, Nvram, [Next]_vars, TypeOK'
  PROVE  Nvram'
<1> USE DEF Nvram, PastErase
<1>1. CASE PowerOff
  BY <1>1 DEF PowerOff, TypeOK, Host, Powers
<1>2. CASE PowerOn
  BY <1>2 DEF PowerOn, TypeOK, Host, Powers
<1>3. CASE FirmwareSaves
  BY <1>3 DEF FirmwareSaves, TypeOK, Host, Powers
<1>4. CASE HostCrash
  BY <1>4 DEF HostCrash, TypeOK, Host, Powers
<1>5. ASSUME NEW transition \in {"On", "Off"}, UserAsks(transition) PROVE Nvram'
  BY <1>5 DEF UserAsks
<1>6. CASE ChifSave
  BY <1>6 DEF ChifSave, TypeOK
<1>7. CASE ChifRestart
  BY <1>7 DEF ChifRestart, TypeOK
<1>8. ASSUME NEW r \in Requests, ResetCall(r) PROVE Nvram'
  BY <1>8, GoToEffect DEF ResetCall, At, Effect, Answers, InFlight, Phases
<1>9. ASSUME NEW r \in Requests, Coroutine(r) PROVE Nvram'
  <2> USE DEF Effect, At, Answers
  <2>1. CASE Answer(r)
    BY <2>1, AnswerEffect DEF Answer
  <2>2. CASE GetState(r)
    BY <2>2, GetStateEffect DEF GetState
  <2>3. CASE Ask(r, "askOff", "Off", "waitOff")
    BY <2>3, AskOffEffect
  <2>4. CASE Poll(r, "waitOff", "Off", "erase")
    <3>1. ASSUME NEW at \in {"erase", "bad", "waitOff"}, NEW restore,
                 Effect(r, at, "none", restore), at = "erase" => call[r].seen = "Off"
          PROVE  Nvram'
      <4>1. UNCHANGED <<host, nvram, hist>> /\ call[r].at = "waitOff"
        BY <2>4, PollOffEffect
      <4>2. ASSUME NEW q \in Requests, hist \cap {"user", "eraseFailed"} = {}, nvram = "old"
            PROVE  /\ call'[q].at \notin PastErase
                   /\ call'[q].seen = "Off" \/ call'[q].at = "erase" => host.power = "Off"
        BY <3>1, <4>1, <4>2
      <4> QED
        BY <4>1, <4>2
    <3> QED
      BY <2>4, <3>1, PollOffEffect
  <2>5. CASE Erase(r)
    BY <2>5, GoToEffect DEF Erase, Phases
  <2>6. CASE Remove(r)
    BY <2>6, GoToEffect DEF Remove, Phases
  <2>7. CASE Restart(r)
    BY <2>7, GoToEffect DEF Restart, AfterReset, Phases, TypeOK
  <2>8. CASE Ask(r, "askOn", "On", "waitOn")
    BY <2>8, AskOnEffect
  <2>9. CASE Poll(r, "waitOn", "Running", "ok")
    BY <2>9, PollOnEffect
  <2>10. CASE Commit(r)
    BY <2>10, GoToEffect DEF Commit, Phases
  <2> QED
    BY <1>9, <2>1, <2>2, <2>3, <2>4, <2>5, <2>6, <2>7, <2>8, <2>9, <2>10 DEF Coroutine
<1>10. CASE ServiceDies
  BY <1>10, DiesEffect DEF ServiceDies, Dead, InFlight
<1>11. CASE UNCHANGED vars
  BY <1>11 DEF vars
<1> QED
  BY <1>1, <1>2, <1>3, <1>4, <1>5, <1>6, <1>7, <1>8, <1>9, <1>10, <1>11 DEF Next, External

(* The file and the daemon's memory. *)
LEMMA EvsKept ==
  ASSUME TypeOK, Answers, Evs, [Next]_vars, TypeOK'
  PROVE  Evs'
<1> USE DEF Evs, PastRestart, PastRemove, PastErase
<1>1. CASE PowerOff
  BY <1>1 DEF PowerOff, TypeOK, Host, Powers
<1>2. CASE PowerOn
  BY <1>2 DEF PowerOn, TypeOK, Host, Powers
<1>3. CASE FirmwareSaves
  BY <1>3 DEF FirmwareSaves, TypeOK, Host, Powers
<1>4. CASE HostCrash
  BY <1>4 DEF HostCrash, TypeOK, Host, Powers
<1>5. ASSUME NEW transition \in {"On", "Off"}, UserAsks(transition) PROVE Evs'
  BY <1>5 DEF UserAsks
<1>6. CASE ChifSave
  BY <1>6 DEF ChifSave, TypeOK
<1>7. CASE ChifRestart
  BY <1>7 DEF ChifRestart, TypeOK
<1>8. ASSUME NEW r \in Requests, ResetCall(r) PROVE Evs'
  BY <1>8, GoToEffect DEF ResetCall, At, Effect, Answers, InFlight, Phases
<1>9. ASSUME NEW r \in Requests, Coroutine(r) PROVE Evs'
  <2> USE DEF Effect, At, Answers
  <2>1. CASE Answer(r)
    BY <2>1, AnswerEffect DEF Answer
  <2>2. CASE GetState(r)
    BY <2>2, GetStateEffect DEF GetState
  <2>3. CASE Ask(r, "askOff", "Off", "waitOff")
    BY <2>3, AskOffEffect
  <2>4. CASE Poll(r, "waitOff", "Off", "erase")
    BY <2>4, PollOffEffect
  <2>5. CASE Erase(r)
    BY <2>5, GoToEffect DEF Erase, Phases
  <2>6. CASE Remove(r)
    BY <2>6, GoToEffect DEF Remove, Phases
  <2>7. CASE Restart(r)
    BY <2>7, GoToEffect DEF Restart, AfterReset, Phases, TypeOK
  <2>8. CASE Ask(r, "askOn", "On", "waitOn")
    BY <2>8, AskOnEffect
  <2>9. CASE Poll(r, "waitOn", "Running", "ok")
    BY <2>9, PollOnEffect
  <2>10. CASE Commit(r)
    BY <2>10, GoToEffect DEF Commit, Phases
  <2> QED
    BY <1>9, <2>1, <2>2, <2>3, <2>4, <2>5, <2>6, <2>7, <2>8, <2>9, <2>10 DEF Coroutine
<1>10. CASE ServiceDies
  BY <1>10, DiesEffect DEF ServiceDies, Dead, InFlight
<1>11. CASE UNCHANGED vars
  BY <1>11 DEF vars
<1> QED
  BY <1>1, <1>2, <1>3, <1>4, <1>5, <1>6, <1>7, <1>8, <1>9, <1>10, <1>11 DEF Next, External

(* Who asks the host off, asks it on. *)
LEMMA PowerKept ==
  ASSUME TypeOK, Answers, Power, [Next]_vars, TypeOK'
  PROVE  Power'
<1> USE DEF Power, HoldsOff, Awaits
<1>1. CASE PowerOff
  BY <1>1 DEF PowerOff, TypeOK, Host, Powers
<1>2. CASE PowerOn
  BY <1>2 DEF PowerOn, TypeOK, Host, Powers
<1>3. CASE FirmwareSaves
  BY <1>3 DEF FirmwareSaves, TypeOK, Host, Powers
<1>4. CASE HostCrash
  BY <1>4 DEF HostCrash, TypeOK, Host, Powers
<1>5. ASSUME NEW transition \in {"On", "Off"}, UserAsks(transition) PROVE Power'
  BY <1>5 DEF UserAsks
<1>6. CASE ChifSave
  BY <1>6 DEF ChifSave, TypeOK
<1>7. CASE ChifRestart
  BY <1>7 DEF ChifRestart, TypeOK
<1>8. ASSUME NEW r \in Requests, ResetCall(r) PROVE Power'
  BY <1>8, GoToEffect DEF ResetCall, At, Effect, Answers, InFlight, Phases
<1>9. ASSUME NEW r \in Requests, Coroutine(r) PROVE Power'
  <2> USE DEF Effect, At, Answers
  <2>1. CASE Answer(r)
    BY <2>1, AnswerEffect DEF Answer
  <2>2. CASE GetState(r)
    BY <2>2, GetStateEffect DEF GetState
  <2>3. CASE Ask(r, "askOff", "Off", "waitOff")
    BY <2>3, AskOffEffect
  <2>4. CASE Poll(r, "waitOff", "Off", "erase")
    BY <2>4, PollOffEffect
  <2>5. CASE Erase(r)
    BY <2>5, GoToEffect DEF Erase, Phases
  <2>6. CASE Remove(r)
    BY <2>6, GoToEffect DEF Remove, Phases
  <2>7. CASE Restart(r)
    BY <2>7, GoToEffect DEF Restart, AfterReset, Phases, TypeOK
  <2>8. CASE Ask(r, "askOn", "On", "waitOn")
    BY <2>8, AskOnEffect
  <2>9. CASE Poll(r, "waitOn", "Running", "ok")
    BY <2>9, PollOnEffect
  <2>10. CASE Commit(r)
    BY <2>10, GoToEffect DEF Commit, Phases
  <2> QED
    BY <1>9, <2>1, <2>2, <2>3, <2>4, <2>5, <2>6, <2>7, <2>8, <2>9, <2>10 DEF Coroutine
<1>10. CASE ServiceDies
  BY <1>10, DiesEffect DEF ServiceDies, Dead, InFlight
<1>11. CASE UNCHANGED vars
  BY <1>11 DEF vars
<1> QED
  BY <1>1, <1>2, <1>3, <1>4, <1>5, <1>6, <1>7, <1>8, <1>9, <1>10, <1>11 DEF Next, External

(* Only ResetCall starts a call, and it takes note of the others. *)
LEMMA OneAtATimeKept ==
  ASSUME TypeOK, Answers, OneAtATime, [Next]_vars, TypeOK'
  PROVE  OneAtATime'
<1> USE DEF OneAtATime, InFlight
<1>1. CASE PowerOff
  BY <1>1 DEF PowerOff, TypeOK, Host, Powers
<1>2. CASE PowerOn
  BY <1>2 DEF PowerOn, TypeOK, Host, Powers
<1>3. CASE FirmwareSaves
  BY <1>3 DEF FirmwareSaves, TypeOK, Host, Powers
<1>4. CASE HostCrash
  BY <1>4 DEF HostCrash, TypeOK, Host, Powers
<1>5. ASSUME NEW transition \in {"On", "Off"}, UserAsks(transition) PROVE OneAtATime'
  BY <1>5 DEF UserAsks
<1>6. CASE ChifSave
  BY <1>6 DEF ChifSave, TypeOK
<1>7. CASE ChifRestart
  BY <1>7 DEF ChifRestart, TypeOK
<1>8. ASSUME NEW r \in Requests, ResetCall(r) PROVE OneAtATime'
  BY <1>8, GoToEffect DEF ResetCall, At, Effect, Answers, InFlight, Phases
<1>9. ASSUME NEW r \in Requests, Coroutine(r) PROVE OneAtATime'
  <2> USE DEF Effect, At, Answers
  <2>1. CASE Answer(r)
    BY <2>1, AnswerEffect DEF Answer
  <2>2. CASE GetState(r)
    BY <2>2, GetStateEffect DEF GetState
  <2>3. CASE Ask(r, "askOff", "Off", "waitOff")
    BY <2>3, AskOffEffect
  <2>4. CASE Poll(r, "waitOff", "Off", "erase")
    <3>1. ASSUME NEW at \in {"erase", "bad", "waitOff"}, NEW restore,
                 Effect(r, at, "none", restore), at = "erase" => call[r].seen = "Off"
          PROVE  OneAtATime'
      <4>1. UNCHANGED <<host, hist>> /\ call[r].at = "waitOff"
        BY <2>4, PollOffEffect
      <4> QED
        BY <3>1, <4>1
    <3> QED
      BY <2>4, <3>1, PollOffEffect
  <2>5. CASE Erase(r)
    BY <2>5, GoToEffect DEF Erase, Phases
  <2>6. CASE Remove(r)
    BY <2>6, GoToEffect DEF Remove, Phases
  <2>7. CASE Restart(r)
    BY <2>7, GoToEffect DEF Restart, AfterReset, Phases, TypeOK
  <2>8. CASE Ask(r, "askOn", "On", "waitOn")
    BY <2>8, AskOnEffect
  <2>9. CASE Poll(r, "waitOn", "Running", "ok")
    BY <2>9, PollOnEffect
  <2>10. CASE Commit(r)
    BY <2>10, GoToEffect DEF Commit, Phases
  <2> QED
    BY <1>9, <2>1, <2>2, <2>3, <2>4, <2>5, <2>6, <2>7, <2>8, <2>9, <2>10 DEF Coroutine
<1>10. CASE ServiceDies
  BY <1>10, DiesEffect DEF ServiceDies, Dead, InFlight
<1>11. CASE UNCHANGED vars
  BY <1>11 DEF vars
<1> QED
  BY <1>1, <1>2, <1>3, <1>4, <1>5, <1>6, <1>7, <1>8, <1>9, <1>10, <1>11 DEF Next, External

(* A call that is alone follows the host. *)
LEMMA AloneKnowsKept ==
  ASSUME TypeOK, Answers, OneAtATime, AloneKnows, [Next]_vars, TypeOK'
  PROVE  AloneKnows'
<1> USE DEF AloneKnows, Alone, Knows
<1>1. CASE PowerOff
  BY <1>1 DEF PowerOff, TypeOK, Host, Powers
<1>2. CASE PowerOn
  BY <1>2 DEF PowerOn, TypeOK, Host, Powers
<1>3. CASE FirmwareSaves
  BY <1>3 DEF FirmwareSaves, TypeOK, Host, Powers
<1>4. CASE HostCrash
  BY <1>4 DEF HostCrash, TypeOK, Host, Powers
<1>5. ASSUME NEW transition \in {"On", "Off"}, UserAsks(transition) PROVE AloneKnows'
  BY <1>5 DEF UserAsks
<1>6. CASE ChifSave
  BY <1>6 DEF ChifSave, TypeOK
<1>7. CASE ChifRestart
  BY <1>7 DEF ChifRestart, TypeOK
<1>8. ASSUME NEW r \in Requests, ResetCall(r) PROVE AloneKnows'
  BY <1>8, GoToEffect DEF ResetCall, At, Effect, Answers, InFlight, Phases
<1>9. ASSUME NEW r \in Requests, Coroutine(r) PROVE AloneKnows'
  <2> USE DEF Effect, At, Answers
  <2>1. CASE Answer(r)
    BY <2>1, AnswerEffect DEF Answer
  <2>2. CASE GetState(r)
    BY <2>2, GetStateEffect DEF GetState
  <2>3. CASE Ask(r, "askOff", "Off", "waitOff")
    BY <2>3, AskOffEffect
  <2>4. CASE Poll(r, "waitOff", "Off", "erase")
    <3>1. ASSUME NEW at \in {"erase", "bad", "waitOff"}, NEW restore,
                 Effect(r, at, "none", restore), at = "erase" => call[r].seen = "Off"
          PROVE  AloneKnows'
      <4>1. UNCHANGED <<host, hist>> /\ call[r].at = "waitOff"
        BY <2>4, PollOffEffect
      <4> QED
        BY <3>1, <4>1
    <3> QED
      BY <2>4, <3>1, PollOffEffect
  <2>5. CASE Erase(r)
    BY <2>5, GoToEffect DEF Erase, Phases
  <2>6. CASE Remove(r)
    BY <2>6, GoToEffect DEF Remove, Phases
  <2>7. CASE Restart(r)
    BY <2>7, GoToEffect DEF Restart, AfterReset, Phases, TypeOK
  <2>8. CASE Ask(r, "askOn", "On", "waitOn")
    BY <2>8, AskOnEffect
  <2>9. CASE Poll(r, "waitOn", "Running", "ok")
    BY <2>9, PollOnEffect
  <2>10. CASE Commit(r)
    <3>1. \/ call[r].at = "ok" /\ Effect(r, "succeeded", call[r].seen, call[r].restore)
          \/ call[r].at = "bad" /\ Effect(r, "failed", call[r].seen, call[r].restore)
      BY <2>10, GoToEffect DEF Commit, Phases
    <3>2. UNCHANGED <<host, hist>>
      BY <2>10 DEF Commit
    <3>3. ASSUME NEW q \in Requests, Alone(q)' PROVE Knows(q)'
      <4>1. CASE q = r
        BY <3>1, <3>2, <3>3, <4>1
      <4>2. CASE q # r
        <5>1. call[r].at = "ok" /\ "overlap" \notin hist /\ call'[q] = call[q]
          BY <3>1, <3>2, <3>3, <4>2
        <5>2. ~InFlight(q)
          BY <4>2, <5>1 DEF OneAtATime, InFlight
        <5>3. call[q].at \in {"new", "succeeded"} => Alone(r)
          BY <3>1, <3>2, <3>3, <4>2, <5>1
        <5> QED
          BY <3>1, <3>2, <4>2, <5>1, <5>2, <5>3 DEF InFlight
      <4> QED
        BY <4>1, <4>2
    <3> QED
      BY <3>3
  <2> QED
    BY <1>9, <2>1, <2>2, <2>3, <2>4, <2>5, <2>6, <2>7, <2>8, <2>9, <2>10 DEF Coroutine
<1>10. CASE ServiceDies
  BY <1>10, DiesEffect DEF ServiceDies, Dead, InFlight
<1>11. CASE UNCHANGED vars
  BY <1>11 DEF vars
<1> QED
  BY <1>1, <1>2, <1>3, <1>4, <1>5, <1>6, <1>7, <1>8, <1>9, <1>10, <1>11 DEF Next, External

LEMMA InitHolds == Init => IInv
<1> SUFFICES ASSUME Init PROVE IInv
  OBVIOUS
<1>1. NotCalled \in Call
  BY ConstantsAssumption DEF NotCalled, Call, Phases
<1>2. \A r \in Requests : call[r].at = "new" /\ call[r].seen = "none" /\ ~call[r].restore
  BY DEF Init, NotCalled
<1>3. TypeOK
  BY <1>1, ConstantsAssumption DEF Init, TypeOK, Host, Powers
<1>4. Answers /\ Evs /\ OneAtATime /\ AloneKnows
  BY <1>2 DEF Init, Answers, Evs, PastRestart, PastRemove, PastErase, OneAtATime, InFlight,
              AloneKnows, Knows
<1>5. Nvram
  BY <1>2 DEF Init, Nvram, PastErase
<1>6. Power
  <2>1. PICK power \in {"Off", "Running"} :
          /\ host = [power |-> power, asked |-> "none", settings |-> "old"]
          /\ wasOn = (power = "Running")
    BY DEF Init
  <2>2. CASE power = "Off"
    BY <1>2, <2>1, <2>2 DEF Power
  <2>3. CASE power = "Running"
    BY <1>2, <2>1, <2>3 DEF Power
  <2> QED
    BY <2>2, <2>3
<1> QED
  BY <1>3, <1>4, <1>5, <1>6 DEF IInv

LEMMA StepHolds == IInv /\ [Next]_vars => IInv'
BY TypeKept, AnswersKept, NvramKept, EvsKept, PowerKept, OneAtATimeKept, AloneKnowsKept DEF IInv

-----------------------------------------------------------------------------
(* The results. *)

(* The inductive invariant of the service, the host and the CHIF daemon.     *)
THEOREM Invariant == Spec => []IInv
<1> QED
  BY InitHolds, StepHolds, PTL DEF Spec

(* The host, the files, the daemon and the calls keep their types.           *)
THEOREM TypeCorrect == Spec => []TypeOK
<1>1. IInv => TypeOK
  BY DEF IInv
<1> QED
  BY <1>1, Invariant, PTL

(* A reset that has reported success has cleared the NVRAM, the file and the *)
(* daemon, up to the named exceptions.                                       *)
THEOREM ClearedOnSuccess == Spec => []SuccessClears
<1>1. IInv => SuccessClears
  BY DEF IInv, TypeOK, Nvram, Evs, SuccessClears, PastErase, PastRemove, PastRestart
<1> QED
  BY <1>1, Invariant, PTL

(* Calls that all succeed leave the host powered as the first one found it.  *)
THEOREM PowerRestored == Spec => []RestoredAtTheEnd
<1>1. IInv => RestoredAtTheEnd
  BY DEF IInv, TypeOK, Power, HoldsOff, Awaits, RestoredAtTheEnd
<1> QED
  BY <1>1, Invariant, PTL

(* A call that is alone erases the NVRAM while the host is off.              *)
THEOREM ErasesWhileOff == Spec => ErasedWhileOff
<1>1. IInv /\ [Next]_vars =>
        [ \A r \in Requests :
            call[r].at = "erase" /\ call'[r].at = "remove" /\ Alone(r) => host.power = "Off" ]_vars
  BY DEF IInv, AloneKnows, Knows
<1> QED
  BY <1>1, Invariant, PTL DEF Spec, ErasedWhileOff
=============================================================================

------------------------- MODULE BootOverrideProofs -------------------------
(***************************************************************************)
(* What holds of the boot override for every set of boot sources, options, *)
(* preferences and orders, and any number of client writes.                *)
(***************************************************************************)
EXTENDS BootOverride, WellFoundedInduction, TLAPS

-----------------------------------------------------------------------------
(* The invariant, in parts that do not need each other. *)

Resetting == {"consumed"} \cup ResetSteps

(* The daemon deals with a consumption only if there was one. *)
Used == at \in Resetting => hist.boots > 0 \/ hist.excused

(* Once an option is consumed, "once" stays set only until the settings are  *)
(* reset, no sync has read it, and CQTBOOTNEXT is gone.                      *)
Spent ==
  faults = {} =>
    /\ ev = disk
    /\ hist.boots \in {0, 1}
    /\ at \in Resetting \cup {"idle"} => ~snap.oneTime
    /\ hist.boots = 1 =>
         /\ ev.next = NoOption /\ ~snap.oneTime /\ at # "setNext"
         /\ settings.oneTime => at \in Resetting

(* An orderly client's settings ask for no persistent override, at any step  *)
(* of the reset either, and what a sync has read of them is what they are.   *)
Orderliness ==
  hist.orderly /\ "bus" \notin faults =>
    /\ Orderly(settings)
    /\ at # "persist"
    /\ at \in {"readSource", "readMode"} => (snap.oneTime <=> settings.oneTime)
    /\ at = "readMode" => snap.source = settings.source
    /\ at = "clear" => snap.option = NoOption
    /\ at \in {"resetSource", "resetEnabled"} => settings.mode = "Regular"
    /\ at = "resetEnabled" => settings.source = "Default"

(* Until something fails that nobody repeats, memory and disk agree; and     *)
(* while no signal waits, what a sync has read and resolved is what the      *)
(* settings say, the reset only runs after a change of the firmware's, and a *)
(* daemon at rest has put the settings into effect.                          *)
Mirror ==
  /\ at \in Resetting => hist.touched
  /\ at = "persist" => snap.option # NoOption
  /\ faults \subseteq {"crash"} =>
       /\ ev = disk /\ ev.order \in Seq(Options)
       /\ signals = 0 =>
            /\ at \in {"readSource", "readMode"} => (snap.oneTime <=> settings.oneTime)
            /\ at = "readMode" => snap.source = settings.source
            /\ at \in {"setNext", "clear", "persist"}
                 => snap.option = Resolve(settings.source, settings.mode, ev.options)
            /\ at = "setNext" => settings.oneTime
            /\ at = "clear" /\ snap.option # NoOption => ~settings.oneTime
            /\ at = "persist" => ~settings.oneTime /\ ev.next = NoOption
            /\ Idle /\ ~hist.touched => InEffect

IInv == TypeOK /\ Used /\ Spent /\ Orderliness /\ Mirror

-----------------------------------------------------------------------------
(* What steps do to the parts of the state. *)

(* The least of some numbers is one of them. *)
LEMMA MinOf ==
  ASSUME NEW S \in SUBSET Nat, S # {}
  PROVE  Min(S) \in S /\ \A y \in S : Min(S) <= y
<1>1. PICK m \in S : \A y \in S : ~ (<<y, m>> \in OpToRel(<, Nat))
  BY NatLessThanWellFounded, WFMin
<1>2. \A y \in S : ~ (y < m)
  BY <1>1 DEF OpToRel
<1>3. \A y \in S : m <= y
  BY <1>2
<1> QED
  BY <1>3 DEF Min

LEMMA ResolveType ==
  ASSUME NEW source \in Sources \cup {"Default"}, NEW mode \in {"Regular", "Setup"}, NEW options
  PROVE  /\ Resolve(source, mode, options) \in Options \cup {NoOption}
         /\ source = "Default" /\ mode = "Regular" => Resolve(source, mode, options) = NoOption
<1> DEFINE target == IF mode = "Setup" THEN "Setup" ELSE source
           I == {i \in 1..Len(Preferred[target]) : Preferred[target][i] \in options}
<1>1. CASE target = "Default"
  BY <1>1 DEF Resolve
<1>2. CASE target # "Default"
  <2>1. target \in Targets
    BY <1>2 DEF Targets
  <2>2. Preferred[target] \in Seq(Options)
    BY <2>1, TargetsAssumption
  <2>3. SelectInSeq(Preferred[target], LAMBDA o : o \in options) = IF I # {} THEN Min(I) ELSE 0
    BY DEF SelectInSeq
  <2>4. I # {} => Min(I) \in I
    <3>1. I \in SUBSET Nat
      BY <2>2
    <3> HIDE DEF I
    <3> QED
      BY <3>1, MinOf
  <2>5. CASE I = {}
    BY <1>2, <2>3, <2>5, TargetsAssumption DEF Resolve
  <2>6. CASE I # {}
    <3>1. Min(I) \in 1..Len(Preferred[target])
      BY <2>4, <2>6
    <3>2. Preferred[target][Min(I)] \in Options /\ Min(I) # 0
      <4> HIDE DEF I, target
      <4> QED
        BY <2>2, <3>1
    <3>3. Resolve(source, mode, options) = Preferred[target][Min(I)]
      BY <1>2, <2>3, <2>6, <3>2 DEF Resolve
    <3> QED
      BY <1>2, <3>2, <3>3
  <2> QED
    BY <2>5, <2>6
<1> QED
  BY <1>1, <1>2

(* The order without an option is an order: by induction over the entries    *)
(* looked at.                                                                *)
LEMMA Induct ==
  ASSUME NEW T, 0 \in T, \A n \in Nat : n \in T => n + 1 \in T
  PROVE  Nat \subseteq T
<1> SUFFICES ASSUME Nat \ T # {} PROVE FALSE
  OBVIOUS
<1>1. Min(Nat \ T) \in Nat \ T /\ \A m \in Nat \ T : Min(Nat \ T) <= m
  BY MinOf
<1> DEFINE n == Min(Nat \ T)
<1> HIDE DEF n
<1>2. n \in Nat \ T /\ \A m \in Nat \ T : n <= m
  BY <1>1 DEF n
<1>3. n - 1 \in Nat /\ n - 1 \in T
  BY <1>2
<1> QED
  BY <1>2, <1>3

Keep(kept, o, option) == IF o = option THEN kept ELSE Append(kept, o)

KeptOf(f, order, option, k) ==
  f = [i \in 0..k |-> IF i = 0 THEN <<>>
                      ELSE Keep(f[i - 1], order[i], option)]

LEMMA KeptExist ==
  ASSUME NEW order, NEW option, NEW n \in Nat
  PROVE  \E f : KeptOf(f, order, option, n)
<1> DEFINE T == {k \in Nat : \E f : KeptOf(f, order, option, k)}
<1>1. 0 \in T
  <2> DEFINE g == [i \in 0..0 |-> <<>>]
  <2>1. KeptOf(g, order, option, 0)
    BY DEF KeptOf
  <2> QED
    BY <2>1
<1>2. ASSUME NEW k \in Nat, k \in T
      PROVE  k + 1 \in T
  <2>1. PICK f : KeptOf(f, order, option, k)
    BY <1>2
  <2> DEFINE g == [i \in 0..(k + 1) |->
                     IF i = 0 THEN <<>>
                     ELSE Keep(f[i - 1], order[i], option)]
  <2>2. \A i \in 0..k : g[i] = f[i]
    BY <2>1 DEF KeptOf
  <2>3. \A i \in 0..(k + 1) :
          g[i] = IF i = 0 THEN <<>> ELSE Keep(g[i - 1], order[i], option)
    <3> TAKE i \in 0..(k + 1)
    <3>1. g[i] = IF i = 0 THEN <<>> ELSE Keep(f[i - 1], order[i], option)
      OBVIOUS
    <3>2. i # 0 => i - 1 \in 0..k
      OBVIOUS
    <3> HIDE DEF g
    <3>3. i # 0 => g[i - 1] = f[i - 1]
      BY <2>2, <3>2
    <3> QED
      BY <3>1, <3>3
  <2>4. KeptOf(g, order, option, k + 1)
    BY <2>3 DEF KeptOf
  <2> QED
    BY <2>4
<1> HIDE DEF T
<1>3. n \in T
  BY <1>1, <1>2, Induct
<1> QED
  BY <1>3 DEF T

LEMMA OthersType ==
  ASSUME NEW order \in Seq(Options), NEW option
  PROVE  Others(order, option) \in Seq(Options)
<1>1. Len(order) \in Nat
  OBVIOUS
<1> DEFINE f == CHOOSE g : KeptOf(g, order, option, Len(order))
<1>2. Others(order, option) = f[Len(order)]
  BY DEF Others, KeptOf, Keep
<1>3. KeptOf(f, order, option, Len(order))
  BY <1>1, KeptExist
<1> HIDE DEF f
<1>4. /\ f[0] = <<>>
      /\ \A i \in 1..Len(order) :
           f[i] = Keep(f[i - 1], order[i], option)
  BY <1>1, <1>3 DEF KeptOf
<1> DEFINE T == {i \in Nat : i <= Len(order) => f[i] \in Seq(Options)}
<1>5. 0 \in T
  <2>1. <<>> \in Seq(Options)
    OBVIOUS
  <2> QED
    BY <1>4, <2>1
<1>6. ASSUME NEW n \in Nat, n \in T
      PROVE  n + 1 \in T
  <2> SUFFICES ASSUME n + 1 <= Len(order) PROVE f[n + 1] \in Seq(Options)
    OBVIOUS
  <2>1. n + 1 \in 1..Len(order) /\ (n + 1) - 1 = n /\ f[n] \in Seq(Options)
    BY <1>1, <1>6
  <2>2. order[n + 1] \in Options
    BY <2>1
  <2>3. f[n + 1] = Keep(f[n], order[n + 1], option)
    BY <1>4, <2>1
  <2>4. Keep(f[n], order[n + 1], option) \in Seq(Options)
    BY <2>1, <2>2 DEF Keep
  <2> QED
    BY <2>3, <2>4
<1> HIDE DEF T
<1>7. Len(order) \in T
  BY <1>1, <1>5, <1>6, Induct
<1> QED
  BY <1>1, <1>2, <1>7 DEF T

(* reorderBootOrder puts the option first. *)
LEMMA ReorderHead ==
  ASSUME NEW order \in Seq(Options), NEW option \in Options
  PROVE  /\ Reorder(order, option) \in Seq(Options)
         /\ Head(Reorder(order, option)) = option
<1> DEFINE t == Others(order, option)
<1>1. t \in Seq(Options)
  BY OthersType
<1> HIDE DEF t
<1>2. /\ <<option>> \o t \in Seq(Options)
      /\ Len(<<option>> \o t) = 1 + Len(t)
      /\ (<<option>> \o t)[1] = option
  BY <1>1
<1>3. <<option>> \o t # <<>> /\ Head(<<option>> \o t) = option
  BY <1>1, <1>2
<1> QED
  BY <1>2, <1>3 DEF Reorder, t

(* The store's saves. *)
LEMMA SaveEffect ==
  ASSUME IsStore(disk), NEW new, IsStore(new), SaveOk(new) \/ SaveFailed(new)
  PROVE  /\ ev' = new /\ IsStore(ev)' /\ IsStore(disk)'
         /\ \/ disk' = new /\ faults' = faults
            \/ "save" \notin faults /\ faults' = faults \cup {"save"}
<1>1. ASSUME NEW p \in Part(new) PROVE IsStore(p)
  BY <1>1 DEF Part, IsStore
<1>2. CASE SaveOk(new)
  BY <1>2 DEF SaveOk
<1>3. CASE SaveFailed(new)
  BY <1>1, <1>3 DEF SaveFailed, Fault
<1> QED
  BY <1>2, <1>3

LEMMA WriteEffect ==
  ASSUME IsStore(ev), IsStore(disk), NEW new, IsStore(new), Write(new)
  PROVE  /\ IsStore(ev)' /\ IsStore(disk)'
         /\ \/ ev' = new /\ disk' = new /\ faults' = faults
            \/ "save" \notin faults /\ faults' = faults \cup {"save"}
<1>1. CASE SaveOk(new) \/ SaveFailed(new)
  BY <1>1, SaveEffect
<1>2. CASE UNCHANGED <<ev, disk>> /\ Fault("save")
  BY <1>2 DEF Fault, IsStore
<1> QED
  BY <1>1, <1>2 DEF Write

LEMMA DecideEffect ==
  ASSUME TypeOK, ReadMode
  PROVE  /\ at = "readMode" /\ UNCHANGED <<settings, signals, ev, disk, plan, writes, hist>>
         /\ snap' \in Snap /\ snap'.oneTime = snap.oneTime /\ snap'.source = snap.source
         /\ \/ at' = "setNext" /\ snap.oneTime /\ snap'.option # NoOption
            \/ at' = "clear" /\ (snap.oneTime => snap'.option = NoOption)
         /\ \/ /\ faults' = faults
               /\ snap'.option = Resolve(snap.source, settings.mode, ev.options)
            \/ "bus" \notin faults /\ faults' = faults \cup {"bus"}
<1> DEFINE Decides(mode) ==
      /\ snap' \in Snap /\ snap'.oneTime = snap.oneTime /\ snap'.source = snap.source
      /\ snap'.option = Resolve(snap.source, mode, ev.options)
      /\ \/ at' = "setNext" /\ snap.oneTime /\ snap'.option # NoOption
         \/ at' = "clear" /\ (snap.oneTime => snap'.option = NoOption)
<1>1. ASSUME NEW mode \in {"Regular", "Setup"}, Decide(mode) PROVE Decides(mode)
  <2> DEFINE option == Resolve(snap.source, mode, ev.options)
  <2>1. option \in Options \cup {NoOption}
    BY ResolveType DEF TypeOK, Snap
  <2>2. /\ snap' = [snap EXCEPT !.option = option]
        /\ at' = IF option # NoOption /\ snap.oneTime THEN "setNext" ELSE "clear"
    BY <1>1 DEF Decide
  <2> HIDE DEF option
  <2>3. snap' \in Snap /\ snap'.oneTime = snap.oneTime /\ snap'.source = snap.source
        /\ snap'.option = option
    BY <2>1, <2>2 DEF TypeOK, Snap
  <2>4. \/ at' = "setNext" /\ snap.oneTime /\ option # NoOption
        \/ at' = "clear" /\ (snap.oneTime => option = NoOption)
    <3>1. CASE option # NoOption /\ snap.oneTime
      BY <2>2, <3>1
    <3>2. CASE ~(option # NoOption /\ snap.oneTime)
      BY <2>2, <3>2
    <3> QED
      BY <3>1, <3>2
  <2> QED
    BY <2>3, <2>4 DEF option
<1>2. settings.mode \in {"Regular", "Setup"}
  BY DEF TypeOK, Settings
<1>3. /\ at = "readMode" /\ UNCHANGED <<settings, signals, ev, disk, plan, writes, hist>>
      /\ \/ Decide(settings.mode) /\ faults' = faults
         \/ Decide("Regular") /\ "bus" \notin faults /\ faults' = faults \cup {"bus"}
  BY DEF ReadMode, Fault
<1> QED
  BY <1>1, <1>2, <1>3

LEMMA ClearEffect ==
  ASSUME TypeOK, ClearOneTime
  PROVE  /\ at = "clear" /\ UNCHANGED <<settings, signals, plan, writes, hist>>
         /\ \/ snap.option = NoOption /\ at' = "idle" /\ snap' = NoSnap
            \/ snap.option # NoOption /\ at' = "persist" /\ snap' = snap
         /\ IsStore(ev)' /\ IsStore(disk)' /\ ev'.next = NoOption
         /\ \/ ev' = ev /\ disk' = disk /\ faults' = faults
            \/ disk' = ev' /\ faults' = faults
            \/ "save" \notin faults /\ faults' = faults \cup {"save"}
<1>1. IsStore([ev EXCEPT !.next = NoOption]) /\ [ev EXCEPT !.next = NoOption].next = NoOption
  BY DEF TypeOK, IsStore
<1>2. CASE ev.next = NoOption
  BY <1>2 DEF ClearOneTime, AfterClear, Done, TypeOK, IsStore
<1>3. CASE ev.next # NoOption
  <2>1. SaveOk([ev EXCEPT !.next = NoOption]) \/ SaveFailed([ev EXCEPT !.next = NoOption])
    BY <1>3 DEF ClearOneTime
  <2>2. IsStore(disk)
    BY DEF TypeOK
  <2> HIDE DEF IsStore
  <2>3. /\ ev' = [ev EXCEPT !.next = NoOption] /\ IsStore(ev)' /\ IsStore(disk)'
        /\ \/ disk' = [ev EXCEPT !.next = NoOption] /\ faults' = faults
           \/ "save" \notin faults /\ faults' = faults \cup {"save"}
    BY <1>1, <2>1, <2>2, SaveEffect
  <2> QED
    BY <1>1, <2>3 DEF ClearOneTime, AfterClear, Done
<1> QED
  BY <1>2, <1>3

LEMMA PersistEffect ==
  ASSUME TypeOK, ApplyPersistent
  PROVE  /\ at = "persist" /\ at' = "idle" /\ snap' = NoSnap
         /\ UNCHANGED <<settings, signals, plan, writes, hist>>
         /\ IsStore(ev)' /\ IsStore(disk)'
         /\ \/ ev' = ev /\ disk' = disk /\ faults' = faults
            \/ disk' = ev' /\ faults' = faults /\ ev'.next = ev.next
            \/ "save" \notin faults /\ faults' = faults \cup {"save"}
<1> DEFINE new == [ev EXCEPT !.order = Reorder(ev.order, snap.option)]
<1>1. IsStore(new) /\ new.next = ev.next
  <2>1. new = [next |-> ev.next, order |-> Reorder(ev.order, snap.option), options |-> ev.options]
    BY DEF TypeOK, IsStore
  <2> HIDE DEF new
  <2> QED
    BY <2>1 DEF TypeOK, IsStore
<1>2. CASE ev.order = <<>>
  BY <1>2 DEF ApplyPersistent, Done, TypeOK, IsStore
<1>3. CASE ev.order # <<>>
  <2>1. Write(new)
    BY <1>3 DEF ApplyPersistent
  <2> HIDE DEF new
  <2>2. /\ IsStore(ev)' /\ IsStore(disk)'
        /\ \/ ev' = new /\ disk' = new /\ faults' = faults
           \/ "save" \notin faults /\ faults' = faults \cup {"save"}
    BY <1>1, <2>1, WriteEffect DEF TypeOK
  <2> QED
    BY <1>1, <2>2 DEF ApplyPersistent, Done
<1> QED
  BY <1>2, <1>3

LEMMA OneTimeEffect ==
  ASSUME TypeOK, ApplyOneTime
  PROVE  /\ at = "setNext" /\ at' = "idle" /\ snap' = NoSnap
         /\ UNCHANGED <<settings, signals, plan, writes, hist>>
         /\ IsStore(ev)' /\ IsStore(disk)'
         /\ \/ disk' = ev' /\ faults' = faults
            \/ "save" \notin faults /\ faults' = faults \cup {"save"}
<1>1. snap.option \in Options \cup {NoOption}
  BY DEF TypeOK, Snap
<1>2. IsStore([ev EXCEPT !.next = snap.option])
  BY <1>1 DEF TypeOK, IsStore
<1>3. Write([ev EXCEPT !.next = snap.option])
  BY DEF ApplyOneTime
<1>4. /\ IsStore(ev)' /\ IsStore(disk)'
      /\ \/ disk' = ev' /\ faults' = faults
         \/ "save" \notin faults /\ faults' = faults \cup {"save"}
  BY <1>2, <1>3, WriteEffect DEF TypeOK
<1> QED
  BY <1>4 DEF ApplyOneTime, Done

(* A change that the firmware makes. *)
LEMMA HostEffect ==
  ASSUME TypeOK, NEW new, IsStore(new), NEW callback \in BOOLEAN, HostChange(new, callback)
  PROVE  /\ ev' = new /\ IsStore(ev)' /\ IsStore(disk)'
         /\ \/ disk' = new /\ faults' = faults /\ callback
            \/ at' = "idle" /\ "save" \notin faults /\ faults' = faults \cup {"save"}
<1>1. CASE SaveOk(new) /\ callback
  BY <1>1 DEF SaveOk
<1>2. CASE SaveFailed(new) /\ at' = "idle"
  BY <1>2, SaveEffect DEF TypeOK, SaveFailed, Fault
<1> QED
  BY <1>1, <1>2 DEF HostChange

LEMMA ConsumeEffect ==
  ASSUME TypeOK, HostConsume
  PROVE  /\ at = "idle" /\ plan' = NoOption /\ UNCHANGED <<settings, signals, snap, writes>>
         /\ IsStore(ev)' /\ IsStore(disk)'
         /\ \/ UNCHANGED <<ev, disk, at, faults, hist>>
            \/ /\ ev.next # NoOption /\ ev'.next = NoOption
               /\ hist' \in Hist /\ hist'.boots = (IF hist.boots = 2 THEN 2 ELSE hist.boots + 1)
               /\ hist'.excused = hist.excused /\ hist'.orderly = hist.orderly
               /\ \/ disk' = ev' /\ faults' = faults /\ at' = "consumed"
                  \/ at' = "idle" /\ "save" \notin faults /\ faults' = faults \cup {"save"}
<1> DEFINE new == [ev EXCEPT !.next = NoOption]
<1>1. IsStore(new) /\ new.next = NoOption
  BY DEF TypeOK, IsStore
<1>0. at = "idle" /\ plan' = NoOption /\ UNCHANGED <<settings, signals, snap, writes>>
  BY DEF HostConsume, Idle
<1>2. CASE ev.next = NoOption
  <2>1. UNCHANGED <<ev, disk, at, faults, hist>>
    BY <1>2 DEF HostConsume
  <2> QED
    BY <1>0, <2>1 DEF TypeOK, IsStore
<1>3. CASE ev.next # NoOption
  <2>1. /\ HostChange(new, OnEvChanged)
        /\ hist' = [hist EXCEPT !.touched = TRUE, !.boots = IF hist.boots = 2 THEN 2 ELSE hist.boots + 1]
    BY <1>3 DEF HostConsume
  <2>2. /\ hist' \in Hist /\ hist'.boots = (IF hist.boots = 2 THEN 2 ELSE hist.boots + 1)
        /\ hist'.excused = hist.excused /\ hist'.orderly = hist.orderly
    <3>1. (IF hist.boots = 2 THEN 2 ELSE hist.boots + 1) \in 0..2
      BY DEF TypeOK, Hist
    <3> QED
      BY <2>1, <3>1 DEF TypeOK, Hist
  <2> HIDE DEF new
  <2>3. CASE SaveOk(new) /\ OnEvChanged
    <3>1. ev' = new /\ disk' = new /\ faults' = faults /\ at' = "consumed"
      BY <1>1, <2>3 DEF SaveOk, OnEvChanged
    <3> QED
      BY <1>0, <1>1, <1>3, <2>2, <3>1
  <2>4. CASE SaveFailed(new) /\ at' = "idle"
    <3>1. /\ ev' = new /\ IsStore(ev)' /\ IsStore(disk)'
          /\ "save" \notin faults /\ faults' = faults \cup {"save"}
      BY <1>1, <2>4, SaveEffect DEF TypeOK, SaveFailed, Fault
    <3> QED
      BY <1>0, <1>1, <1>3, <2>2, <2>4, <3>1
  <2> QED
    BY <2>1, <2>3, <2>4 DEF HostChange
<1> QED
  BY <1>2, <1>3

LEMMA WipeEffect ==
  ASSUME TypeOK, HostWipe
  PROVE  /\ at = "idle" /\ UNCHANGED <<settings, signals, snap, plan, writes>>
         /\ IsStore(ev)' /\ IsStore(disk)' /\ ev'.next = NoOption
         /\ hist' \in Hist /\ hist'.boots = hist.boots /\ hist'.excused
         /\ hist'.orderly = hist.orderly
         /\ \/ disk' = ev' /\ faults' = faults /\ at' = "consumed"
            \/ at' = "idle" /\ "save" \notin faults /\ faults' = faults \cup {"save"}
<1>1. IsStore(EmptyStore) /\ EmptyStore.next = NoOption
  BY DEF EmptyStore, IsStore
<1>2. HostChange(EmptyStore, OnEvChanged) /\ hist' = [hist EXCEPT !.touched = TRUE, !.excused = TRUE]
  BY DEF HostWipe
<1>0. /\ at = "idle" /\ UNCHANGED <<settings, signals, snap, plan, writes>>
      /\ hist' \in Hist /\ hist'.boots = hist.boots /\ hist'.excused
      /\ hist'.orderly = hist.orderly
  BY <1>2 DEF HostWipe, Idle, TypeOK, Hist
<1>3. CASE SaveOk(EmptyStore) /\ OnEvChanged
  <2>1. ev' = EmptyStore /\ disk' = EmptyStore /\ faults' = faults /\ at' = "consumed"
    BY <1>1, <1>3 DEF SaveOk, OnEvChanged
  <2> QED
    BY <1>0, <1>1, <2>1
<1>4. CASE SaveFailed(EmptyStore) /\ at' = "idle"
  <2>1. /\ ev' = EmptyStore /\ IsStore(ev)' /\ IsStore(disk)'
        /\ "save" \notin faults /\ faults' = faults \cup {"save"}
    BY <1>1, <1>4, SaveEffect DEF TypeOK, SaveFailed, Fault
  <2> QED
    BY <1>0, <1>1, <1>4, <2>1
<1> QED
  BY <1>2, <1>3, <1>4 DEF HostChange

(* The firmware publishes options or an order. *)
Published(new) == HostSets(new) /\ IsStore(new) /\ new.next = ev.next

LEMMA PublishEffect ==
  ASSUME TypeOK, NEW new, Published(new)
  PROVE  /\ at = "idle" /\ at' = "idle" /\ UNCHANGED <<settings, signals, snap, plan, writes>>
         /\ IsStore(ev)' /\ IsStore(disk)' /\ ev'.next = ev.next
         /\ hist' \in Hist /\ hist'.boots = hist.boots /\ hist'.excused = hist.excused
         /\ hist'.orderly = hist.orderly
         /\ \/ disk' = ev' /\ faults' = faults
            \/ "save" \notin faults /\ faults' = faults \cup {"save"}
<1>1. SaveOk(new) \/ SaveFailed(new)
  BY DEF Published, HostSets, HostChange
<1>2. /\ ev' = new /\ IsStore(ev)' /\ IsStore(disk)'
      /\ \/ disk' = new /\ faults' = faults
         \/ "save" \notin faults /\ faults' = faults \cup {"save"}
  BY <1>1, SaveEffect DEF Published, TypeOK
<1>3. hist' = [hist EXCEPT !.touched = TRUE] /\ at = "idle" /\ at' = "idle"
      /\ UNCHANGED <<settings, signals, snap, plan, writes>>
  BY DEF Published, HostSets, HostChange, Idle
<1> QED
  BY <1>2, <1>3 DEF Published, TypeOK, Hist

LEMMA OptionsPublished ==
  ASSUME TypeOK, NEW S \in OptionSets, HostPublishOptions(S)
  PROVE  Published([ev EXCEPT !.options = S])
BY TargetsAssumption DEF HostPublishOptions, Published, TypeOK, IsStore

LEMMA OrderPublished ==
  ASSUME TypeOK, NEW order, HostPublishOrder(order)
  PROVE  Published([ev EXCEPT !.order = order])
BY DEF HostPublishOrder, Published, TypeOK, IsStore

LEMMA ClientEffect ==
  ASSUME TypeOK, Client
  PROVE  \E new \in Settings : ClientWrites(new)
<1>1. ASSUME NEW v \in Sources \cup {"Default"} PROVE [settings EXCEPT !.source = v] \in Settings
  BY DEF TypeOK, Settings
<1>2. ASSUME NEW v \in {"Regular", "Setup"} PROVE [settings EXCEPT !.mode = v] \in Settings
  BY DEF TypeOK, Settings
<1>3. ASSUME NEW v \in BOOLEAN PROVE [settings EXCEPT !.oneTime = v] \in Settings
  BY DEF TypeOK, Settings
<1> QED
  BY <1>1, <1>2, <1>3 DEF Client

LEMMA WriteHistory ==
  ASSUME TypeOK, NEW new \in Settings, ClientWrites(new)
  PROVE  /\ settings' = new /\ signals' \in Nat /\ writes' \in 0..MaxWrites
         /\ UNCHANGED <<ev, disk, at, snap, plan, faults>>
         /\ hist' \in Hist /\ hist'.boots = 0
         /\ at \in Resetting => hist'.excused
         /\ hist'.orderly => hist.orderly /\ Idle /\ Orderly(new)
<1>1. /\ settings' = new /\ signals' \in Nat /\ writes' \in 0..MaxWrites
      /\ UNCHANGED <<ev, disk, at, snap, plan, faults>>
  BY TargetsAssumption DEF ClientWrites, Put, TypeOK
<1> DEFINE excused == plan # NoOption \/ at \in {"consumed"} \cup ResetSteps
           orderly == hist.orderly /\ Idle /\ Orderly(new)
<1>2. excused \in BOOLEAN /\ orderly \in BOOLEAN
  OBVIOUS
<1>3. hist' = [hist EXCEPT !.boots = 0, !.excused = excused, !.orderly = orderly]
  BY DEF ClientWrites
<1> HIDE DEF excused, orderly
<1>4. hist' \in Hist /\ hist'.boots = 0 /\ hist'.excused = excused /\ hist'.orderly = orderly
  <2>1. hist' = [boots |-> 0, excused |-> excused, orderly |-> orderly, touched |-> hist.touched]
    BY <1>3 DEF TypeOK, Hist
  <2> QED
    BY <1>2, <2>1 DEF TypeOK, Hist
<1> QED
  BY <1>1, <1>4 DEF excused, orderly, Resetting

(* The three calls that reset the settings. *)
LEMMA ResetEffect ==
  ASSUME TypeOK, NEW new \in Settings, Reset(new)
  PROVE  /\ UNCHANGED <<ev, disk, snap, plan, writes, hist>> /\ signals' \in Nat
         /\ \/ settings' = new /\ faults' = faults
            \/ settings' = settings /\ "bus" \notin faults /\ faults' = faults \cup {"bus"}
BY DEF Reset, Put, Fault, TypeOK

(* What the sync reads. *)
LEMMA ReadEffect ==
  ASSUME TypeOK, ReadEnabled \/ ReadSource
  PROVE  /\ UNCHANGED <<settings, signals, ev, disk, plan, writes>> /\ snap' \in Snap
         /\ hist' \in Hist /\ hist'.boots = hist.boots /\ hist'.excused = hist.excused
         /\ hist'.orderly = hist.orderly
         /\ \/ /\ at = "readEnabled" /\ at' = "readSource"
               /\ \/ (snap'.oneTime <=> settings.oneTime) /\ faults' = faults
                  \/ "bus" \notin faults /\ faults' = faults \cup {"bus"}
            \/ /\ at = "readSource" /\ at' = "readMode"
               /\ snap'.oneTime = snap.oneTime
               /\ \/ snap'.source = settings.source /\ faults' = faults
                  \/ "bus" \notin faults /\ faults' = faults \cup {"bus"}
<1>1. CASE ReadEnabled
  <2>1. hist' \in Hist /\ hist'.boots = hist.boots /\ hist'.excused = hist.excused
        /\ hist'.orderly = hist.orderly
    BY <1>1 DEF ReadEnabled, TypeOK, Hist
  <2>2. \/ snap' = [snap EXCEPT !.oneTime = settings.oneTime] /\ faults' = faults
        \/ /\ snap' = [snap EXCEPT !.oneTime = FALSE]
           /\ "bus" \notin faults /\ faults' = faults \cup {"bus"}
    BY <1>1 DEF ReadEnabled, Read, Fault
  <2>3. /\ snap' \in Snap
        /\ \/ (snap'.oneTime <=> settings.oneTime) /\ faults' = faults
           \/ "bus" \notin faults /\ faults' = faults \cup {"bus"}
    BY <2>2 DEF TypeOK, Snap, Settings
  <2> QED
    BY <1>1, <2>1, <2>3 DEF ReadEnabled
<1>2. CASE ReadSource
  <2>1. \/ snap' = [snap EXCEPT !.source = settings.source] /\ faults' = faults
        \/ /\ snap' = [snap EXCEPT !.source = "Default"]
           /\ "bus" \notin faults /\ faults' = faults \cup {"bus"}
    BY <1>2 DEF ReadSource, Read, Fault
  <2>2. /\ snap' \in Snap /\ snap'.oneTime = snap.oneTime
        /\ \/ snap'.source = settings.source /\ faults' = faults
           \/ "bus" \notin faults /\ faults' = faults \cup {"bus"}
    BY <2>1 DEF TypeOK, Snap, Settings
  <2> QED
    BY <1>2, <2>2 DEF ReadSource, TypeOK
<1> QED
  BY <1>1, <1>2

LEMMA NoSnapType == NoSnap \in Snap /\ ~NoSnap.oneTime
BY DEF NoSnap, Snap

LEMMA ResetModeEffect ==
  ASSUME TypeOK, ResetMode
  PROVE  /\ at = "resetMode" /\ at' = "resetSource" /\ signals' \in Nat /\ settings' \in Settings
         /\ UNCHANGED <<ev, disk, snap, plan, writes, hist>>
         /\ settings'.oneTime = settings.oneTime /\ settings'.source = settings.source
         /\ \/ settings'.mode = "Regular" /\ faults' = faults
            \/ "bus" \notin faults /\ faults' = faults \cup {"bus"} /\ settings' = settings
<1>1. [settings EXCEPT !.mode = "Regular"] \in Settings
  BY DEF TypeOK, Settings
<1> QED
  BY <1>1, ResetEffect DEF ResetMode, TypeOK, Settings

LEMMA ResetSourceEffect ==
  ASSUME TypeOK, ResetSource
  PROVE  /\ at = "resetSource" /\ at' = "resetEnabled" /\ signals' \in Nat /\ settings' \in Settings
         /\ UNCHANGED <<ev, disk, snap, plan, writes, hist>>
         /\ settings'.oneTime = settings.oneTime /\ settings'.mode = settings.mode
         /\ \/ settings'.source = "Default" /\ faults' = faults
            \/ "bus" \notin faults /\ faults' = faults \cup {"bus"} /\ settings' = settings
<1>1. [settings EXCEPT !.source = "Default"] \in Settings
  BY DEF TypeOK, Settings
<1> QED
  BY <1>1, ResetEffect DEF ResetSource, TypeOK, Settings

LEMMA ResetEnabledEffect ==
  ASSUME TypeOK, ResetEnabled
  PROVE  /\ at = "resetEnabled" /\ at' = "idle" /\ signals' \in Nat /\ settings' \in Settings
         /\ UNCHANGED <<ev, disk, snap, plan, writes, hist>>
         /\ settings'.source = settings.source /\ settings'.mode = settings.mode
         /\ \/ ~settings'.oneTime /\ faults' = faults
            \/ "bus" \notin faults /\ faults' = faults \cup {"bus"} /\ settings' = settings
<1>1. [settings EXCEPT !.oneTime = FALSE] \in Settings
  BY DEF TypeOK, Settings
<1> QED
  BY <1>1, ResetEffect DEF ResetEnabled, TypeOK, Settings

-----------------------------------------------------------------------------
(* Steps keep the parts. *)

(* Types. *)
LEMMA TypeOKKept ==
  ASSUME TypeOK, [Next]_vars
  PROVE  TypeOK'
<1> USE DEF TypeOK, Steps, ResetSteps
<1>1. CASE ReadEnabled \/ ReadSource
  BY <1>1, ReadEffect
<1>2. CASE ReadMode
  BY <1>2, DecideEffect
<1>3. CASE ClearOneTime
  BY <1>3, ClearEffect, NoSnapType
<1>4. CASE ApplyPersistent
  BY <1>4, PersistEffect, NoSnapType
<1>5. CASE ApplyOneTime
  BY <1>5, OneTimeEffect, NoSnapType
<1>6. CASE Consumed
  BY <1>6 DEF Consumed, Fault
<1>7. CASE ResetMode
  BY <1>7, ResetModeEffect
<1>8. CASE ResetSource
  BY <1>8, ResetSourceEffect
<1>9. CASE ResetEnabled
  BY <1>9, ResetEnabledEffect
<1>10. CASE Serve
  BY <1>10 DEF Serve, Idle
<1>11. CASE HostReadNext
  BY <1>11 DEF HostReadNext, Idle, IsStore
<1>12. CASE HostConsume
  BY <1>12, ConsumeEffect
<1>13. CASE HostWipe
  BY <1>13, WipeEffect
<1>14. ASSUME NEW new, Published(new) PROVE TypeOK'
  BY <1>14, PublishEffect
<1>15. ASSUME NEW new \in Settings, ClientWrites(new) PROVE TypeOK'
  BY <1>15, WriteHistory, TargetsAssumption
<1>16. CASE Restart
  BY <1>16, NoSnapType DEF Restart, Fault, Idle
<1>17. CASE UNCHANGED vars
  BY <1>17 DEF vars
<1> QED
  BY <1>1, <1>2, <1>3, <1>4, <1>5, <1>6, <1>7, <1>8, <1>9, <1>10, <1>11, <1>12, <1>13, <1>14, <1>15, <1>16, <1>17,
     OptionsPublished, OrderPublished, ClientEffect DEF Next, Handler, Host

(* A consumption, or what counts as one, comes before its handling. *)
LEMMA UsedKept ==
  ASSUME TypeOK, Used, [Next]_vars
  PROVE  Used'
<1> USE DEF Used, Resetting, ResetSteps
<1>1. CASE ReadEnabled \/ ReadSource
  BY <1>1, ReadEffect
<1>2. CASE ReadMode
  BY <1>2, DecideEffect
<1>3. CASE ClearOneTime
  BY <1>3, ClearEffect, NoSnapType
<1>4. CASE ApplyPersistent
  BY <1>4, PersistEffect, NoSnapType
<1>5. CASE ApplyOneTime
  BY <1>5, OneTimeEffect, NoSnapType
<1>6. CASE Consumed
  BY <1>6 DEF Consumed, Fault
<1>7. CASE ResetMode
  BY <1>7, ResetModeEffect
<1>8. CASE ResetSource
  BY <1>8, ResetSourceEffect
<1>9. CASE ResetEnabled
  BY <1>9, ResetEnabledEffect
<1>10. CASE Serve
  BY <1>10 DEF Serve, Idle
<1>11. CASE HostReadNext
  BY <1>11 DEF HostReadNext, Idle
<1>12. CASE HostConsume
  BY <1>12, ConsumeEffect DEF TypeOK, Hist
<1>13. CASE HostWipe
  BY <1>13, WipeEffect
<1>14. ASSUME NEW new, Published(new) PROVE Used'
  BY <1>14, PublishEffect
<1>15. ASSUME NEW new \in Settings, ClientWrites(new) PROVE Used'
  BY <1>15, WriteHistory, TargetsAssumption
<1>16. CASE Restart
  BY <1>16, NoSnapType DEF Restart, Fault, Idle
<1>17. CASE UNCHANGED vars
  BY <1>17 DEF vars
<1> QED
  BY <1>1, <1>2, <1>3, <1>4, <1>5, <1>6, <1>7, <1>8, <1>9, <1>10, <1>11, <1>12, <1>13, <1>14, <1>15, <1>16, <1>17,
     OptionsPublished, OrderPublished, ClientEffect DEF Next, Handler, Host

(* A consumed option does not come back. *)
LEMMA SpentKept ==
  ASSUME TypeOK, Spent, [Next]_vars
  PROVE  Spent'
<1> USE DEF Spent, Resetting, ResetSteps
<1>1. CASE ReadEnabled \/ ReadSource
  BY <1>1, ReadEffect
<1>2. CASE ReadMode
  BY <1>2, DecideEffect
<1>3. CASE ClearOneTime
  BY <1>3, ClearEffect, NoSnapType
<1>4. CASE ApplyPersistent
  BY <1>4, PersistEffect, NoSnapType
<1>5. CASE ApplyOneTime
  BY <1>5, OneTimeEffect, NoSnapType
<1>6. CASE Consumed
  BY <1>6 DEF Consumed, Fault
<1>7. CASE ResetMode
  BY <1>7, ResetModeEffect
<1>8. CASE ResetSource
  BY <1>8, ResetSourceEffect
<1>9. CASE ResetEnabled
  BY <1>9, ResetEnabledEffect
<1>10. CASE Serve
  BY <1>10 DEF Serve, Idle
<1>11. CASE HostReadNext
  BY <1>11 DEF HostReadNext, Idle
<1>12. CASE HostConsume
  BY <1>12, ConsumeEffect
<1>13. CASE HostWipe
  BY <1>13, WipeEffect
<1>14. ASSUME NEW new, Published(new) PROVE Spent'
  BY <1>14, PublishEffect
<1>15. ASSUME NEW new \in Settings, ClientWrites(new) PROVE Spent'
  BY <1>15, WriteHistory, TargetsAssumption
<1>16. CASE Restart
  BY <1>16, NoSnapType DEF Restart, Fault, Idle
<1>17. CASE UNCHANGED vars
  BY <1>17 DEF vars
<1> QED
  BY <1>1, <1>2, <1>3, <1>4, <1>5, <1>6, <1>7, <1>8, <1>9, <1>10, <1>11, <1>12, <1>13, <1>14, <1>15, <1>16, <1>17,
     OptionsPublished, OrderPublished, ClientEffect DEF Next, Handler, Host

(* An orderly client's settings. *)
LEMMA OrderlinessKept ==
  ASSUME TypeOK, Orderliness, [Next]_vars
  PROVE  Orderliness'
<1> USE DEF Orderliness, Orderly
<1>1. CASE ReadEnabled \/ ReadSource
  BY <1>1, ReadEffect
<1>2. CASE ReadMode
  BY <1>2, DecideEffect, ResolveType DEF TypeOK, Settings
<1>3. CASE ClearOneTime
  BY <1>3, ClearEffect, NoSnapType
<1>4. CASE ApplyPersistent
  BY <1>4, PersistEffect, NoSnapType
<1>5. CASE ApplyOneTime
  BY <1>5, OneTimeEffect, NoSnapType
<1>6. CASE Consumed
  BY <1>6 DEF Consumed, Fault
<1>7. CASE ResetMode
  BY <1>7, ResetModeEffect
<1>8. CASE ResetSource
  BY <1>8, ResetSourceEffect
<1>9. CASE ResetEnabled
  BY <1>9, ResetEnabledEffect
<1>10. CASE Serve
  BY <1>10 DEF Serve, Idle
<1>11. CASE HostReadNext
  BY <1>11 DEF HostReadNext, Idle
<1>12. CASE HostConsume
  BY <1>12, ConsumeEffect
<1>13. CASE HostWipe
  BY <1>13, WipeEffect
<1>14. ASSUME NEW new, Published(new) PROVE Orderliness'
  BY <1>14, PublishEffect
<1>15. ASSUME NEW new \in Settings, ClientWrites(new) PROVE Orderliness'
  BY <1>15, WriteHistory, TargetsAssumption DEF Idle
<1>16. CASE Restart
  BY <1>16, NoSnapType DEF Restart, Fault, Idle
<1>17. CASE UNCHANGED vars
  BY <1>17 DEF vars
<1> QED
  BY <1>1, <1>2, <1>3, <1>4, <1>5, <1>6, <1>7, <1>8, <1>9, <1>10, <1>11, <1>12, <1>13, <1>14, <1>15, <1>16, <1>17,
     OptionsPublished, OrderPublished, ClientEffect DEF Next, Handler, Host

(* The mirror.  What a save that ends well leaves, exactly. *)
Sound == faults \subseteq {"crash"}

LEMMA WriteWell ==
  ASSUME NEW new, Write(new) \/ SaveOk(new) \/ SaveFailed(new), Sound'
  PROVE  ev' = new /\ disk' = new /\ Sound
BY DEF Write, SaveOk, SaveFailed, Fault, Sound

LEMMA HostWell ==
  ASSUME NEW new, HostChange(new, OnEvChanged)
  PROVE  /\ at' \in {"idle", "consumed"}
         /\ Sound' => Sound /\ ev' = new /\ disk' = new
<1>1. CASE SaveOk(new) /\ OnEvChanged
  BY <1>1 DEF SaveOk, OnEvChanged, Sound
<1>2. CASE SaveFailed(new) /\ at' = "idle"
  BY <1>2 DEF SaveFailed, Fault, Sound
<1> QED
  BY <1>1, <1>2 DEF HostChange

LEMMA MirrorKept ==
  ASSUME TypeOK, Mirror, [Next]_vars
  PROVE  Mirror'
<1> DEFINE R == Resolve(settings.source, settings.mode, ev.options)
<1>0. /\ settings.source \in Sources \cup {"Default"} /\ settings.mode \in {"Regular", "Setup"}
      /\ settings.oneTime \in BOOLEAN /\ snap.oneTime \in BOOLEAN /\ R \in Options \cup {NoOption}
  <2>1. settings.source \in Sources \cup {"Default"} /\ settings.mode \in {"Regular", "Setup"}
        /\ settings.oneTime \in BOOLEAN /\ snap.oneTime \in BOOLEAN
    BY DEF TypeOK, Settings, Snap
  <2> QED
    BY <2>1, ResolveType
<1>1. CASE ReadEnabled
  <2>1. /\ at = "readEnabled" /\ at' = "readSource"
        /\ UNCHANGED <<settings, signals, ev, disk>>
        /\ Sound' => Sound /\ (snap'.oneTime <=> settings.oneTime)
    BY <1>1, ReadEffect DEF ReadEnabled, Sound
  <2> QED
    BY <2>1 DEF Mirror, Resetting, ResetSteps, Sound, Idle
<1>2. CASE ReadSource
  <2>1. /\ at = "readSource" /\ at' = "readMode"
        /\ UNCHANGED <<settings, signals, ev, disk>>
        /\ Sound' => Sound /\ snap'.source = settings.source /\ snap'.oneTime = snap.oneTime
    BY <1>2, ReadEffect DEF ReadSource, Sound
  <2> QED
    BY <2>1 DEF Mirror, Resetting, ResetSteps, Sound, Idle
<1>3. CASE ReadMode
  <2>1. /\ at = "readMode" /\ at' \in {"setNext", "clear"}
        /\ UNCHANGED <<settings, signals, ev, disk>>
        /\ at' = "setNext" => snap.oneTime
        /\ at' = "clear" => (snap.oneTime => snap'.option = NoOption)
        /\ Sound' => /\ Sound
                     /\ snap'.option = Resolve(snap.source, settings.mode, ev.options)
    BY <1>3, DecideEffect DEF Sound
  <2> QED
    BY <2>1 DEF Mirror, Resetting, ResetSteps, Sound, Idle
<1>4. CASE ClearOneTime
  <2> DEFINE new == [ev EXCEPT !.next = NoOption]
  <2>1. /\ at = "clear" /\ UNCHANGED <<settings, signals, hist>>
        /\ \/ snap.option = NoOption /\ at' = "idle" /\ snap' = NoSnap
           \/ snap.option # NoOption /\ at' = "persist" /\ snap' = snap
        /\ ev'.next = NoOption
    BY <1>4, ClearEffect
  <2>2. new.order = ev.order /\ new.options = ev.options
    BY DEF TypeOK, IsStore
  <2>3. ASSUME Sound'
        PROVE  Sound /\ ev'.order = ev.order /\ ev'.options = ev.options
               /\ (ev = disk => ev' = disk')
    <3>1. CASE ev.next = NoOption
      BY <1>4, <2>3, <3>1 DEF ClearOneTime, Sound
    <3>2. CASE ev.next # NoOption
      <4>1. SaveOk(new) \/ SaveFailed(new)
        BY <1>4, <3>2 DEF ClearOneTime
      <4> QED
        BY <2>2, <2>3, <4>1, WriteWell
    <3> QED
      BY <3>1, <3>2
  <2> HIDE DEF new
  <2>4. ASSUME Sound', signals = 0
        PROVE  /\ snap.option = Resolve(settings'.source, settings'.mode, ev'.options)
               /\ snap.option # NoOption => ~settings'.oneTime
    BY <2>1, <2>3, <2>4 DEF Mirror, Sound
  <2>5. ASSUME Sound', signals = 0, snap.option = NoOption
        PROVE  InEffect'
    BY <2>1, <2>4, <2>5 DEF InEffect
  <2> QED
    BY <2>1, <2>3, <2>4, <2>5 DEF Mirror, Resetting, ResetSteps, Sound, Idle
<1>5. CASE ApplyPersistent
  <2> DEFINE new == [ev EXCEPT !.order = Reorder(ev.order, snap.option)]
  <2>1. /\ at = "persist" /\ at' = "idle" /\ snap' = NoSnap
        /\ UNCHANGED <<settings, signals, hist>>
    BY <1>5, PersistEffect
  <2>2. new.order = Reorder(ev.order, snap.option) /\ new.next = ev.next
        /\ new.options = ev.options
    BY DEF TypeOK, IsStore
  <2>3. ASSUME Sound'
        PROVE  /\ Sound /\ ev'.options = ev.options /\ ev'.next = ev.next
               /\ ev = disk => ev' = disk'
               /\ \/ ev.order = <<>> /\ ev'.order = <<>>
                  \/ ev'.order = Reorder(ev.order, snap.option)
    <3>1. CASE ev.order = <<>>
      BY <1>5, <2>3, <3>1 DEF ApplyPersistent, Sound
    <3>2. CASE ev.order # <<>>
      <4>1. Write(new)
        BY <1>5, <3>2 DEF ApplyPersistent
      <4> HIDE DEF new
      <4> QED
        BY <2>2, <2>3, <4>1, WriteWell
    <3> QED
      BY <3>1, <3>2
  <2> HIDE DEF new
  <2>4. ASSUME Sound'
        PROVE  ev'.order \in Seq(Options)
               /\ (ev'.order # <<>> => Head(ev'.order) = snap.option)
    <3>1. ev.order \in Seq(Options)
      BY <2>3, <2>4 DEF Mirror, Sound
    <3>2. snap.option \in Options
      BY <2>1 DEF TypeOK, Snap, Mirror
    <3> QED
      BY <2>3, <2>4, <3>1, <3>2, ReorderHead
  <2>5. ASSUME Sound', signals = 0
        PROVE  InEffect'
    <3>1. /\ snap.option = Resolve(settings'.source, settings'.mode, ev'.options)
          /\ ~settings'.oneTime /\ ev'.next = NoOption
      BY <2>1, <2>3, <2>5 DEF Mirror, Sound
    <3> QED
      BY <2>4, <2>5, <3>1 DEF InEffect
  <2> QED
    BY <2>1, <2>3, <2>4, <2>5 DEF Mirror, Resetting, ResetSteps, Sound, Idle
<1>6. CASE ApplyOneTime
  <2> DEFINE new == [ev EXCEPT !.next = snap.option]
  <2>1. /\ at = "setNext" /\ at' = "idle" /\ snap' = NoSnap
        /\ UNCHANGED <<settings, signals, hist>> /\ Write(new)
    BY <1>6, OneTimeEffect DEF ApplyOneTime
  <2>2. new.order = ev.order /\ new.next = snap.option /\ new.options = ev.options
    BY DEF TypeOK, IsStore
  <2> HIDE DEF new
  <2>3. ASSUME Sound'
        PROVE  /\ Sound /\ ev'.options = ev.options /\ ev'.next = snap.option
               /\ ev' = disk' /\ ev'.order = ev.order
    BY <2>1, <2>2, <2>3, WriteWell
  <2>4. ASSUME Sound', signals = 0
        PROVE  InEffect'
    <3>1. /\ snap.option = Resolve(settings'.source, settings'.mode, ev'.options)
          /\ settings'.oneTime
      BY <2>1, <2>3, <2>4 DEF Mirror, Sound
    <3> QED
      BY <2>3, <2>4, <3>1 DEF InEffect
  <2> QED
    BY <2>1, <2>3, <2>4 DEF Mirror, Resetting, ResetSteps, Sound, Idle
<1>7. CASE Consumed
  <2>1. /\ at = "consumed" /\ at' \in {"resetMode", "idle"}
        /\ UNCHANGED <<settings, signals, ev, disk, hist>> /\ (Sound' => Sound)
    BY <1>7 DEF Consumed, Fault, Sound
  <2>2. hist.touched
    BY <2>1 DEF Mirror, Resetting
  <2> QED
    BY <2>1, <2>2 DEF Mirror, Resetting, ResetSteps, Sound, Idle
<1>8. CASE ResetMode \/ ResetSource \/ ResetEnabled
  <2>1. /\ at \in ResetSteps /\ at' \in ResetSteps \cup {"idle"}
        /\ UNCHANGED <<ev, disk, hist>> /\ (Sound' => Sound)
    BY <1>8 DEF ResetMode, ResetSource, ResetEnabled, Reset, Fault, Sound, ResetSteps
  <2>2. hist.touched
    BY <2>1 DEF Mirror, Resetting
  <2> QED
    BY <2>1, <2>2 DEF Mirror, Resetting, ResetSteps, Sound, Idle
<1>9. CASE Serve
  BY <1>9 DEF Serve, Mirror, Resetting, ResetSteps, Idle
<1>10. CASE HostReadNext
  BY <1>10 DEF HostReadNext, Mirror, Resetting, ResetSteps, Idle, InEffect
<1>11. ASSUME hist'.touched, at = "idle", at' \in {"idle", "consumed"},
              Sound' => Sound /\ ev' = disk' /\ ev'.order \in Seq(Options)
       PROVE  Mirror'
  BY <1>11 DEF Mirror, Resetting, ResetSteps, Sound, Idle
<1>12. CASE HostConsume
  <2>1. CASE ev.next = NoOption
    BY <1>12, <2>1 DEF HostConsume, Mirror, Resetting, ResetSteps, Idle, InEffect
  <2>2. CASE ev.next # NoOption
    <3> DEFINE new == [ev EXCEPT !.next = NoOption]
    <3>1. /\ at = "idle" /\ HostChange(new, OnEvChanged)
          /\ hist' = [hist EXCEPT !.touched = TRUE, !.boots = IF @ = 2 THEN 2 ELSE @ + 1]
      BY <1>12, <2>2 DEF HostConsume, Idle
    <3>2. hist'.touched /\ new.order = ev.order
      BY <3>1 DEF TypeOK, Hist, IsStore
    <3> HIDE DEF new
    <3> QED
      BY <1>11, <3>1, <3>2, HostWell DEF Mirror, Sound
  <2> QED
    BY <2>1, <2>2
<1>13. CASE HostWipe
  <2>1. /\ at = "idle" /\ HostChange(EmptyStore, OnEvChanged)
        /\ hist' = [hist EXCEPT !.touched = TRUE, !.excused = TRUE]
    BY <1>13 DEF HostWipe, Idle
  <2>2. hist'.touched /\ EmptyStore.order \in Seq(Options)
    BY <2>1 DEF TypeOK, Hist, EmptyStore
  <2> QED
    BY <1>11, <2>1, <2>2, HostWell DEF Mirror, Sound
<1>14. ASSUME NEW new, HostSets(new), new.order = ev.order \/ new.order \in Seq(Options)
       PROVE  Mirror'
  <2>1. /\ at = "idle" /\ at' = "idle"
        /\ SaveOk(new) \/ SaveFailed(new)
        /\ hist' = [hist EXCEPT !.touched = TRUE]
    BY <1>14 DEF HostSets, HostChange, Idle
  <2>2. hist'.touched
    BY <2>1 DEF TypeOK, Hist
  <2> QED
    BY <1>11, <1>14, <2>1, <2>2, WriteWell DEF Mirror, Sound, HostSets, HostChange, Idle
<1>15. ASSUME NEW S \in OptionSets, HostPublishOptions(S) PROVE Mirror'
  <2>1. [ev EXCEPT !.options = S].order = ev.order
    BY DEF TypeOK, IsStore
  <2> QED
    BY <1>14, <1>15, <2>1 DEF HostPublishOptions
<1>16. ASSUME NEW order \in Orders, HostPublishOrder(order) PROVE Mirror'
  <2>1. [ev EXCEPT !.order = order].order = order /\ order \in Seq(Options)
    BY TargetsAssumption DEF TypeOK, IsStore
  <2> QED
    BY <1>14, <1>16, <2>1 DEF HostPublishOrder
<1>17. ASSUME NEW new, ClientWrites(new) PROVE Mirror'
  <2>1. /\ signals' # 0 /\ UNCHANGED <<ev, disk, at, snap, faults>>
        /\ hist'.touched = hist.touched
    BY <1>17 DEF ClientWrites, Put, TypeOK, Hist
  <2> QED
    BY <2>1 DEF Mirror, Sound
<1>18. CASE Restart
  BY <1>18 DEF Restart, Mirror, Resetting, ResetSteps, Idle, Fault
<1>19. CASE UNCHANGED vars
  BY <1>19 DEF vars, Mirror, Idle, InEffect
<1> QED
  BY <1>1, <1>2, <1>3, <1>4, <1>5, <1>6, <1>7, <1>8, <1>9, <1>10, <1>12, <1>13, <1>15, <1>16, <1>17, <1>18, <1>19,
     ClientEffect DEF Next, Handler, Host

LEMMA InitHolds == Init => IInv
<1> SUFFICES ASSUME Init PROVE IInv
  OBVIOUS
<1>1. settings \in Settings
  BY TargetsAssumption DEF Init, Settings
<1>2. IsStore(EmptyStore) /\ EmptyStore.next = NoOption
  BY DEF EmptyStore, IsStore
<1>3. hist \in Hist /\ hist.boots = 0 /\ (hist.orderly => Orderly(settings))
  <2>1. Orderly(settings) \in BOOLEAN
    BY DEF Orderly
  <2> QED
    BY <2>1 DEF Init, Hist
<1>4. TypeOK
  BY <1>1, <1>2, <1>3, NoSnapType, TargetsAssumption DEF Init, TypeOK, Steps
<1>5. Used /\ Spent /\ Orderliness
  BY <1>3, NoSnapType DEF Init, Used, Spent, Orderliness, Resetting, ResetSteps
<1>6. Mirror
  BY DEF Init, Mirror, Resetting, ResetSteps, Idle, EmptyStore
<1> QED
  BY <1>4, <1>5, <1>6 DEF IInv

LEMMA StepHolds == IInv /\ [Next]_vars => IInv'
BY TypeOKKept, UsedKept, SpentKept, OrderlinessKept, MirrorKept DEF IInv

-----------------------------------------------------------------------------
(* The results. *)

(* The inductive invariant of the daemon, its store and the settings. *)
THEOREM Invariant == Spec => []IInv
<1> QED
  BY InitHolds, StepHolds, PTL DEF Spec

(* The settings, the store and the daemon keep their types.                  *)
THEOREM TypeCorrect == Spec => []TypeOK
<1>1. IInv => TypeOK
  BY DEF IInv
<1> QED
  BY <1>1, Invariant, PTL

(* Without a failure the firmware uses a one-time override once.             *)
THEOREM BootsOnce == Spec => []NoSecondOneTimeBoot
<1>1. IInv => NoSecondOneTimeBoot
  BY DEF IInv, Spent, NoSecondOneTimeBoot
<1> QED
  BY <1>1, Invariant, PTL

(* The daemon resets the settings only for a consumption, or for what the    *)
(* property names.                                                           *)
THEOREM OnlyUseResets == Spec => []ResetOnlyWhenUsed
<1>1. IInv => ResetOnlyWhenUsed
  BY DEF IInv, Used, Resetting, ResetOnlyWhenUsed
<1> QED
  BY <1>1, Invariant, PTL

(* An orderly client's one-time override never moves the boot order.         *)
THEOREM OnceStaysOnce == Spec => []OneTimeNeverPersists
<1>1. IInv => OneTimeNeverPersists
  BY DEF IInv, Orderliness, OneTimeNeverPersists
<1> QED
  BY <1>1, Invariant, PTL

(* Once every signal is served, the store says what the settings say, on     *)
(* disk too, for any interleaving of the client's writes with the reads.     *)
THEOREM SettledIsApplied == Spec => []SettledMeansApplied
<1>1. IInv => SettledMeansApplied
  BY DEF IInv, Mirror, SettledMeansApplied
<1> QED
  BY <1>1, Invariant, PTL
=============================================================================

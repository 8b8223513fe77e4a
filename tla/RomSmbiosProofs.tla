-------------------------- MODULE RomSmbiosProofs --------------------------
(***************************************************************************)
(* What holds of the SMBIOS table on its way to the inventory for every    *)
(* set of records and packets and any limits.                              *)
(***************************************************************************)
EXTENDS RomSmbios, SequenceTheorems, WellFoundedInduction, TLAPS

-----------------------------------------------------------------------------
(* Induction over the natural numbers, for a set that has 0 and every        *)
(* successor of a member.                                                    *)
LEMMA Least ==
  ASSUME NEW T \in SUBSET Nat, T # {}
  PROVE  \E n \in T : \A m \in T : n <= m
<1>1. PICK n \in T : \A m \in T : ~(<<m, n>> \in OpToRel(<, Nat))
  BY WFMin, NatLessThanWellFounded, Zenon
<1>2. \A m \in T : ~(m < n)
  BY <1>1 DEF OpToRel
<1> QED
  BY <1>2

LEMMA Induct ==
  ASSUME NEW T, 0 \in T, \A n \in Nat : n \in T => n + 1 \in T
  PROVE  Nat \subseteq T
<1> SUFFICES ASSUME Nat \ T # {} PROVE FALSE
  OBVIOUS
<1>1. PICK n \in Nat \ T : \A m \in Nat \ T : n <= m
  BY Least
<1>2. n - 1 \in Nat /\ n - 1 \in T
  BY <1>1
<1> QED
  BY <1>2

(* The greatest of some numbers up to n is one of them.                      *)
LEMMA MaxOf ==
  ASSUME NEW n \in Nat, NEW S \in SUBSET (0..n), S # {}
  PROVE  Max(S) \in S /\ \A y \in S : y <= Max(S)
<1> DEFINE T == {n - x : x \in S}
<1>1. T \in SUBSET Nat /\ T # {}
  <2>1. ASSUME NEW x \in S PROVE n - x \in Nat
    OBVIOUS
  <2>2. PICK x \in S : TRUE
    OBVIOUS
  <2>3. n - x \in T
    BY <2>2
  <2> QED
    BY <2>1, <2>3
<1>2. PICK t \in T : \A y \in T : t <= y
  <2> HIDE DEF T
  <2> QED
    BY <1>1, Least
<1>3. PICK x \in S : t = n - x
  OBVIOUS
<1>4. \A y \in S : x >= y
  BY <1>2, <1>3
<1> QED
  BY <1>4 DEF Max

-----------------------------------------------------------------------------
(* The sizes of records, added up.                                           *)

BytesOf(f, rs, k) == f = [i \in 0..k |-> IF i = 0 THEN 0 ELSE f[i - 1] + Size[rs[i]]]

LEMMA BytesExist ==
  ASSUME NEW rs, NEW n \in Nat
  PROVE  \E f : BytesOf(f, rs, n)
<1> DEFINE T == {k \in Nat : \E f : BytesOf(f, rs, k)}
<1>1. 0 \in T
  <2> DEFINE g == [i \in 0..0 |-> 0]
  <2>1. BytesOf(g, rs, 0)
    BY DEF BytesOf
  <2> QED
    BY <2>1
<1>2. ASSUME NEW k \in Nat, k \in T
      PROVE  k + 1 \in T
  <2>1. PICK f : BytesOf(f, rs, k)
    BY <1>2
  <2> DEFINE g == [i \in 0..(k + 1) |-> IF i = 0 THEN 0 ELSE f[i - 1] + Size[rs[i]]]
  <2>2. \A i \in 0..k : g[i] = f[i]
    BY <2>1 DEF BytesOf
  <2>3. \A i \in 0..(k + 1) : g[i] = IF i = 0 THEN 0 ELSE g[i - 1] + Size[rs[i]]
    <3> TAKE i \in 0..(k + 1)
    <3>1. g[i] = IF i = 0 THEN 0 ELSE f[i - 1] + Size[rs[i]]
      OBVIOUS
    <3>2. i # 0 => i - 1 \in 0..k
      OBVIOUS
    <3> HIDE DEF g
    <3>3. i # 0 => g[i - 1] = f[i - 1]
      BY <2>2, <3>2
    <3> QED
      BY <3>1, <3>3
  <2>4. BytesOf(g, rs, k + 1)
    BY <2>3 DEF BytesOf
  <2> QED
    BY <2>4
<1> HIDE DEF T
<1>3. n \in T
  BY <1>1, <1>2, Induct
<1> QED
  BY <1>3 DEF T

LEMMA ByteSteps ==
  ASSUME NEW rs, Len(rs) \in Nat
  PROVE  /\ BytesUpTo(rs)[0] = 0
         /\ \A i \in 1..Len(rs) : BytesUpTo(rs)[i] = BytesUpTo(rs)[i - 1] + Size[rs[i]]
<1>1. PICK f : BytesOf(f, rs, Len(rs))
  BY BytesExist
<1>2. BytesUpTo(rs) = CHOOSE g : BytesOf(g, rs, Len(rs))
  BY DEF BytesUpTo, BytesOf
<1>3. BytesOf(BytesUpTo(rs), rs, Len(rs))
  BY <1>1, <1>2
<1> DEFINE g == BytesUpTo(rs)
<1> HIDE DEF g
<1>4. g = [i \in 0..Len(rs) |-> IF i = 0 THEN 0 ELSE g[i - 1] + Size[rs[i]]]
  BY <1>3 DEF BytesOf, g
<1>5. g[0] = 0
  BY <1>4
<1>6. ASSUME NEW i \in 1..Len(rs)
      PROVE  g[i] = g[i - 1] + Size[rs[i]]
  BY <1>4
<1> QED
  BY <1>5, <1>6 DEF g

LEMMA BytesAreNumbers ==
  ASSUME NEW rs \in Seq(Records)
  PROVE  \A i \in 0..Len(rs) : BytesUpTo(rs)[i] \in Nat
<1>1. Len(rs) \in Nat
  OBVIOUS
<1> DEFINE T == {i \in Nat : i <= Len(rs) => BytesUpTo(rs)[i] \in Nat}
<1>2. 0 \in T
  BY <1>1, ByteSteps
<1>3. ASSUME NEW n \in Nat, n \in T
      PROVE  n + 1 \in T
  <2> SUFFICES ASSUME n + 1 <= Len(rs) PROVE BytesUpTo(rs)[n + 1] \in Nat
    OBVIOUS
  <2>1. n + 1 \in 1..Len(rs) /\ (n + 1) - 1 = n /\ BytesUpTo(rs)[n] \in Nat
    BY <1>1, <1>3
  <2>2. rs[n + 1] \in Records
    BY <2>1
  <2>3. Size[rs[n + 1]] \in Nat
    BY <2>2, ConstantsAssumption
  <2>4. BytesUpTo(rs)[n + 1] = BytesUpTo(rs)[n] + Size[rs[n + 1]]
    BY <1>1, <2>1, ByteSteps
  <2> HIDE DEF T
  <2> QED
    BY <2>1, <2>3, <2>4
<1> HIDE DEF T
<1>4. Nat \subseteq T
  BY <1>2, <1>3, Induct
<1> QED
  BY <1>1, <1>4 DEF T

LEMMA BytesType == ASSUME NEW rs \in Seq(Records) PROVE Bytes(rs) \in Nat
<1>1. Len(rs) \in 0..Len(rs)
  OBVIOUS
<1> QED
  BY <1>1, BytesAreNumbers DEF Bytes

(* Two lists, one behind the other, have the bytes of both.                  *)
LEMMA BytesOfBoth ==
  ASSUME NEW s \in Seq(Records), NEW t \in Seq(Records)
  PROVE  Bytes(s \o t) = Bytes(s) + Bytes(t)
<1> DEFINE u == s \o t
<1>1. /\ u \in Seq(Records) /\ Len(u) = Len(s) + Len(t)
      /\ Len(s) \in Nat /\ Len(t) \in Nat /\ Len(u) \in Nat
      /\ \A i \in 1..Len(s) : u[i] = s[i]
      /\ \A i \in 1..Len(t) : u[Len(s) + i] = t[i]
  OBVIOUS
<1> HIDE DEF u
<1> DEFINE T == {i \in Nat : i <= Len(s) => BytesUpTo(u)[i] = BytesUpTo(s)[i]}
<1>2. 0 \in T
  BY <1>1, ByteSteps
<1>3. ASSUME NEW n \in Nat, n \in T
      PROVE  n + 1 \in T
  <2> SUFFICES ASSUME n + 1 <= Len(s) PROVE BytesUpTo(u)[n + 1] = BytesUpTo(s)[n + 1]
    OBVIOUS
  <2>0. n <= Len(s) /\ n + 1 \in 1..Len(s) /\ n + 1 \in 1..Len(u) /\ (n + 1) - 1 = n
    BY <1>1
  <2>1. BytesUpTo(u)[n] = BytesUpTo(s)[n]
    BY <1>3, <2>0
  <2>2. /\ BytesUpTo(u)[n + 1] = BytesUpTo(u)[n] + Size[u[n + 1]]
        /\ BytesUpTo(s)[n + 1] = BytesUpTo(s)[n] + Size[s[n + 1]]
    <3> HIDE DEF T
    <3>1. /\ BytesUpTo(u)[n + 1] = BytesUpTo(u)[(n + 1) - 1] + Size[u[n + 1]]
          /\ BytesUpTo(s)[n + 1] = BytesUpTo(s)[(n + 1) - 1] + Size[s[n + 1]]
      BY <1>1, <2>0, ByteSteps, Zenon
    <3> QED
      BY <2>0, <3>1
  <2>3. u[n + 1] = s[n + 1]
    BY <1>1, <2>0
  <2> QED
    BY <2>1, <2>2, <2>3
<1>4. BytesUpTo(u)[Len(s)] = Bytes(s)
  <2> HIDE DEF T
  <2>1. Len(s) \in T
    BY <1>1, <1>2, <1>3, Induct
  <2> QED
    BY <1>1, <2>1 DEF T, Bytes
<1> HIDE DEF T
<1> DEFINE R == {i \in Nat : i <= Len(t) =>
                    BytesUpTo(u)[Len(s) + i] = Bytes(s) + BytesUpTo(t)[i]}
<1>5. Bytes(s) \in Nat
  BY <1>1, BytesAreNumbers DEF Bytes
<1>6. 0 \in R
  <2>1. BytesUpTo(t)[0] = 0 /\ Len(s) + 0 = Len(s)
    BY <1>1, ByteSteps
  <2> QED
    BY <1>4, <1>5, <2>1
<1>7. ASSUME NEW n \in Nat, n \in R
      PROVE  n + 1 \in R
  <2> SUFFICES ASSUME n + 1 <= Len(t)
               PROVE  BytesUpTo(u)[Len(s) + (n + 1)] = Bytes(s) + BytesUpTo(t)[n + 1]
    OBVIOUS
  <2> DEFINE k == Len(s) + (n + 1)
  <2>1. /\ n + 1 \in 1..Len(t) /\ k \in 1..Len(u) /\ (n + 1) - 1 = n /\ k - 1 = Len(s) + n
        /\ n \in 0..Len(t)
        /\ BytesUpTo(u)[Len(s) + n] = Bytes(s) + BytesUpTo(t)[n]
    BY <1>1, <1>7
  <2>2. /\ BytesUpTo(u)[k] = BytesUpTo(u)[k - 1] + Size[u[k]]
        /\ BytesUpTo(t)[n + 1] = BytesUpTo(t)[n] + Size[t[n + 1]]
    BY <1>1, <2>1, ByteSteps
  <2>3. u[k] = t[n + 1] /\ t[n + 1] \in Records
    BY <1>1, <2>1
  <2>4. Size[t[n + 1]] \in Nat /\ BytesUpTo(t)[n] \in Nat
    BY <2>1, <2>3, ConstantsAssumption, BytesAreNumbers
  <2> HIDE DEF k, R
  <2>5. BytesUpTo(u)[k] = (Bytes(s) + BytesUpTo(t)[n]) + Size[t[n + 1]]
    BY <2>1, <2>2, <2>3
  <2>6. BytesUpTo(u)[k] = Bytes(s) + BytesUpTo(t)[n + 1]
    BY <1>5, <2>2, <2>4, <2>5
  <2> QED
    BY <2>6 DEF k
<1>8. Len(t) \in R
  <2> HIDE DEF R
  <2> QED
    BY <1>1, <1>6, <1>7, Induct
<1>9. BytesUpTo(u)[Len(u)] = Bytes(s) + BytesUpTo(t)[Len(t)]
  BY <1>1, <1>8
<1> QED
  BY <1>9 DEF Bytes, u

(* A front part has no more bytes than the whole.                            *)
LEMMA BytesOfFront ==
  ASSUME NEW s \in Seq(Records), NEW k \in 0..Len(s)
  PROVE  /\ SubSeq(s, 1, k) \in Seq(Records)
         /\ Bytes(SubSeq(s, 1, k)) \in Nat /\ Bytes(s) \in Nat
         /\ Bytes(SubSeq(s, 1, k)) <= Bytes(s)
<1> DEFINE a == SubSeq(s, 1, k)
           b == SubSeq(s, k + 1, Len(s))
<1>1. a \in Seq(Records) /\ b \in Seq(Records) /\ s = a \o b
  <2>1. a \in Seq(Records) /\ b \in Seq(Records)
    OBVIOUS
  <2>2. k \in (1 - 1)..Len(s) /\ 1 \in 1..(Len(s) + 1) /\ Len(s) \in k..Len(s)
    OBVIOUS
  <2>3. a \o b = SubSeq(s, 1, Len(s))
    BY <2>2, ConcatAdjacentSubSeq
  <2> QED
    BY <2>1, <2>3, SubSeqFull
<1> HIDE DEF a, b
<1>2. Bytes(a) \in Nat /\ Bytes(b) \in Nat
  BY <1>1, BytesType
<1>3. Bytes(s) = Bytes(a) + Bytes(b)
  BY <1>1, BytesOfBoth
<1> QED
  BY <1>1, <1>2, <1>3 DEF a

-----------------------------------------------------------------------------
(* The invariant. *)

(* All of one session. *)
Apart(hs) == \A i, j \in DOMAIN hs : hs[i].session = hs[j].session

(* The daemon holds records of the session that the firmware is in, and what *)
(* goes to the file is of one session too.                                   *)
OneSession ==
  "begin" \notin faults =>
    /\ \A i \in DOMAIN records : records[i].session = host.session
    /\ Apart(file.records)
    /\ at = "rename" => Apart(temp.records)

(* What is renamed is a complete table. *)
CompleteTemp ==
  "close" \notin faults /\ at = "rename" => temp.complete

IInv == TypeOK /\ OneSession /\ CompleteTemp /\ FileComplete

-----------------------------------------------------------------------------
(* Types. *)

LEMMA FaultGrows == ASSUME NEW kind, Fault(kind) PROVE faults \subseteq faults' /\ kind \in faults'
BY DEF Fault

LEMMA NoneType == None \in FileType /\ ~None.exists /\ None.records = <<>>
BY DEF None, FileType

(* Records that are taken are whole records of the packet. *)
LEMMA Taken ==
  ASSUME TypeOK, NEW blob \in Blobs, host.session > 0
  PROVE  [i \in 1..Max(Accepted(blob)) |-> [record |-> blob[i], session |-> host.session]]
           \in Seq({h \in Held : h.session = host.session})
<1>1. blob \in Seq(Records \cup {Bad})
  BY ConstantsAssumption
<1>2. 0 \in Accepted(blob) /\ Accepted(blob) \subseteq 0..Len(blob)
  BY <1>1, ConstantsAssumption DEF Accepted
<1>3. Max(Accepted(blob)) \in Accepted(blob)
  <2>1. Len(blob) \in Nat
    BY <1>1
  <2> QED
    BY <1>2, <2>1, MaxOf
<1> DEFINE k == Max(Accepted(blob))
<1>4. k \in 0..Len(blob) /\ \A i \in 1..k : blob[i] # Bad
  BY <1>3 DEF Accepted
<1>5. host.session \in 1..MaxSessions
  BY DEF TypeOK
<1>6. ASSUME NEW i \in 1..k
      PROVE  [record |-> blob[i], session |-> host.session] \in {h \in Held : h.session = host.session}
  <2>1. i \in 1..Len(blob)
    BY <1>1, <1>4
  <2>2. blob[i] \in Records
    BY <1>1, <1>4, <2>1
  <2> QED
    BY <1>5, <2>2 DEF Held
<1> HIDE DEF k
<1> QED
  BY <1>4, <1>6 DEF k

LEMMA CutType ==
  ASSUME TypeOK, NEW f \in Cut
  PROVE  f \in FileType /\ (Apart(records) => Apart(f.records))
<1>1. PICK k \in 0..Len(records) :
        f = [exists |-> TRUE, complete |-> FALSE, records |-> SubSeq(records, 1, k)]
  BY DEF Cut
<1>2. SubSeq(records, 1, k) \in Seq(Held)
  BY DEF TypeOK
<1>3. \A i \in DOMAIN SubSeq(records, 1, k) :
        i \in DOMAIN records /\ SubSeq(records, 1, k)[i] = records[i]
  BY DEF TypeOK
<1> QED
  BY <1>1, <1>2, <1>3 DEF FileType, Apart

LEMMA WrittenType ==
  ASSUME TypeOK
  PROVE  Written \in FileType /\ Written.complete /\ Written.records = records
BY DEF TypeOK, Written, FileType

LEMMA SentType ==
  ASSUME TypeOK, NEW blob \in Blobs, SendBlob(blob)
  PROVE  /\ host' \in [session : 0..MaxSessions, packets : 0..MaxPackets,
                       sent : Seq(Records \cup {Bad})]
         /\ host'.session = host.session /\ host.session > 0
<1>1. blob \in Seq(Records \cup {Bad}) /\ host.sent \in Seq(Records \cup {Bad})
  BY ConstantsAssumption DEF TypeOK
<1>2. host.sent \o blob \in Seq(Records \cup {Bad})
  BY <1>1
<1>3. host.packets + 1 \in 0..MaxPackets
  BY ConstantsAssumption DEF TypeOK, SendBlob
<1> QED
  BY <1>2, <1>3 DEF SendBlob, TypeOK

LEMMA SessionType ==
  ASSUME TypeOK, NewSession
  PROVE  host' \in [session : 0..MaxSessions, packets : 0..MaxPackets,
                    sent : Seq(Records \cup {Bad})]
<1>1. host.session + 1 \in 0..MaxSessions /\ 0 \in 0..MaxPackets
  BY ConstantsAssumption DEF TypeOK, NewSession
<1>2. <<>> \in Seq(Records \cup {Bad})
  OBVIOUS
<1> QED
  BY <1>1, <1>2 DEF NewSession

-----------------------------------------------------------------------------
(* The firmware and the handlers that only collect. *)
LEMMA CollectKeeps ==
  ASSUME IInv, Begin \/ LoseBegin \/ (\E blob \in Blobs : Record(blob) \/ LoseRecord(blob))
  PROVE  IInv'
<1>0. TypeOK
  BY DEF IInv
<1>1. CASE Begin
  <2>1. TypeOK'
    BY <1>0, <1>1, SessionType DEF Begin, TypeOK
  <2>2. OneSession' /\ CompleteTemp' /\ FileComplete'
    BY <1>1 DEF Begin, IInv, OneSession, CompleteTemp, FileComplete, Apart
  <2> QED
    BY <2>1, <2>2 DEF IInv
<1>2. CASE LoseBegin
  <2>1. TypeOK'
    BY <1>0, <1>2, SessionType DEF LoseBegin, TypeOK
  <2>2. "begin" \in faults' /\ faults \subseteq faults'
    BY <1>2, FaultGrows DEF LoseBegin
  <2>3. OneSession' /\ CompleteTemp' /\ FileComplete'
    BY <1>2, <2>2 DEF LoseBegin, IInv, OneSession, CompleteTemp, FileComplete
  <2> QED
    BY <2>1, <2>3 DEF IInv
<1>3. ASSUME NEW blob \in Blobs, Record(blob) PROVE IInv'
  <2> DEFINE new == [i \in 1..Max(Accepted(blob)) |->
                       [record |-> blob[i], session |-> host.session]]
  <2>1. SendBlob(blob) /\ records' = records \o new
    BY <1>3 DEF Record, AddRecord
  <2>2. host'.session = host.session /\ host.session > 0
    BY <1>0, <2>1, SentType
  <2>3. new \in Seq({h \in Held : h.session = host.session})
    BY <1>0, <2>2, Taken
  <2> HIDE DEF new
  <2>4. records \in Seq(Held) /\ new \in Seq(Held)
    BY <1>0, <2>3 DEF TypeOK
  <2>5. TypeOK'
    BY <1>0, <1>3, <2>1, <2>4, SentType DEF Record, TypeOK
  <2>6. ASSUME "begin" \notin faults'
        PROVE  \A i \in DOMAIN records' : records'[i].session = host'.session
    <3>1. \A i \in DOMAIN records : records[i].session = host.session
      BY <1>3, <2>6 DEF Record, IInv, OneSession
    <3> QED
      BY <2>1, <2>2, <2>3, <2>4, <3>1
  <2>7. OneSession' /\ CompleteTemp' /\ FileComplete'
    BY <1>3, <2>6 DEF Record, IInv, OneSession, CompleteTemp, FileComplete, Apart
  <2> QED
    BY <2>5, <2>7 DEF IInv
<1>4. ASSUME NEW blob \in Blobs, LoseRecord(blob) PROVE IInv'
  <2>1. TypeOK' /\ host'.session = host.session
    BY <1>0, <1>4, SentType DEF LoseRecord, TypeOK
  <2>2. faults \subseteq faults'
    BY <1>4, FaultGrows DEF LoseRecord
  <2>3. OneSession' /\ CompleteTemp' /\ FileComplete'
    BY <1>4, <2>1, <2>2 DEF LoseRecord, IInv, OneSession, CompleteTemp, FileComplete
  <2> QED
    BY <2>1, <2>3 DEF IInv
<1> QED
  BY <1>1, <1>2, <1>3, <1>4

(* handleEnd() and the restart. *)
LEMMA HandlerKeeps ==
  ASSUME IInv, End \/ EndRefused \/ Handler \/ Restart
  PROVE  IInv'
<1>0. TypeOK /\ OneSession /\ CompleteTemp /\ FileComplete
  BY DEF IInv
<1>1. CASE End
  BY <1>0, <1>1 DEF End, IInv, TypeOK, OneSession, CompleteTemp, FileComplete
<1>2. CASE EndRefused
  <2>1. faults \subseteq faults'
    BY <1>2, FaultGrows DEF EndRefused
  <2> QED
    BY <1>0, <1>2, <2>1 DEF EndRefused, Idle, IInv, TypeOK, OneSession, CompleteTemp, FileComplete
<1>3. CASE WriteTemp
  <2>1. TypeOK'
    BY <1>0, <1>3, WrittenType DEF WriteTemp, TypeOK
  <2>2. temp'.complete /\ temp'.records = records
    BY <1>0, <1>3, WrittenType DEF WriteTemp
  <2>3. OneSession'
    BY <1>0, <1>3, <2>2 DEF WriteTemp, OneSession, Apart
  <2>4. CompleteTemp' /\ FileComplete'
    BY <1>0, <1>3, <2>2 DEF WriteTemp, CompleteTemp, FileComplete
  <2> QED
    BY <2>1, <2>3, <2>4 DEF IInv
<1>4. CASE WriteFails
  <2>1. temp' \in FileType
    BY <1>0, <1>4, CutType DEF WriteFails, TypeOK
  <2>2. TypeOK'
    BY <1>0, <1>4, <2>1 DEF WriteFails, TypeOK
  <2>3. faults \subseteq faults'
    BY <1>4, FaultGrows DEF WriteFails
  <2> QED
    BY <1>0, <1>4, <2>2, <2>3 DEF WriteFails, IInv, OneSession, CompleteTemp, FileComplete
<1>5. CASE CloseFails
  <2>1. temp' \in FileType /\ (Apart(records) => Apart(temp'.records))
    BY <1>0, <1>5, CutType DEF CloseFails
  <2>2. TypeOK'
    BY <1>0, <1>5, <2>1 DEF CloseFails, TypeOK
  <2>3. faults \subseteq faults' /\ "close" \in faults'
    BY <1>5, FaultGrows DEF CloseFails
  <2>4. OneSession'
    BY <1>0, <1>5, <2>1, <2>3 DEF CloseFails, OneSession, Apart
  <2>5. CompleteTemp' /\ FileComplete'
    BY <2>3 DEF CompleteTemp, FileComplete
  <2> QED
    BY <2>2, <2>4, <2>5 DEF IInv
<1>6. CASE RenameTemp
  <2>1. TypeOK'
    BY <1>0, <1>6, NoneType DEF RenameTemp, TypeOK
  <2>2. OneSession' /\ CompleteTemp' /\ FileComplete'
    BY <1>0, <1>6 DEF RenameTemp, OneSession, CompleteTemp, FileComplete
  <2> QED
    BY <2>1, <2>2 DEF IInv
<1>7. CASE RenameFails
  <2>1. faults \subseteq faults'
    BY <1>7, FaultGrows DEF RenameFails
  <2> QED
    BY <1>0, <1>7, <2>1 DEF RenameFails, IInv, TypeOK, OneSession, CompleteTemp, FileComplete
<1>8. CASE Synchronize
  BY <1>0, <1>8 DEF Synchronize, IInv, TypeOK, OneSession, CompleteTemp, FileComplete
<1>9. CASE Restart
  <2>1. faults \subseteq faults'
    BY <1>9, FaultGrows DEF Restart
  <2>2. /\ records' = <<>> /\ whole' = FALSE /\ at' = "idle"
        /\ UNCHANGED <<host, temp, file, told, mdr>>
    BY <1>9 DEF Restart
  <2>3. TypeOK'
    <3>1. <<>> \in Seq(Held)
      OBVIOUS
    <3>2. records' \in Seq(Held) /\ whole' \in BOOLEAN
      BY <2>2, <3>1
    <3> QED
      BY <1>0, <2>2, <3>2 DEF TypeOK
  <2>4. OneSession' /\ CompleteTemp' /\ FileComplete'
    BY <1>0, <2>1, <2>2 DEF OneSession, CompleteTemp, FileComplete, Apart
  <2> QED
    BY <2>3, <2>4 DEF IInv
<1> QED
  BY <1>1, <1>2, <1>3, <1>4, <1>5, <1>6, <1>7, <1>8, <1>9 DEF Handler

(* smbios-mdr. *)
LEMMA MdrKeeps ==
  ASSUME IInv, MdrReads \/ MdrStops \/ MdrStarts
  PROVE  IInv'
<1>0. TypeOK /\ OneSession /\ CompleteTemp /\ FileComplete
  BY DEF IInv
<1>1. CASE MdrReads \/ MdrStarts
  <2>0. mdr' = [up |-> TRUE, table |-> file] /\ told' \in {FALSE, told}
    BY <1>1 DEF MdrReads, MdrStarts
  <2>1. mdr' \in [up : BOOLEAN, table : FileType] /\ mdr'.table = file
    BY <1>0, <2>0 DEF TypeOK
  <2>2. TypeOK'
    BY <1>0, <1>1, <2>0, <2>1 DEF MdrReads, MdrStarts, TypeOK
  <2> QED
    BY <1>0, <1>1, <2>1, <2>2 DEF MdrReads, MdrStarts, IInv, OneSession, CompleteTemp, FileComplete
<1>2. CASE MdrStops
  <2>1. mdr'.table = None /\ TypeOK'
    BY <1>0, <1>2, NoneType DEF MdrStops, TypeOK
  <2>2. faults \subseteq faults'
    BY <1>2, FaultGrows DEF MdrStops
  <2> QED
    BY <1>0, <1>2, <2>1, <2>2, NoneType DEF MdrStops, IInv, OneSession, CompleteTemp, FileComplete
<1> QED
  BY <1>1, <1>2

LEMMA InitHolds == Init => IInv
<1> SUFFICES ASSUME Init PROVE IInv
  OBVIOUS
<1>1. TypeOK
  <2>1. host \in [session : 0..MaxSessions, packets : 0..MaxPackets, sent : Seq(Records \cup {Bad})]
    BY ConstantsAssumption DEF Init
  <2>2. records \in Seq(Held) /\ temp \in FileType /\ file \in FileType
    BY NoneType DEF Init
  <2>3. mdr \in [up : BOOLEAN, table : FileType]
    BY NoneType DEF Init
  <2> QED
    BY <2>1, <2>2, <2>3 DEF Init, TypeOK
<1>2. OneSession /\ CompleteTemp /\ FileComplete
  BY NoneType DEF Init, OneSession, CompleteTemp, FileComplete, Apart
<1> QED
  BY <1>1, <1>2 DEF IInv

LEMMA StepHolds == IInv /\ [Next]_vars => IInv'
<1> SUFFICES ASSUME IInv, [Next]_vars PROVE IInv'
  OBVIOUS
<1>1. CASE UNCHANGED vars
  BY <1>1 DEF vars, IInv, TypeOK, OneSession, CompleteTemp, FileComplete
<1> QED
  BY <1>1, CollectKeeps, HandlerKeeps, MdrKeeps DEF Next

-----------------------------------------------------------------------------
(* The results. *)

(* The inductive invariant of the table's way. *)
THEOREM Invariant == Spec => []IInv
<1> QED
  BY InitHolds, StepHolds, PTL DEF Spec

(* The session, the records, the files and smbios-mdr keep their types.      *)
THEOREM TypeCorrect == Spec => []TypeOK
<1>1. IInv => TypeOK
  BY DEF IInv
<1> QED
  BY <1>1, Invariant, PTL

(* smbios2 and what smbios-mdr has read of it are complete tables whatever   *)
(* fails, unless a failing close was missed.                                 *)
THEOREM FilesAreComplete == Spec => []FileComplete
<1>1. IInv => FileComplete
  BY DEF IInv
<1> QED
  BY <1>1, Invariant, PTL

(* A table in the file never mixes two sessions if no Begin was lost.        *)
THEOREM NoMixture == Spec => []SessionsApart
<1>1. IInv => SessionsApart
  BY DEF IInv, OneSession, SessionsApart, Apart
<1> QED
  BY <1>1, Invariant, PTL

-----------------------------------------------------------------------------
(* Nothing is left out: the property is inductive by itself.                 *)

LEMMA PlainProperties ==
  ASSUME NEW hs \in Seq(Held)
  PROVE  /\ Plain(hs) \in Seq(Records) /\ Len(Plain(hs)) = Len(hs)
         /\ \A i \in 1..Len(hs) : Plain(hs)[i] = hs[i].record
<1>1. DOMAIN hs = 1..Len(hs) /\ Len(hs) \in Nat
  OBVIOUS
<1>2. \A i \in 1..Len(hs) : hs[i].record \in Records
  <2> TAKE i \in 1..Len(hs)
  <2>1. hs[i] \in Held
    OBVIOUS
  <2> QED
    BY <2>1 DEF Held
<1>3. Plain(hs) = [i \in 1..Len(hs) |-> hs[i].record]
  BY <1>1 DEF Plain
<1> QED
  BY <1>1, <1>2, <1>3

LEMMA PlainOfBoth ==
  ASSUME NEW a \in Seq(Held), NEW b \in Seq(Held)
  PROVE  Plain(a \o b) = Plain(a) \o Plain(b)
<1>1. /\ a \o b \in Seq(Held) /\ Len(a \o b) = Len(a) + Len(b)
      /\ \A i \in 1..(Len(a) + Len(b)) :
           (a \o b)[i] = IF i <= Len(a) THEN a[i] ELSE b[i - Len(a)]
  BY ConcatProperties
<1> DEFINE p == Plain(a)
           q == Plain(b)
           r == Plain(a \o b)
<1>2. /\ p \in Seq(Records) /\ Len(p) = Len(a) /\ \A i \in 1..Len(a) : p[i] = a[i].record
      /\ q \in Seq(Records) /\ Len(q) = Len(b) /\ \A i \in 1..Len(b) : q[i] = b[i].record
      /\ r \in Seq(Records) /\ Len(r) = Len(a) + Len(b)
      /\ \A i \in 1..(Len(a) + Len(b)) : r[i] = (a \o b)[i].record
  BY <1>1, PlainProperties
<1> HIDE DEF p, q, r
<1>3. /\ p \o q \in Seq(Records) /\ Len(p \o q) = Len(a) + Len(b)
      /\ \A i \in 1..(Len(a) + Len(b)) :
           (p \o q)[i] = IF i <= Len(a) THEN p[i] ELSE q[i - Len(a)]
  <2>1. /\ p \o q \in Seq(Records) /\ Len(p \o q) = Len(p) + Len(q)
        /\ \A i \in 1..(Len(p) + Len(q)) :
             (p \o q)[i] = IF i <= Len(p) THEN p[i] ELSE q[i - Len(p)]
    <3>1. p \in Seq(Records) /\ q \in Seq(Records)
      BY <1>2
    <3> QED
      BY <3>1, ConcatProperties
  <2> QED
    BY <1>2, <2>1
<1>4. ASSUME NEW i \in 1..(Len(a) + Len(b))
      PROVE  r[i] = (p \o q)[i]
  <2>1. CASE i <= Len(a)
    BY <1>1, <1>2, <1>3, <2>1
  <2>2. CASE ~(i <= Len(a))
    <3>1. i - Len(a) \in 1..Len(b)
      BY <2>2
    <3> QED
      BY <1>1, <1>2, <1>3, <2>2, <3>1
  <2> QED
    BY <2>1, <2>2
<1>5. r = p \o q
  BY <1>2, <1>3, <1>4, SeqEqual
<1> QED
  BY <1>5 DEF p, q, r

LEMMA NothingHeld == Plain(<<>>) = <<>> /\ HeldBytes(<<>>) = 0
<1>1. <<>> \in Seq(Held) /\ Len(<<>>) = 0
  OBVIOUS
<1>2. Plain(<<>>) \in Seq(Records) /\ Len(Plain(<<>>)) = 0
  BY <1>1, PlainProperties
<1>3. Plain(<<>>) = <<>>
  BY <1>2
<1> QED
  BY <1>1, <1>3, ByteSteps DEF HeldBytes, Bytes

(* What is taken of a packet is the longest front part that fits.            *)
LEMMA TakenFits ==
  ASSUME TypeOK, NEW blob \in Blobs, HeldBytes(records) <= DataLimit, host.session > 0
  PROVE  \E k \in 0..Len(blob) :
           /\ \A i \in 1..k : blob[i] # Bad
           /\ SubSeq(blob, 1, k) \in Seq(Records)
           /\ k > 0 => HeldBytes(records) + Bytes(SubSeq(blob, 1, k)) <= DataLimit
           /\ \A m \in Accepted(blob) : m <= k
           /\ Plain([i \in 1..Max(Accepted(blob)) |->
                       [record |-> blob[i], session |-> host.session]])
                = SubSeq(blob, 1, k)
<1> DEFINE k == Max(Accepted(blob))
           new == [i \in 1..k |-> [record |-> blob[i], session |-> host.session]]
<1>1. blob \in Seq(Records \cup {Bad}) /\ Len(blob) \in Nat
  BY ConstantsAssumption
<1>2. 0 \in Accepted(blob) /\ Accepted(blob) \subseteq 0..Len(blob)
  BY <1>1, ConstantsAssumption DEF Accepted
<1>3. k \in Accepted(blob) /\ \A m \in Accepted(blob) : m <= k
  BY <1>1, <1>2, MaxOf
<1>4. new \in Seq(Held)
  <2>1. new \in Seq({h \in Held : h.session = host.session})
    BY Taken
  <2> HIDE DEF new
  <2> QED
    BY <2>1
<1> HIDE DEF k
<1>5. /\ k \in 0..Len(blob) /\ k \in Nat /\ \A i \in 1..k : blob[i] # Bad
      /\ k > 0 => HeldBytes(records) + Bytes(SubSeq(blob, 1, k)) <= DataLimit
  BY <1>1, <1>3 DEF Accepted
<1>6. \A i \in 1..k : blob[i] \in Records
  BY <1>1, <1>5
<1> DEFINE front == SubSeq(blob, 1, k)
<1>7. front \in Seq(Records) /\ Len(front) = k /\ \A i \in 1..k : front[i] = blob[i]
  BY <1>5, <1>6, SubSeqProperties
<1> HIDE DEF front
<1>8. Len(new) = k /\ \A i \in 1..k : new[i].record = blob[i]
  BY <1>5
<1>9. Plain(new) = front
  <2> HIDE DEF new
  <2>1. Plain(new) \in Seq(Records) /\ Len(Plain(new)) = k
        /\ \A i \in 1..k : Plain(new)[i] = blob[i]
    BY <1>4, <1>8, PlainProperties
  <2> QED
    BY <1>7, <2>1, SeqEqual
<1> QED
  BY <1>3, <1>5, <1>7, <1>9 DEF k, front

LEMMA RecordLeavesNothingOut ==
  ASSUME TypeOK, NothingLeftOut, NEW blob \in Blobs, Record(blob)
  PROVE  NothingLeftOut'
<1> DEFINE new == [i \in 1..Max(Accepted(blob)) |->
                     [record |-> blob[i], session |-> host.session]]
<1>1. /\ SendBlob(blob) /\ records' = records \o new /\ whole' = whole
      /\ host.session > 0 /\ host'.sent = host.sent \o blob
  BY DEF Record, AddRecord, SendBlob, TypeOK
<1>2. /\ records \in Seq(Held) /\ host.sent \in Seq(Records \cup {Bad})
      /\ blob \in Seq(Records \cup {Bad}) /\ HeldBytes(records) <= DataLimit
      /\ DataLimit \in Nat
  BY ConstantsAssumption DEF TypeOK, NothingLeftOut
<1>3. new \in Seq(Held)
  <2>1. new \in Seq({h \in Held : h.session = host.session})
    BY <1>1, Taken
  <2> HIDE DEF new
  <2> QED
    BY <2>1
<1>4. PICK k \in 0..Len(blob) :
           /\ \A i \in 1..k : blob[i] # Bad
           /\ SubSeq(blob, 1, k) \in Seq(Records)
           /\ k > 0 => HeldBytes(records) + Bytes(SubSeq(blob, 1, k)) <= DataLimit
           /\ \A m \in Accepted(blob) : m <= k
           /\ Plain(new) = SubSeq(blob, 1, k)
  BY <1>1, <1>2, TakenFits
<1> DEFINE front == SubSeq(blob, 1, k)
<1>5. Plain(records') = Plain(records) \o front /\ Plain(records) \in Seq(Records)
  <2> HIDE DEF new
  <2> QED
    BY <1>1, <1>2, <1>3, <1>4, PlainOfBoth, PlainProperties
<1> HIDE DEF new
<1>6. front \in Seq(Records) /\ HeldBytes(records) \in Nat /\ Bytes(front) \in Nat
  BY <1>4, <1>5, BytesType DEF HeldBytes
<1>7. HeldBytes(records') = HeldBytes(records) + Bytes(front)
  BY <1>5, <1>6, BytesOfBoth DEF HeldBytes
<1>8. k = 0 => Bytes(front) = 0
  <2> SUFFICES ASSUME k = 0 PROVE Bytes(front) = 0
    OBVIOUS
  <2>1. front = <<>> /\ Len(front) = 0
    BY <1>2, SubSeqEmpty
  <2> QED
    BY <2>1, ByteSteps DEF Bytes
<1>9. HeldBytes(records') <= DataLimit
  BY <1>2, <1>4, <1>6, <1>7, <1>8
<1>10. ASSUME whole', Bad \notin Range(host'.sent), Bytes(host'.sent) <= DataLimit
       PROVE  Plain(records') = host'.sent
  <2> DEFINE all == host.sent \o blob
  <2>1. /\ all \in Seq(Records \cup {Bad}) /\ Len(all) = Len(host.sent) + Len(blob)
        /\ \A i \in 1..(Len(host.sent) + Len(blob)) :
             all[i] = IF i <= Len(host.sent) THEN host.sent[i] ELSE blob[i - Len(host.sent)]
        /\ Len(host.sent) \in Nat /\ Len(blob) \in Nat
    BY <1>2, ConcatProperties
  <2> HIDE DEF all
  <2>2. \A i \in 1..(Len(host.sent) + Len(blob)) : all[i] # Bad
    <3>1. all = host'.sent /\ DOMAIN all = 1..(Len(host.sent) + Len(blob))
      BY <1>1, <2>1 DEF all
    <3> QED
      BY <1>10, <3>1 DEF Range
  <2>3. ASSUME NEW i \in 1..Len(host.sent) PROVE host.sent[i] \in Records
    <3>1. i \in 1..(Len(host.sent) + Len(blob)) /\ i <= Len(host.sent)
      BY <2>1
    <3>2. all[i] = host.sent[i]
      BY <2>1, <3>1
    <3> QED
      BY <1>2, <2>2, <3>1, <3>2
  <2>4. ASSUME NEW i \in 1..Len(blob) PROVE blob[i] \in Records
    <3>1. /\ i + Len(host.sent) \in 1..(Len(host.sent) + Len(blob))
          /\ ~(i + Len(host.sent) <= Len(host.sent)) /\ (i + Len(host.sent)) - Len(host.sent) = i
      BY <2>1
    <3>2. all[i + Len(host.sent)] = blob[i]
      BY <2>1, <3>1
    <3> QED
      BY <1>2, <2>2, <3>1, <3>2
  <2>5. host.sent \in Seq(Records) /\ blob \in Seq(Records)
    BY <1>2, <2>3, <2>4
  <2>6. /\ Bytes(all) = Bytes(host.sent) + Bytes(blob) /\ Bytes(all) <= DataLimit
        /\ Bytes(host.sent) \in Nat /\ Bytes(blob) \in Nat
    BY <1>1, <1>10, <2>5, BytesOfBoth, BytesType DEF all
  <2>7. Plain(records) = host.sent
    <3>1. Bad \notin Range(host.sent)
      <4>1. DOMAIN host.sent = 1..Len(host.sent) /\ Bad \notin Records
        BY <1>2, ConstantsAssumption
      <4> QED
        BY <2>3, <4>1 DEF Range
    <3>2. Bytes(host.sent) <= DataLimit
      BY <1>2, <2>6
    <3> QED
      BY <1>1, <1>10, <3>1, <3>2 DEF NothingLeftOut
  <2>8. HeldBytes(records) + Bytes(blob) <= DataLimit
    BY <2>6, <2>7 DEF HeldBytes
  <2>9. SubSeq(blob, 1, Len(blob)) = blob
    BY <1>2, SubSeqFull
  <2>10. Len(blob) \in Accepted(blob)
    <3>1. \A i \in 1..Len(blob) : blob[i] # Bad
      BY <2>4, ConstantsAssumption
    <3>2. Bad \notin Range(blob)
      BY <1>2, <3>1 DEF Range
    <3>3. Len(blob) <= RecordsLimit /\ Len(blob) \in 0..Len(blob)
      BY <1>2, <3>2, ConstantsAssumption
    <3> QED
      BY <2>8, <2>9, <3>1, <3>3 DEF Accepted
  <2>11. k = Len(blob)
    BY <1>4, <2>1, <2>10
  <2> QED
    BY <1>1, <1>5, <2>7, <2>9, <2>11
<1> QED
  BY <1>9, <1>10 DEF NothingLeftOut

LEMMA NothingLeftOutKept == IInv /\ NothingLeftOut /\ [Next]_vars => NothingLeftOut'
<1> SUFFICES ASSUME IInv, NothingLeftOut, [Next]_vars PROVE NothingLeftOut'
  OBVIOUS
<1>0. TypeOK /\ DataLimit \in Nat
  BY ConstantsAssumption DEF IInv
<1>1. ASSUME NEW blob \in Blobs, Record(blob) PROVE NothingLeftOut'
  BY <1>0, <1>1, RecordLeavesNothingOut
<1>2. Plain(<<>>) = <<>> /\ HeldBytes(<<>>) = 0
  BY NothingHeld
<1>3. CASE Begin
  BY <1>0, <1>2, <1>3 DEF Begin, NewSession, NothingLeftOut
<1>4. CASE Restart
  <2>1. records' = <<>> /\ whole' = FALSE
    BY <1>4 DEF Restart
  <2> QED
    BY <1>0, <1>2, <2>1 DEF NothingLeftOut
<1>5. ASSUME whole' = FALSE, records' = records PROVE NothingLeftOut'
  BY <1>5 DEF NothingLeftOut
<1>6. CASE LoseBegin
  BY <1>5, <1>6 DEF LoseBegin
<1>7. ASSUME NEW blob \in Blobs, LoseRecord(blob) PROVE NothingLeftOut'
  BY <1>5, <1>7 DEF LoseRecord
<1>8. ASSUME UNCHANGED <<host, records, whole>> PROVE NothingLeftOut'
  BY <1>8 DEF NothingLeftOut
<1>9. CASE End \/ EndRefused \/ Handler
  BY <1>8, <1>9 DEF End, EndRefused, Handler, WriteTemp, WriteFails, CloseFails,
                    RenameTemp, RenameFails, Synchronize
<1>10. CASE MdrReads \/ MdrStops \/ MdrStarts
  BY <1>8, <1>10 DEF MdrReads, MdrStops, MdrStarts
<1>11. CASE UNCHANGED vars
  BY <1>8, <1>11 DEF vars
<1> QED
  BY <1>1, <1>3, <1>4, <1>6, <1>7, <1>9, <1>10, <1>11 DEF Next

(* If no packet was lost and the daemon lived, all records of a session that *)
(* keeps within the limits are held, in order and once, for packets of any   *)
(* shape and records of any size; the data limit is never exceeded.          *)
THEOREM WholeSessions == Spec => []NothingLeftOut
<1>1. Init => NothingLeftOut
  <2> SUFFICES ASSUME Init PROVE NothingLeftOut
    OBVIOUS
  <2> QED
    BY NothingHeld, ConstantsAssumption DEF Init, NothingLeftOut
<1> QED
  BY <1>1, NothingLeftOutKept, Invariant, PTL DEF Spec
=============================================================================

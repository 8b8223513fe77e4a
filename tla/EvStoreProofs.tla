--------------------------- MODULE EvStoreProofs ----------------------------
(***************************************************************************)
(* What holds of the EV store for every set of names and values, every     *)
(* size limit and every list of requests.  Crashes and the host's walk     *)
(* only need that load() accepts a front part of a file, however much that *)
(* is; that it accepts all of what was written, and with it the refinement *)
(* of DurableMap, needs the sum of the entry sizes, and so induction over  *)
(* the positions of a list (Induct).                                       *)
(***************************************************************************)
EXTENDS EvStore, SequenceTheorems, FiniteSetTheorems, WellFoundedInduction, TLAPS

-----------------------------------------------------------------------------
(* The list. *)

(* In a list without duplicates, find_if finds an entry that is there.       *)
LEMMA IndexOfFound ==
  ASSUME NEW s \in Seq(Entry), NEW n, UniqueNames(s), Has(s, n)
  PROVE  IndexOf(s, n) \in 1..Len(s) /\ s[IndexOf(s, n)].name = n
<1>1. PICK i \in DOMAIN s : s[i].name = n
  BY DEF Has
<1>2. DOMAIN s = 1..Len(s)
  BY LenProperties
<1>3. \A j \in 1..(i-1) : s[j].name # n
  BY <1>1, <1>2 DEF UniqueNames
<1>4. \E k \in DOMAIN s : s[k].name = n /\ \A j \in 1..(k-1) : s[j].name # n
  BY <1>1, <1>3
<1> QED
  BY <1>2, <1>4 DEF IndexOf

(* A front part of a list of entries, which is what a copy under way has     *)
(* written and what load() accepts, is a list of entries, without duplicates *)
(* if the list has none.                                                     *)
LEMMA FrontPart ==
  ASSUME NEW s \in Seq(Entry), NEW k \in 0..Len(s)
  PROVE  /\ SubSeq(s, 1, k) \in Seq(Entry)
         /\ Len(SubSeq(s, 1, k)) = k
         /\ \A i \in 1..k : SubSeq(s, 1, k)[i] = s[i]
         /\ UniqueNames(s) => UniqueNames(SubSeq(s, 1, k))
<1>1. \A i \in 1..k : s[i] \in Entry
  BY ElementOfSeq
<1>2. /\ SubSeq(s, 1, k) \in Seq(Entry)
      /\ Len(SubSeq(s, 1, k)) = k
      /\ \A i \in 1..k : SubSeq(s, 1, k)[i] = s[i]
  BY <1>1, SubSeqProperties
<1>3. ASSUME UniqueNames(s) PROVE UniqueNames(SubSeq(s, 1, k))
  <2>1. DOMAIN SubSeq(s, 1, k) = 1..k /\ DOMAIN s = 1..Len(s)
    BY <1>2, LenProperties
  <2> QED
    BY <1>2, <1>3, <2>1 DEF UniqueNames
<1> QED
  BY <1>2, <1>3

(* A front part of a front part is a front part. *)
LEMMA FrontOfFront ==
  ASSUME NEW s \in Seq(Entry), NEW k \in 0..Len(s), NEW m \in 0..k
  PROVE  SubSeq(SubSeq(s, 1, k), 1, m) = SubSeq(s, 1, m)
<1>1. SubSeq(s, 1, k) \in Seq(Entry) /\ Len(SubSeq(s, 1, k)) = k
      /\ \A i \in 1..k : SubSeq(s, 1, k)[i] = s[i]
  BY FrontPart
<1>2. /\ SubSeq(SubSeq(s, 1, k), 1, m) \in Seq(Entry)
      /\ Len(SubSeq(SubSeq(s, 1, k), 1, m)) = m
      /\ \A i \in 1..m : SubSeq(SubSeq(s, 1, k), 1, m)[i] = SubSeq(s, 1, k)[i]
  BY <1>1, FrontPart
<1>3. SubSeq(s, 1, m) \in Seq(Entry) /\ Len(SubSeq(s, 1, m)) = m
      /\ \A i \in 1..m : SubSeq(s, 1, m)[i] = s[i]
  BY FrontPart
<1>4. \A i \in 1..m : SubSeq(SubSeq(s, 1, k), 1, m)[i] = SubSeq(s, 1, m)[i]
  BY <1>1, <1>2, <1>3
<1> QED
  BY <1>2, <1>3, <1>4, SeqEqual

(* set(): the list stays a list of entries, and keeps its names distinct and *)
(* where they are.                                                           *)
LEMMA PutProperties ==
  ASSUME NEW s \in Seq(Entry), NEW n \in Names, NEW d \in Data, UniqueNames(s)
  PROVE  /\ Put(s, n, d) \in Seq(Entry)
         /\ UniqueNames(Put(s, n, d))
         /\ Len(Put(s, n, d)) >= Len(s)
         /\ \A i \in 1..Len(s) : Put(s, n, d)[i].name = s[i].name
<1> DEFINE e == [name |-> n, data |-> d]
<1>1. e \in Entry
  BY DEF Entry
<1>2. DOMAIN s = 1..Len(s) /\ Len(s) \in Nat
  BY LenProperties
<1>3. CASE Has(s, n)
  <2> DEFINE k == IndexOf(s, n)
             t == [s EXCEPT ![k] = e]
  <2>1. k \in 1..Len(s) /\ s[k].name = n
    BY <1>3, IndexOfFound
  <2>2. t \in Seq(Entry) /\ Len(t) = Len(s)
    BY <1>1, <2>1, ExceptSeq
  <2>3. \A i \in 1..Len(s) : t[i] = IF i = k THEN e ELSE s[i]
    BY <1>1, <2>1, ExceptSeq
  <2>4. \A i \in 1..Len(s) : t[i].name = s[i].name
    BY <2>1, <2>3
  <2>5. DOMAIN t = 1..Len(s)
    BY <2>2, LenProperties
  <2>6. UniqueNames(t)
    BY <1>2, <2>4, <2>5 DEF UniqueNames
  <2>7. Put(s, n, d) = t
    BY <1>3 DEF Put
  <2> QED
    BY <1>2, <2>2, <2>4, <2>6, <2>7
<1>4. CASE ~Has(s, n)
  <2> DEFINE t == Append(s, e)
  <2>1. /\ t \in Seq(Entry)
        /\ Len(t) = Len(s) + 1
        /\ \A i \in 1..Len(s) : t[i] = s[i]
        /\ t[Len(s) + 1] = e
    BY <1>1, AppendProperties
  <2>2. DOMAIN t = 1..(Len(s) + 1)
    BY <2>1, LenProperties
  <2>3. \A i \in 1..Len(s) : t[i].name # n
    BY <1>2, <1>4, <2>1 DEF Has
  <2>4. UniqueNames(t)
    BY <1>2, <2>1, <2>2, <2>3 DEF UniqueNames
  <2>5. Put(s, n, d) = t
    BY <1>4 DEF Put
  <2> QED
    BY <1>2, <2>1, <2>4, <2>5
<1> QED
  BY <1>3, <1>4

(* del(): an entry less, and those before it stay where they are.            *)
LEMMA EraseProperties ==
  ASSUME NEW s \in Seq(Entry), NEW n, UniqueNames(s), Has(s, n)
  PROVE  /\ Erase(s, n) \in Seq(Entry)
         /\ UniqueNames(Erase(s, n))
         /\ Len(Erase(s, n)) = Len(s) - 1
         /\ IndexOf(s, n) \in 1..Len(s)
         /\ \A i \in 1..(IndexOf(s, n) - 1) : Erase(s, n)[i] = s[i]
         /\ \A i \in IndexOf(s, n)..(Len(s) - 1) : Erase(s, n)[i] = s[i + 1]
<1> DEFINE k == IndexOf(s, n)
           a == SubSeq(s, 1, k - 1)
           b == SubSeq(s, k + 1, Len(s))
           t == a \o b
<1>1. k \in 1..Len(s)
  BY IndexOfFound
<1>2. DOMAIN s = 1..Len(s) /\ Len(s) \in Nat
  BY LenProperties
<1>3. \A i \in 1..Len(s) : s[i] \in Entry
  BY ElementOfSeq
<1>4. /\ a \in Seq(Entry) /\ Len(a) = k - 1
      /\ \A i \in 1..(k - 1) : a[i] = s[i]
  BY <1>1, <1>2, FrontPart
<1>5. /\ b \in Seq(Entry) /\ Len(b) = Len(s) - k
      /\ \A i \in 1..(Len(s) - k) : b[i] = s[k + i]
  <2>1. \A i \in (k + 1)..Len(s) : s[i] \in Entry
    BY <1>1, <1>3
  <2>2. /\ b \in Seq(Entry)
        /\ Len(b) = IF k + 1 <= Len(s) THEN Len(s) - (k + 1) + 1 ELSE 0
        /\ \A i \in 1..(Len(s) - (k + 1) + 1) : b[i] = s[(k + 1) + i - 1]
    BY <1>1, <1>2, <2>1, SubSeqProperties
  <2> QED
    BY <1>1, <1>2, <2>2
<1>6. /\ t \in Seq(Entry) /\ Len(t) = Len(a) + Len(b)
      /\ \A i \in 1..(Len(a) + Len(b)) :
            t[i] = IF i <= Len(a) THEN a[i] ELSE b[i - Len(a)]
  BY <1>4, <1>5, ConcatProperties
<1> HIDE DEF k, a, b, t
<1>7. Len(t) = Len(s) - 1
  BY <1>1, <1>2, <1>4, <1>5, <1>6
<1>8. \A i \in 1..(k - 1) : t[i] = s[i]
  <2> TAKE i \in 1..(k - 1)
  <2>1. i \in 1..(Len(a) + Len(b)) /\ i <= Len(a)
    BY <1>1, <1>2, <1>4, <1>5
  <2> QED
    BY <1>4, <1>6, <2>1
<1>9. \A i \in k..(Len(s) - 1) : t[i] = s[i + 1]
  <2> TAKE i \in k..(Len(s) - 1)
  <2>1. i \in 1..(Len(a) + Len(b)) /\ ~(i <= Len(a)) /\ i - Len(a) \in 1..(Len(s) - k)
    BY <1>1, <1>2, <1>4, <1>5
  <2>2. t[i] = b[i - Len(a)] /\ b[i - Len(a)] = s[k + (i - Len(a))]
    BY <1>5, <1>6, <2>1
  <2>3. k + (i - Len(a)) = i + 1
    BY <1>1, <1>2, <1>4
  <2> QED
    BY <2>2, <2>3
<1>10. UniqueNames(t)
  <2>1. DOMAIN t = 1..(Len(s) - 1)
    BY <1>6, <1>7, LenProperties
  <2> DEFINE from(i) == IF i < k THEN i ELSE i + 1
  <2>2. \A i \in DOMAIN t : from(i) \in DOMAIN s /\ t[i] = s[from(i)]
    BY <1>1, <1>2, <1>8, <1>9, <2>1
  <2>3. \A i, j \in DOMAIN t : from(i) = from(j) => i = j
    BY <1>1, <1>2, <2>1
  <2> HIDE DEF from
  <2> QED
    BY <2>2, <2>3 DEF UniqueNames
<1>11. Erase(s, n) = t
  BY DEF Erase, k, a, b, t
<1> QED
  BY <1>1, <1>6, <1>7, <1>8, <1>9, <1>10, <1>11 DEF k

(* load(): the store after a restart is a front part of the file. *)
LEMMA LoadedIsFront ==
  ASSUME NEW f \in File
  PROVE  \E k \in 0..Len(f.entries) : Loaded(f) = SubSeq(f.entries, 1, k)
<1> DEFINE s == f.entries
           c == Cardinality(Acceptable(s))
<1>1. s \in Seq(Entry) /\ Len(s) \in Nat /\ DOMAIN s = 1..Len(s)
  BY LenProperties DEF File
<1>2. CASE f.header
  <2>1. IsFiniteSet(1..Len(s)) /\ Cardinality(1..Len(s)) = Len(s)
    BY <1>1, FS_Interval
  <2>2. Acceptable(s) \in SUBSET (1..Len(s))
    BY <1>1 DEF Acceptable
  <2>3. IsFiniteSet(Acceptable(s)) /\ c <= Len(s)
    BY <2>1, <2>2, FS_Subset
  <2>4. c \in Nat
    BY <2>3, FS_CardinalityType
  <2> QED
    BY <1>1, <1>2, <2>3, <2>4 DEF Loaded
<1>3. CASE ~f.header
  BY <1>1, <1>3, SubSeqEmpty DEF Loaded
<1> QED
  BY <1>2, <1>3

-----------------------------------------------------------------------------
(* The sizes, which serializedSize() adds up.  Induction over the natural    *)
(* numbers, in the form that a set which has 0 and every successor of a      *)
(* member has all of them.                                                   *)

LEMMA Least ==
  ASSUME NEW T \in SUBSET Nat, T # {}
  PROVE  \E n \in T : \A m \in T : n <= m
<1>1. PICK n \in T : \A m \in T : ~(<<m, n>> \in OpToRel(<, Nat))
  BY WFMin, NatLessThanWellFounded, Zenon
<1>2. \A m \in T : ~(m < n)
  BY <1>1 DEF OpToRel
<1> QED
  BY <1>2

LEMMA Induct ==
  ASSUME NEW T, 0 \in T, \A n \in Nat : n \in T => n + 1 \in T
  PROVE  Nat \subseteq T
<1> SUFFICES ASSUME Nat \ T # {} PROVE FALSE
  OBVIOUS
<1>1. PICK n \in Nat \ T : \A m \in Nat \ T : n <= m
  BY Least
<1>2. n - 1 \in Nat /\ n - 1 \in T
  BY <1>1
<1> QED
  BY <1>2

(* The loop's sums exist, so that the definition is an equation.             *)
SumsOf(f, s, k) ==
  f = [i \in 0..k |-> IF i = 0 THEN Header ELSE f[i - 1] + (Overhead + Size[s[i].data])]

LEMMA SumsExist ==
  ASSUME NEW s, NEW n \in Nat
  PROVE  \E f : SumsOf(f, s, n)
<1> DEFINE T == {k \in Nat : \E f : SumsOf(f, s, k)}
<1>1. 0 \in T
  <2> DEFINE g == [i \in 0..0 |-> Header]
  <2>1. SumsOf(g, s, 0)
    BY DEF SumsOf
  <2> QED
    BY <2>1
<1>2. ASSUME NEW k \in Nat, k \in T
      PROVE  k + 1 \in T
  <2>1. PICK f : SumsOf(f, s, k)
    BY <1>2
  <2> DEFINE g == [i \in 0..(k + 1) |-> IF i = 0 THEN Header
                                        ELSE f[i - 1] + (Overhead + Size[s[i].data])]
  <2>2. \A i \in 0..k : g[i] = f[i]
    BY <2>1 DEF SumsOf
  <2>3. \A i \in 0..(k + 1) :
          g[i] = IF i = 0 THEN Header ELSE g[i - 1] + (Overhead + Size[s[i].data])
    BY <2>2
  <2>4. SumsOf(g, s, k + 1)
    BY <2>3 DEF SumsOf
  <2> QED
    BY <2>4
<1> HIDE DEF T
<1>3. n \in T
  BY <1>1, <1>2, Induct
<1> QED
  BY <1>3 DEF T

LEMMA SizeSteps ==
  ASSUME NEW s \in Seq(Entry)
  PROVE  /\ SizeUpTo(s)[0] = Header
         /\ \A i \in 1..Len(s) :
              SizeUpTo(s)[i] = SizeUpTo(s)[i - 1] + (Overhead + Size[s[i].data])
<1>1. Len(s) \in Nat
  BY LenProperties
<1>2. PICK f : SumsOf(f, s, Len(s))
  BY <1>1, SumsExist
<1>3. SizeUpTo(s) = CHOOSE g : SumsOf(g, s, Len(s))
  BY DEF SizeUpTo, SumsOf
<1>4. SumsOf(SizeUpTo(s), s, Len(s))
  BY <1>2, <1>3
<1> HIDE DEF SizeUpTo
<1> DEFINE g == SizeUpTo(s)
<1> HIDE DEF g
<1>5. g = [i \in 0..Len(s) |-> IF i = 0 THEN Header
                               ELSE g[i - 1] + (Overhead + Size[s[i].data])]
  BY <1>4 DEF SumsOf, g
<1>6. g[0] = Header
  BY <1>1, <1>5
<1>7. ASSUME NEW i \in 1..Len(s)
      PROVE  g[i] = g[i - 1] + (Overhead + Size[s[i].data])
  BY <1>1, <1>5
<1> QED
  BY <1>6, <1>7 DEF g

(* An entry has a size, and the sums are numbers.                            *)
LEMMA EntrySize ==
  ASSUME NEW e \in Entry
  PROVE  Overhead + Size[e.data] \in Nat \ {0}
BY SizesAssumption DEF Entry

LEMMA SizesAreNumbers ==
  ASSUME NEW s \in Seq(Entry)
  PROVE  \A i \in 0..Len(s) : SizeUpTo(s)[i] \in Nat
<1>1. Len(s) \in Nat /\ \A i \in 1..Len(s) : s[i] \in Entry
  BY LenProperties, ElementOfSeq
<1> DEFINE T == {i \in Nat : i <= Len(s) => SizeUpTo(s)[i] \in Nat}
<1>2. 0 \in T
  BY SizeSteps, SizesAssumption
<1>3. ASSUME NEW n \in Nat, n \in T
      PROVE  n + 1 \in T
  <2> SUFFICES ASSUME n + 1 <= Len(s) PROVE SizeUpTo(s)[n + 1] \in Nat
    OBVIOUS
  <2>1. n + 1 \in 1..Len(s) /\ (n + 1) - 1 = n /\ SizeUpTo(s)[n] \in Nat
    BY <1>1, <1>3
  <2>2. Overhead + Size[s[n + 1].data] \in Nat
    BY <1>1, <2>1, EntrySize
  <2>3. SizeUpTo(s)[n + 1] = SizeUpTo(s)[n] + (Overhead + Size[s[n + 1].data])
    BY <2>1, SizeSteps
  <2> HIDE DEF T
  <2> QED
    BY <2>1, <2>2, <2>3
<1> HIDE DEF T
<1>4. Nat \subseteq T
  BY <1>2, <1>3, Induct
<1> QED
  BY <1>1, <1>4 DEF T

(* Lists that begin alike have sums that begin alike.                        *)
LEMMA SizesAgree ==
  ASSUME NEW s \in Seq(Entry), NEW t \in Seq(Entry), NEW k \in Nat,
         k <= Len(s), k <= Len(t), \A i \in 1..k : s[i] = t[i]
  PROVE  \A i \in 0..k : SizeUpTo(s)[i] = SizeUpTo(t)[i]
<1>1. Len(s) \in Nat /\ Len(t) \in Nat
  BY LenProperties
<1> DEFINE T == {i \in Nat : i <= k => SizeUpTo(s)[i] = SizeUpTo(t)[i]}
<1>2. 0 \in T
  BY SizeSteps
<1>3. ASSUME NEW n \in Nat, n \in T
      PROVE  n + 1 \in T
  <2> SUFFICES ASSUME n + 1 <= k PROVE SizeUpTo(s)[n + 1] = SizeUpTo(t)[n + 1]
    OBVIOUS
  <2>1. n + 1 \in 1..Len(s) /\ n + 1 \in 1..Len(t) /\ n + 1 \in 1..k /\ (n + 1) - 1 = n
    BY <1>1
  <2>2. SizeUpTo(s)[n] = SizeUpTo(t)[n] /\ s[n + 1] = t[n + 1]
    BY <1>3, <2>1
  <2>3. /\ SizeUpTo(s)[n + 1] = SizeUpTo(s)[n] + (Overhead + Size[s[n + 1].data])
        /\ SizeUpTo(t)[n + 1] = SizeUpTo(t)[n] + (Overhead + Size[t[n + 1].data])
    BY <2>1, SizeSteps
  <2> QED
    BY <2>2, <2>3
<1> HIDE DEF T
<1>4. Nat \subseteq T
  BY <1>2, <1>3, Induct
<1> QED
  BY <1>4 DEF T

(* The sums grow. *)
LEMMA SizesGrow ==
  ASSUME NEW s \in Seq(Entry), NEW k \in 0..Len(s)
  PROVE  SizeUpTo(s)[k] <= SerializedSize(s)
<1>1. Len(s) \in Nat /\ \A i \in 1..Len(s) : s[i] \in Entry
  BY LenProperties, ElementOfSeq
<1>2. \A i \in 0..Len(s) : SizeUpTo(s)[i] \in Nat
  BY SizesAreNumbers
<1> DEFINE T == {i \in Nat : k + i <= Len(s) => SizeUpTo(s)[k] <= SizeUpTo(s)[k + i]}
<1>3. 0 \in T
  <2>1. k + 0 = k /\ SizeUpTo(s)[k] \in Nat
    BY <1>2
  <2> QED
    BY <2>1
<1>4. ASSUME NEW n \in Nat, n \in T
      PROVE  n + 1 \in T
  <2> SUFFICES ASSUME k + (n + 1) <= Len(s)
               PROVE  SizeUpTo(s)[k] <= SizeUpTo(s)[k + (n + 1)]
    OBVIOUS
  <2>1. /\ k + (n + 1) \in 1..Len(s) /\ (k + (n + 1)) - 1 = k + n
        /\ k + n \in 0..Len(s) /\ SizeUpTo(s)[k] <= SizeUpTo(s)[k + n]
    BY <1>1, <1>4
  <2>2. Overhead + Size[s[k + (n + 1)].data] \in Nat
    BY <1>1, <2>1, EntrySize
  <2>3. SizeUpTo(s)[k + (n + 1)]
          = SizeUpTo(s)[k + n] + (Overhead + Size[s[k + (n + 1)].data])
    BY <2>1, SizeSteps
  <2>4. SizeUpTo(s)[k] \in Nat /\ SizeUpTo(s)[k + n] \in Nat
    BY <1>2, <2>1
  <2> HIDE DEF T
  <2> QED
    BY <2>1, <2>2, <2>3, <2>4
<1>5. Len(s) - k \in T
  <2> HIDE DEF T
  <2> QED
    BY <1>1, <1>3, <1>4, Induct
<1> QED
  BY <1>1, <1>5 DEF SerializedSize

(* set() adds an entry: the size grows by the entry's.                       *)
LEMMA AppendSize ==
  ASSUME NEW s \in Seq(Entry), NEW e \in Entry
  PROVE  SerializedSize(Append(s, e)) = SerializedSize(s) + (Overhead + Size[e.data])
<1> DEFINE t == Append(s, e)
           n == Len(s)
<1>1. /\ t \in Seq(Entry) /\ Len(t) = n + 1 /\ n \in Nat
      /\ \A i \in 1..n : t[i] = s[i]
      /\ t[n + 1] = e
  BY AppendProperties, LenProperties
<1> HIDE DEF t
<1>2. \A i \in 0..n : SizeUpTo(s)[i] = SizeUpTo(t)[i]
  BY <1>1, SizesAgree
<1>3. SizeUpTo(t)[n + 1] = SizeUpTo(t)[(n + 1) - 1] + (Overhead + Size[t[n + 1].data])
  BY <1>1, SizeSteps
<1>4. (n + 1) - 1 = n /\ n \in 0..n
  BY <1>1
<1>5. SizeUpTo(t)[n + 1] = SizeUpTo(s)[n] + (Overhead + Size[e.data])
  BY <1>1, <1>2, <1>3, <1>4
<1> QED
  BY <1>1, <1>5 DEF SerializedSize, t

(* It replaces an entry: the size changes by the difference of the values.   *)
LEMMA ReplaceSize ==
  ASSUME NEW s \in Seq(Entry), NEW t \in Seq(Entry), NEW k \in 1..Len(s),
         Len(t) = Len(s), \A i \in 1..Len(s) : i # k => t[i] = s[i]
  PROVE  SerializedSize(t) = SerializedSize(s) + (Size[t[k].data] - Size[s[k].data])
<1> DEFINE delta == Size[t[k].data] - Size[s[k].data]
<1>1. Len(s) \in Nat /\ s[k] \in Entry /\ t[k] \in Entry
  BY LenProperties, ElementOfSeq
<1>2. delta \in Int /\ Size[t[k].data] \in Nat /\ Size[s[k].data] \in Nat /\ Overhead \in Nat
  BY <1>1, SizesAssumption DEF Entry
<1>3. \A i \in 0..Len(s) : SizeUpTo(s)[i] \in Nat /\ SizeUpTo(t)[i] \in Nat
  BY SizesAreNumbers
<1>4. SizeUpTo(t)[k - 1] = SizeUpTo(s)[k - 1]
  <2>1. k - 1 \in Nat /\ k - 1 <= Len(s) /\ k - 1 \in 0..(k - 1)
        /\ \A i \in 1..(k - 1) : s[i] = t[i]
    BY <1>1
  <2> QED
    BY <2>1, SizesAgree
<1>5. SizeUpTo(t)[k] = SizeUpTo(s)[k] + delta
  <2>1. /\ SizeUpTo(t)[k] = SizeUpTo(t)[k - 1] + (Overhead + Size[t[k].data])
        /\ SizeUpTo(s)[k] = SizeUpTo(s)[k - 1] + (Overhead + Size[s[k].data])
    BY SizeSteps
  <2>2. SizeUpTo(s)[k - 1] \in Nat
    BY <1>1, <1>3
  <2> DEFINE a == SizeUpTo(s)[k - 1]
             b == Size[s[k].data]
             c == Size[t[k].data]
  <2>3. SizeUpTo(t)[k] = a + (Overhead + c) /\ SizeUpTo(s)[k] = a + (Overhead + b)
    BY <1>4, <2>1
  <2>4. a \in Nat /\ b \in Nat /\ c \in Nat /\ Overhead \in Nat /\ delta = c - b
    BY <1>2, <2>2
  <2> HIDE DEF a, b, c, delta
  <2> QED
    BY <2>3, <2>4
<1> HIDE DEF delta
<1> DEFINE T == {i \in Nat : k + i <= Len(s) => SizeUpTo(t)[k + i] = SizeUpTo(s)[k + i] + delta}
<1>6. 0 \in T
  BY <1>5
<1>7. ASSUME NEW n \in Nat, n \in T
      PROVE  n + 1 \in T
  <2> SUFFICES ASSUME k + (n + 1) <= Len(s)
               PROVE  SizeUpTo(t)[k + (n + 1)] = SizeUpTo(s)[k + (n + 1)] + delta
    OBVIOUS
  <2> DEFINE m == k + (n + 1)
  <2>1. /\ m \in 1..Len(s) /\ m \in 1..Len(t) /\ m # k
        /\ m - 1 = k + n /\ k + n \in 0..Len(s)
        /\ SizeUpTo(t)[k + n] = SizeUpTo(s)[k + n] + delta
    BY <1>1, <1>7
  <2>2. t[m] = s[m] /\ s[m] \in Entry
    BY <2>1, ElementOfSeq
  <2>3. /\ SizeUpTo(t)[m] = SizeUpTo(t)[k + n] + (Overhead + Size[t[m].data])
        /\ SizeUpTo(s)[m] = SizeUpTo(s)[k + n] + (Overhead + Size[s[m].data])
    BY <2>1, SizeSteps
  <2>4. SizeUpTo(s)[k + n] \in Nat /\ Overhead + Size[s[m].data] \in Nat
    BY <1>3, <2>1, <2>2, EntrySize
  <2> HIDE DEF m, T
  <2>5. SizeUpTo(t)[m] = SizeUpTo(s)[m] + delta
    BY <1>2, <2>1, <2>2, <2>3, <2>4
  <2> QED
    BY <2>5 DEF m
<1>8. Len(s) - k \in T
  <2> HIDE DEF T
  <2> QED
    BY <1>1, <1>6, <1>7, Induct
<1>9. k + (Len(s) - k) = Len(s)
  BY <1>1
<1> QED
  BY <1>8, <1>9 DEF SerializedSize, delta

(* del(): the size shrinks. *)
LEMMA EraseSize ==
  ASSUME NEW s \in Seq(Entry), NEW t \in Seq(Entry), NEW k \in 1..Len(s),
         Len(t) = Len(s) - 1,
         \A i \in 1..(k - 1) : t[i] = s[i],
         \A i \in k..(Len(s) - 1) : t[i] = s[i + 1]
  PROVE  SerializedSize(t) <= SerializedSize(s)
<1>1. Len(s) \in Nat
  BY LenProperties
<1>2. /\ \A i \in 0..Len(s) : SizeUpTo(s)[i] \in Nat
      /\ \A i \in 0..Len(t) : SizeUpTo(t)[i] \in Nat
  BY SizesAreNumbers
<1> DEFINE T == {i \in Nat : k + i <= Len(s) =>
                               SizeUpTo(t)[k - 1 + i] <= SizeUpTo(s)[k + i]}
<1>3. 0 \in T
  <2>1. k - 1 \in Nat /\ k - 1 <= Len(s) /\ k - 1 <= Len(t) /\ k - 1 \in 0..(k - 1)
        /\ \A i \in 1..(k - 1) : s[i] = t[i]
    BY <1>1
  <2>2. SizeUpTo(t)[k - 1] = SizeUpTo(s)[k - 1]
    BY <2>1, SizesAgree
  <2>3. SizeUpTo(s)[k] = SizeUpTo(s)[k - 1] + (Overhead + Size[s[k].data])
    BY SizeSteps
  <2>4. SizeUpTo(s)[k - 1] \in Nat /\ Overhead + Size[s[k].data] \in Nat
    BY <1>1, <1>2, EntrySize, ElementOfSeq
  <2>5. SizeUpTo(t)[k - 1] <= SizeUpTo(s)[k]
    BY <2>2, <2>3, <2>4
  <2> QED
    BY <2>5
<1>4. ASSUME NEW n \in Nat, n \in T
      PROVE  n + 1 \in T
  <2> SUFFICES ASSUME k + (n + 1) <= Len(s)
               PROVE  SizeUpTo(t)[k - 1 + (n + 1)] <= SizeUpTo(s)[k + (n + 1)]
    OBVIOUS
  <2> DEFINE m == k + n
  <2>1. /\ m \in 1..Len(t) /\ m \in k..(Len(s) - 1) /\ m + 1 \in 1..Len(s)
        /\ m \in 0..Len(s) /\ m - 1 \in 0..Len(t) /\ (m + 1) - 1 = m
        /\ k - 1 + n = m - 1 /\ k - 1 + (n + 1) = m /\ k + (n + 1) = m + 1
        /\ SizeUpTo(t)[k - 1 + n] <= SizeUpTo(s)[k + n]
    BY <1>1, <1>4
  <2>2. SizeUpTo(t)[m - 1] <= SizeUpTo(s)[m]
    BY <2>1
  <2>3. t[m] = s[m + 1] /\ t[m] \in Entry
    BY <2>1, ElementOfSeq
  <2>4. /\ SizeUpTo(t)[m] = SizeUpTo(t)[m - 1] + (Overhead + Size[t[m].data])
        /\ SizeUpTo(s)[m + 1] = SizeUpTo(s)[m] + (Overhead + Size[s[m + 1].data])
    BY <2>1, SizeSteps
  <2>5. /\ SizeUpTo(s)[m] \in Nat /\ SizeUpTo(t)[m - 1] \in Nat
        /\ Overhead + Size[t[m].data] \in Nat
    BY <1>2, <2>1, <2>3, EntrySize
  <2> HIDE DEF m, T
  <2>6. SizeUpTo(t)[m] <= SizeUpTo(s)[m + 1]
    BY <2>2, <2>3, <2>4, <2>5
  <2> QED
    BY <2>1, <2>6
<1>5. Len(s) - k \in T
  <2> HIDE DEF T
  <2> QED
    BY <1>1, <1>3, <1>4, Induct
<1>6. k + (Len(s) - k) = Len(s) /\ k - 1 + (Len(s) - k) = Len(t)
  BY <1>1
<1> QED
  BY <1>5, <1>6 DEF SerializedSize

(* A list that fits: what set() lets in. *)
Fits(s) ==
  /\ SerializedSize(s) <= MaxFile
  /\ \A i \in DOMAIN s : Size[s[i].data] <= MaxData

LEMMA EmptyFits == <<>> \in Seq(Entry) /\ Fits(<<>>)
<1>1. <<>> \in Seq(Entry) /\ Len(<<>>) = 0
  BY EmptySeq
<1>2. SerializedSize(<<>>) = Header
  BY <1>1, SizeSteps DEF SerializedSize
<1> QED
  BY <1>1, <1>2, SizesAssumption DEF Fits

LEMMA FrontFits ==
  ASSUME NEW s \in Seq(Entry), NEW k \in 0..Len(s), Fits(s)
  PROVE  Fits(SubSeq(s, 1, k)) /\ SerializedSize(SubSeq(s, 1, k)) = SizeUpTo(s)[k]
<1> DEFINE t == SubSeq(s, 1, k)
<1>1. t \in Seq(Entry) /\ Len(t) = k /\ \A i \in 1..k : t[i] = s[i]
  BY FrontPart
<1>2. Len(s) \in Nat /\ k <= Len(s) /\ DOMAIN s = 1..Len(s)
  BY LenProperties
<1> HIDE DEF t
<1>3. SerializedSize(t) = SizeUpTo(s)[k]
  BY <1>1, <1>2, SizesAgree DEF SerializedSize
<1>4. SizeUpTo(s)[k] <= MaxFile
  <2>1. SizeUpTo(s)[k] <= SerializedSize(s) /\ SizeUpTo(s)[k] \in Nat /\ SerializedSize(s) \in Nat
    BY <1>2, SizesGrow, SizesAreNumbers DEF SerializedSize
  <2> QED
    BY <2>1, SizesAssumption DEF Fits
<1>5. \A i \in DOMAIN t : Size[t[i].data] <= MaxData
  BY <1>1, <1>2, LenProperties DEF Fits
<1> QED
  BY <1>3, <1>4, <1>5 DEF Fits, t

(* What fits is loaded as it is. *)
LEMMA FittingLoads ==
  ASSUME NEW s \in Seq(Entry), Fits(s)
  PROVE  Loaded(FileOf(s)) = s
<1>1. Len(s) \in Nat /\ DOMAIN s = 1..Len(s)
  BY LenProperties
<1>2. \A j \in 1..Len(s) : /\ Size[s[j].data] <= MaxData
                           /\ SerializedSize(SubSeq(s, 1, j)) <= MaxFile
  BY <1>1, FrontFits DEF Fits
<1>3. Acceptable(s) = 1..Len(s)
  BY <1>1, <1>2 DEF Acceptable
<1>4. Cardinality(Acceptable(s)) = Len(s)
  BY <1>1, <1>3, FS_Interval
<1>5. SubSeq(s, 1, Len(s)) = s
  BY SubSeqFull
<1> QED
  BY <1>4, <1>5 DEF Loaded, FileOf

-----------------------------------------------------------------------------
(* The inductive invariant.  What the properties do not say by themselves:   *)
(* a copy under way has written a front part of the list, a save that has    *)
(* not reached the file still has the old list there, a request whose save   *)
(* runs has no answer yet, and the walk has seen the front of the list.      *)

CopyIsFront ==
  call # NoCall /\ call.phase = "copy" =>
    /\ ~file.header => file.entries = <<>>
    /\ \E k \in 0..Len(entries) : file.entries = SubSeq(entries, 1, k)

TempKeepsOld ==
  call # NoCall /\ call.phase = "temp" => call.before = Loaded(file)

NotAnswered == call # NoCall => resp = NoResp

WalkSound ==
  ~walk.shifted /\ ~walk.done =>
    /\ walk.next <= Len(entries)
    /\ \A i \in 1..walk.next : entries[i].name \in walk.seen

IInv ==
  /\ TypeOK
  /\ UniqueStored
  /\ CopyIsFront
  /\ TempKeepsOld
  /\ NotAnswered
  /\ AcknowledgedIsDurable
  /\ WalkSound

(* A change of the list, with what it does to the walk, keeps the invariant. *)
LEMMA MutateKeeps ==
  ASSUME IInv, NEW kind \in Kinds, NEW new \in Seq(Entry), UniqueNames(new),
         Mutate(kind, new), walk' \in Walk, WalkSound'
  PROVE  IInv'
<1> DEFINE c == [phase |-> "temp", kind |-> kind, before |-> Loaded(file)]
<1>1. Loaded(file) \in Seq(Entry)
  <2>1. PICK k \in 0..Len(file.entries) : Loaded(file) = SubSeq(file.entries, 1, k)
    BY LoadedIsFront DEF IInv, TypeOK
  <2>2. file.entries \in Seq(Entry)
    BY DEF IInv, TypeOK, File
  <2> QED
    BY <2>1, <2>2, FrontPart
<1>2. c \in Call /\ c # NoCall /\ c.phase = "temp"
  BY <1>1 DEF Call, NoCall
<1>3. /\ call' = c /\ entries' = new /\ resp' = NoResp
      /\ file' = file /\ lastSave' = lastSave
  BY DEF Mutate
<1>4. TypeOK'
  BY <1>2, <1>3 DEF IInv, TypeOK
<1>5. UniqueStored'
  BY <1>3 DEF IInv, UniqueStored
<1>6. Loaded(file)' = Loaded(file)
  BY <1>3
<1>7. CopyIsFront' /\ TempKeepsOld' /\ NotAnswered' /\ AcknowledgedIsDurable'
  BY <1>2, <1>3, <1>6
     DEF CopyIsFront, TempKeepsOld, NotAnswered, AcknowledgedIsDurable, Idle
<1> QED
  BY <1>4, <1>5, <1>7 DEF IInv

(* So does a call that is turned down: it changes the answer only, and that  *)
(* is not "success" except for a set of length 0.                            *)
LEMMA RejectKeeps ==
  ASSUME IInv, NEW kind \in Kinds, Reject(kind)
  PROVE  IInv'
<1>1. /\ entries' = entries /\ file' = file /\ call' = call
      /\ lastSave' = lastSave /\ walk' = walk /\ call = NoCall
  BY DEF Reject, Idle
<1> DEFINE code == Outcome(kind, FALSE)
<1>2. resp' = resp \/ resp' = [kind |-> kind, code |-> code]
  BY DEF Reject, Return, Answer
<1>3. code \in Codes /\ (code = "success" => kind = "setEmpty")
  BY DEF Outcome, Codes, Kinds
<1> HIDE DEF code
<1>4. resp' \in Resp \cup {NoResp}
  <2>1. [kind |-> kind, code |-> code] \in Resp
    BY <1>3 DEF Resp
  <2> QED
    BY <1>2, <2>1 DEF IInv, TypeOK
<1>5. Loaded(file)' = Loaded(file)
  BY <1>1
<1>6. AcknowledgedIsDurable'
  BY <1>1, <1>2, <1>3, <1>5 DEF IInv, AcknowledgedIsDurable, Idle
<1> QED
  BY <1>1, <1>4, <1>5, <1>6
     DEF IInv, TypeOK, UniqueStored, CopyIsFront, TempKeepsOld, NotAnswered, WalkSound

LEMMA SetKeeps ==
  ASSUME IInv, NEW kind \in Kinds, NEW n, NEW d \in Data, DoSet(kind, n, d)
  PROVE  IInv'
<1>1. CASE Settable(entries, n, d) /\ Mutate(kind, Put(entries, n, d)) /\ UNCHANGED walk
  <2>1. n \in Names /\ entries \in Seq(Entry) /\ UniqueNames(entries) /\ walk \in Walk
    BY <1>1 DEF Settable, IInv, TypeOK, UniqueStored
  <2>2. /\ Put(entries, n, d) \in Seq(Entry)
        /\ UniqueNames(Put(entries, n, d))
        /\ Len(Put(entries, n, d)) >= Len(entries)
        /\ \A i \in 1..Len(entries) : Put(entries, n, d)[i].name = entries[i].name
    BY <2>1, PutProperties
  <2>3. entries' = Put(entries, n, d) /\ walk' = walk
    BY <1>1 DEF Mutate
  <2>4. walk.next \in Nat /\ Len(entries) \in Nat /\ Len(entries') \in Nat
    BY <2>1, <2>2, <2>3, LenProperties DEF Walk
  <2>5. WalkSound'
    BY <2>2, <2>3, <2>4 DEF IInv, WalkSound
  <2> QED
    BY <1>1, <2>1, <2>2, <2>3, <2>5, MutateKeeps
<1>2. CASE Reject(kind)
  BY <1>2, RejectKeeps
<1> QED
  BY <1>1, <1>2 DEF DoSet

LEMMA DeleteKeeps ==
  ASSUME IInv, NEW kind \in Kinds, NEW n, DoDelete(kind, n)
  PROVE  IInv'
<1>1. CASE /\ Has(entries, n)
           /\ Mutate(kind, Erase(entries, n))
           /\ ShiftWalk(IndexOf(entries, n))
  <2>1. entries \in Seq(Entry) /\ UniqueNames(entries) /\ walk \in Walk
    BY DEF IInv, TypeOK, UniqueStored
  <2>2. /\ Erase(entries, n) \in Seq(Entry)
        /\ UniqueNames(Erase(entries, n))
        /\ Len(Erase(entries, n)) = Len(entries) - 1
        /\ IndexOf(entries, n) \in 1..Len(entries)
        /\ \A i \in 1..(IndexOf(entries, n) - 1) : Erase(entries, n)[i] = entries[i]
    BY <1>1, <2>1, EraseProperties
  <2>3. entries' = Erase(entries, n)
    BY <1>1 DEF Mutate
  <2>4. walk.next \in Nat /\ Len(entries) \in Nat
    BY <2>1, LenProperties DEF Walk
  <2>5. CASE IndexOf(entries, n) <= walk.next
    <3>1. walk' \in Walk /\ walk'.shifted
      BY <1>1, <2>1, <2>5 DEF ShiftWalk, Walk
    <3>2. WalkSound'
      BY <3>1 DEF WalkSound
    <3> QED
      BY <1>1, <2>2, <3>1, <3>2, MutateKeeps
  <2>6. CASE ~(IndexOf(entries, n) <= walk.next)
    <3>1. walk' = walk
      BY <1>1, <2>6 DEF ShiftWalk
    <3>2. walk.next <= IndexOf(entries, n) - 1
      BY <2>2, <2>4, <2>6
    <3>3. \A i \in 1..walk.next : entries'[i] = entries[i]
      BY <2>2, <2>3, <2>4, <3>2
    <3>4. walk.next <= Len(entries')
      BY <2>2, <2>3, <2>4, <3>2
    <3>5. WalkSound'
      BY <3>1, <3>3, <3>4 DEF IInv, WalkSound
    <3> QED
      BY <1>1, <2>1, <2>2, <3>1, <3>5, MutateKeeps
  <2> QED
    BY <2>5, <2>6
<1>2. CASE Reject(kind)
  BY <1>2, RejectKeeps
<1> QED
  BY <1>1, <1>2 DEF DoDelete

LEMMA DeleteAllKeeps ==
  ASSUME IInv, DoDeleteAll
  PROVE  IInv'
<1>1. <<>> \in Seq(Entry) /\ UniqueNames(<<>>) /\ Len(<<>>) = 0
  BY EmptySeq DEF UniqueNames
<1>2. entries' = <<>> /\ ShiftWalk(1) /\ Mutate("deleteAll", <<>>) /\ walk \in Walk
  BY DEF DoDeleteAll, Mutate, IInv, TypeOK
<1>3. walk' \in Walk
  BY <1>2 DEF ShiftWalk, Walk
<1>4. WalkSound'
  BY <1>1, <1>2 DEF ShiftWalk, Walk, WalkSound
<1>5. "deleteAll" \in Kinds
  BY DEF Kinds
<1> QED
  BY <1>1, <1>2, <1>3, <1>4, <1>5, MutateKeeps

(* A save that ends has the whole list in the file, or is said to have       *)
(* failed.                                                                   *)
LEMMA FinishKeeps ==
  ASSUME IInv, NEW ok \in BOOLEAN, call # NoCall, Finish(ok), UNCHANGED file,
         ok => file = FileOf(entries)
  PROVE  IInv'
<1> DEFINE code == Outcome(call.kind, ok)
           status == IF ok THEN "ok" ELSE "failed"
<1>1. /\ entries' = entries /\ file' = file /\ call' = NoCall /\ walk' = walk
      /\ lastSave' = status
  BY DEF Finish
<1>2. resp' = resp \/ resp' = [kind |-> call.kind, code |-> code]
  BY DEF Finish, Return, Answer
<1>3. call \in Call /\ call.kind \in Kinds
  BY DEF IInv, TypeOK, Call
<1>4. code \in Codes /\ (code = "success" => ok \/ call.kind = "setEmpty")
  BY <1>3 DEF Outcome, Codes, Kinds
<1>5. /\ status \in {"ok", "failed"}
      /\ status = "ok" => ok
      /\ ok => status = "ok"
  OBVIOUS
<1> HIDE DEF code, status
<1>6. TypeOK'
  <2>1. [kind |-> call.kind, code |-> code] \in Resp
    BY <1>3, <1>4 DEF Resp
  <2> QED
    BY <1>1, <1>2, <1>5, <2>1 DEF IInv, TypeOK
<1>7. resp = NoResp
  BY DEF IInv, NotAnswered
<1>8. AcknowledgedIsDurable'
  <2>1. lastSave' = "ok" => file' = FileOf(entries)'
    BY <1>1, <1>5
  <2>2. lastSave' # "none"
    BY <1>1, <1>5
  <2>3. resp' # NoResp /\ resp'.code = "success" /\ resp'.kind # "setEmpty"
          => lastSave' = "ok"
    BY <1>1, <1>2, <1>4, <1>5, <1>7
  <2> QED
    BY <2>1, <2>2, <2>3 DEF AcknowledgedIsDurable
<1> QED
  BY <1>1, <1>6, <1>8
     DEF IInv, UniqueStored, CopyIsFront, TempKeepsOld, NotAnswered, WalkSound

(* The steps of a save.  The file holds a front part of the list throughout. *)
LEMMA SavingKeeps ==
  ASSUME IInv, Saving
  PROVE  IInv'
<1>1. CASE SaveFails
  BY <1>1, FinishKeeps DEF SaveFails
<1>2. CASE OpenTarget
  <2>1. /\ call # NoCall /\ call' = [call EXCEPT !.phase = "copy"] /\ file' = NoFile
        /\ entries' = entries /\ lastSave' = lastSave /\ resp' = resp /\ walk' = walk
    BY <1>2 DEF OpenTarget
  <2>2. call' \in Call /\ call' # NoCall /\ call'.phase = "copy"
    BY <2>1 DEF IInv, TypeOK, Call, NoCall
  <2>3. /\ NoFile \in File /\ NoFile.entries = <<>>
        /\ <<>> \in Seq(Entry) /\ UniqueNames(<<>>)
    BY EmptySeq DEF NoFile, File, UniqueNames
  <2>4. 0 \in 0..Len(entries) /\ SubSeq(entries, 1, 0) = <<>>
    BY LenProperties, SubSeqEmpty DEF IInv, TypeOK
  <2> QED
    BY <2>1, <2>2, <2>3, <2>4
       DEF IInv, TypeOK, UniqueStored, CopyIsFront, TempKeepsOld, NotAnswered,
           AcknowledgedIsDurable, Idle, WalkSound
<1>3. CASE CopyHeader
  <2>1. /\ call # NoCall /\ call.phase = "copy" /\ call' = call
        /\ file' = FileOf(<<>>) /\ entries' = entries
        /\ lastSave' = lastSave /\ resp' = resp /\ walk' = walk
    BY <1>3 DEF CopyHeader
  <2>2. /\ FileOf(<<>>) \in File /\ FileOf(<<>>).header /\ FileOf(<<>>).entries = <<>>
        /\ UniqueNames(<<>>)
    BY EmptySeq DEF FileOf, File, UniqueNames
  <2>3. 0 \in 0..Len(entries) /\ SubSeq(entries, 1, 0) = <<>>
    BY LenProperties, SubSeqEmpty DEF IInv, TypeOK
  <2> QED
    BY <2>1, <2>2, <2>3
       DEF IInv, TypeOK, UniqueStored, CopyIsFront, TempKeepsOld, NotAnswered,
           AcknowledgedIsDurable, Idle, WalkSound
<1>4. CASE CopyEntry
  <2> DEFINE k == Len(file.entries) + 1
             part == SubSeq(entries, 1, k)
  <2>1. /\ call # NoCall /\ call.phase = "copy" /\ call' = call
        /\ Len(file.entries) < Len(entries)
        /\ file' = FileOf(part) /\ entries' = entries
        /\ lastSave' = lastSave /\ resp' = resp /\ walk' = walk
    BY <1>4 DEF CopyEntry
  <2>2. k \in 0..Len(entries)
    <3>1. file.entries \in Seq(Entry) /\ entries \in Seq(Entry)
      BY DEF IInv, TypeOK, File
    <3> QED
      BY <2>1, <3>1, LenProperties
  <2>3. part \in Seq(Entry) /\ UniqueNames(part)
    BY <2>2, FrontPart DEF IInv, TypeOK, UniqueStored
  <2>4. FileOf(part) \in File /\ FileOf(part).header /\ FileOf(part).entries = part
    BY <2>3 DEF FileOf, File
  <2> HIDE DEF k
  <2> QED
    BY <2>1, <2>2, <2>3, <2>4
       DEF IInv, TypeOK, UniqueStored, CopyIsFront, TempKeepsOld, NotAnswered,
           AcknowledgedIsDurable, Idle, WalkSound
<1>5. CASE CopyFails
  BY <1>5, FinishKeeps DEF CopyFails
<1>6. CASE CopyDone
  BY <1>6, FinishKeeps DEF CopyDone, Copied
<1> QED
  BY <1>1, <1>2, <1>3, <1>4, <1>5, <1>6 DEF Saving

LEMMA RestartKeeps ==
  ASSUME IInv, Restart
  PROVE  IInv'
<1>1. /\ entries' = Loaded(file) /\ file' = file /\ call' = NoCall
      /\ lastSave' = "none" /\ resp' = NoResp
  BY DEF Restart
<1>2. entries' \in Seq(Entry) /\ UniqueNames(entries')
  <2>1. PICK k \in 0..Len(file.entries) : Loaded(file) = SubSeq(file.entries, 1, k)
    BY LoadedIsFront DEF IInv, TypeOK
  <2>2. file.entries \in Seq(Entry) /\ UniqueNames(file.entries)
    BY DEF IInv, TypeOK, File, UniqueStored
  <2> QED
    BY <1>1, <2>1, <2>2, FrontPart
<1>3. walk' \in Walk /\ walk'.shifted
  <2>1. walk \in Walk /\ 0 <= walk.next
    BY DEF IInv, TypeOK, Walk
  <2>2. walk' = [walk EXCEPT !.shifted = TRUE]
    BY <2>1 DEF Restart, ShiftWalk
  <2> QED
    BY <2>1, <2>2 DEF Walk
<1>4. Loaded(file)' = Loaded(file)
  BY <1>1
<1> QED
  BY <1>1, <1>2, <1>3, <1>4
     DEF IInv, TypeOK, UniqueStored, CopyIsFront, TempKeepsOld, NotAnswered,
         AcknowledgedIsDurable, Idle, WalkSound

LEMMA StartWalkKeeps ==
  ASSUME IInv, StartWalk
  PROVE  IInv'
<1>1. /\ walk' = NewWalk /\ resp' = NoResp
      /\ entries' = entries /\ file' = file /\ call' = call /\ lastSave' = lastSave
  BY DEF StartWalk
<1>2. NewWalk \in Walk /\ NewWalk.next = 0
  BY DEF NewWalk, Walk
<1>3. Len(entries) \in Nat
  BY LenProperties DEF IInv, TypeOK
<1>4. Loaded(file)' = Loaded(file)
  BY <1>1
<1> QED
  BY <1>1, <1>2, <1>3, <1>4
     DEF IInv, TypeOK, UniqueStored, CopyIsFront, TempKeepsOld, NotAnswered,
         AcknowledgedIsDurable, Idle, WalkSound

LEMMA GetByIndexKeeps ==
  ASSUME IInv, GetByIndex
  PROVE  IInv'
<1>1. /\ resp' = NoResp /\ entries' = entries /\ file' = file
      /\ call' = call /\ lastSave' = lastSave
  BY DEF GetByIndex
<1>2. /\ entries \in Seq(Entry) /\ Len(entries) \in Nat
      /\ walk \in Walk /\ walk.next \in Nat
  BY LenProperties DEF IInv, TypeOK, Walk
<1>3. walk' \in Walk /\ WalkSound'
  <2>1. CASE walk.next >= Len(entries)
    <3>1. walk' = EndedWalk
      BY <2>1 DEF GetByIndex
    <3> QED
      BY <3>1 DEF EndedWalk, NewWalk, Walk, WalkSound
  <2>2. CASE ~(walk.next >= Len(entries))
    <3>1. walk' = [walk EXCEPT !.next = @ + 1,
                               !.seen = @ \cup {entries[walk.next + 1].name}]
      BY <2>2 DEF GetByIndex
    <3>2. walk.next + 1 \in 1..Len(entries)
      BY <1>2, <2>2
    <3>3. entries[walk.next + 1].name \in Names
      <4>1. entries[walk.next + 1] \in Entry
        BY <1>2, <3>2, ElementOfSeq
      <4> QED
        BY <4>1 DEF Entry
    <3>4. walk' \in Walk
      <4>1. /\ walk.seen \cup {entries[walk.next + 1].name} \in SUBSET Names
            /\ walk.next + 1 \in Nat
        BY <1>2, <3>3 DEF Walk
      <4> QED
        BY <1>2, <3>1, <4>1 DEF Walk
    <3>5. /\ walk'.next = walk.next + 1
          /\ walk'.seen = walk.seen \cup {entries[walk.next + 1].name}
          /\ walk'.shifted = walk.shifted /\ walk'.done = walk.done
      BY <1>2, <3>1 DEF Walk
    <3>6. WalkSound'
      BY <1>1, <1>2, <3>2, <3>5 DEF IInv, WalkSound
    <3> QED
      BY <3>4, <3>6
  <2> QED
    BY <2>1, <2>2
<1>4. Loaded(file)' = Loaded(file)
  BY <1>1
<1> QED
  BY <1>1, <1>3, <1>4
     DEF IInv, TypeOK, UniqueStored, CopyIsFront, TempKeepsOld, NotAnswered,
         AcknowledgedIsDurable, Idle

(* A request of the host, whatever its flags, name, data and length.         *)
LEMMA HostRequestKeeps ==
  ASSUME IInv, NEW r \in Requests, HostRequest(r)
  PROVE  IInv'
<1>1. r.data \in Data
  BY NamesAssumption
<1>2. CASE HostDeleteAll(r)
  BY <1>2, DeleteAllKeeps DEF HostDeleteAll
<1>3. CASE HostDelete(r)
  <2>1. "delete" \in Kinds
    BY DEF Kinds
  <2> QED
    BY <1>3, <2>1, DeleteKeeps DEF HostDelete
<1>4. CASE HostSet(r)
  <2>1. "set" \in Kinds
    BY DEF Kinds
  <2> QED
    BY <1>1, <1>4, <2>1, SetKeeps DEF HostSet
<1>5. CASE HostSetEmpty(r)
  <2>1. "setEmpty" \in Kinds
    BY DEF Kinds
  <2> QED
    BY <1>5, <2>1, DeleteKeeps DEF HostSetEmpty
<1>6. CASE HostBadRequest(r)
  <2>1. ASSUME NEW code \in Codes \ {"success"}, Refuse(code)
        PROVE  IInv'
    <3>1. /\ entries' = entries /\ file' = file /\ call' = call /\ call = NoCall
          /\ lastSave' = lastSave /\ walk' = walk
          /\ resp' = [kind |-> "refused", code |-> code]
      BY <2>1 DEF Refuse, Answer, Idle
    <3>2. resp' \in Resp /\ resp'.code # "success"
      BY <3>1 DEF Resp, Codes
    <3>3. Loaded(file)' = Loaded(file)
      BY <3>1
    <3> QED
      BY <3>1, <3>2, <3>3
         DEF IInv, TypeOK, UniqueStored, CopyIsFront, TempKeepsOld, NotAnswered,
             AcknowledgedIsDurable, Idle, WalkSound
  <2>2. {"noSuchEv", "nameTooLong", "dataTooLarge", "unsupported"} \subseteq Codes \ {"success"}
    BY DEF Codes
  <2> QED
    BY <1>6, <2>1, <2>2 DEF HostBadRequest
<1> QED
  BY <1>2, <1>3, <1>4, <1>5, <1>6 DEF HostRequest

LEMMA InitHolds == Init => IInv
<1> SUFFICES ASSUME Init PROVE IInv
  OBVIOUS
<1>1. /\ <<>> \in Seq(Entry) /\ UniqueNames(<<>>) /\ Len(<<>>) = 0
  BY EmptySeq DEF UniqueNames
<1>2. /\ NoFile \in File /\ NoFile.entries = <<>> /\ Loaded(NoFile) = <<>>
  BY <1>1 DEF NoFile, File, Loaded
<1>3. NewWalk \in Walk /\ NewWalk.next = 0
  BY DEF NewWalk, Walk
<1> QED
  BY <1>1, <1>2, <1>3
     DEF Init, IInv, TypeOK, UniqueStored, CopyIsFront, TempKeepsOld, NotAnswered,
         AcknowledgedIsDurable, WalkSound

LEMMA NextKeeps == IInv /\ [Next]_vars => IInv'
<1> SUFFICES ASSUME IInv, [Next]_vars PROVE IInv'
  OBVIOUS
<1>1. ASSUME NEW r \in Requests, HostRequest(r) PROVE IInv'
  BY <1>1, HostRequestKeeps
<1>2. "bmc" \in Kinds
  BY DEF Kinds
<1>3. ASSUME NEW n \in BmcNames, NEW d \in Data, BmcSet(n, d) PROVE IInv'
  BY <1>2, <1>3, SetKeeps DEF BmcSet
<1>4. ASSUME NEW n \in BmcNames, BmcDelete(n) PROVE IInv'
  BY <1>2, <1>4, DeleteKeeps DEF BmcDelete
<1>5. CASE Saving
  BY <1>5, SavingKeeps
<1>6. CASE Restart
  BY <1>6, RestartKeeps
<1>7. CASE StartWalk
  BY <1>7, StartWalkKeeps
<1>8. CASE GetByIndex
  BY <1>8, GetByIndexKeeps
<1>9. CASE UNCHANGED vars
  <2>1. /\ entries' = entries /\ file' = file /\ call' = call
        /\ lastSave' = lastSave /\ resp' = resp /\ walk' = walk
    BY <1>9 DEF vars
  <2>2. Loaded(file)' = Loaded(file)
    BY <2>1
  <2> QED
    BY <2>1, <2>2
       DEF IInv, TypeOK, UniqueStored, CopyIsFront, TempKeepsOld, NotAnswered,
           AcknowledgedIsDurable, Idle, WalkSound
<1> QED
  BY <1>1, <1>3, <1>4, <1>5, <1>6, <1>7, <1>8, <1>9 DEF Next

(* The inductive invariant holds always. *)
THEOREM Invariant == Spec => []IInv
  BY InitHolds, NextKeeps, PTL DEF Spec

(* Type correctness. *)
THEOREM TypeCorrect == Spec => []TypeOK
<1>1. IInv => TypeOK
  BY DEF IInv
<1> QED
  BY <1>1, Invariant, PTL

(* No name is stored twice, in memory or on disk, through any sequence of    *)
(* requests, failed saves and restarts.                                      *)
THEOREM NoDuplicates == Spec => []UniqueStored
<1>1. IInv => UniqueStored
  BY DEF IInv
<1> QED
  BY <1>1, Invariant, PTL

(* What the host was told is saved is in the file, and a running daemon that *)
(* is not saving and whose last save did not fail agrees with its file.      *)
THEOREM Durability == Spec => []AcknowledgedIsDurable
<1>1. IInv => AcknowledgedIsDurable
  BY DEF IInv
<1> QED
  BY <1>1, Invariant, PTL

-----------------------------------------------------------------------------
(* A crash in a save costs the list its tail at most: the daemon comes back  *)
(* with the list as it was, or with a front part of the new one.             *)
THEOREM CrashLoss == Spec => CrashLosesOnlyTail
<1> DEFINE Kept == ~Idle /\ call' = NoCall /\ lastSave' = "none"
                    => IF call.phase = "temp"
                       THEN entries' = call.before
                       ELSE \E k \in 0..Len(entries) : entries' = SubSeq(entries, 1, k)
<1>1. IInv /\ [Next]_vars => [Kept]_vars
  <2> SUFFICES ASSUME IInv, Next, ~Idle, call' = NoCall, lastSave' = "none"
               PROVE  Kept
    OBVIOUS
  <2>1. call \in Call /\ call # NoCall
    BY DEF IInv, TypeOK, Idle
  <2>2. Saving \/ Restart
    BY DEF Next, HostRequest, HostDeleteAll, HostDelete, HostSet, HostSetEmpty,
           HostBadRequest, BmcSet, BmcDelete, DoSet, DoDelete, DoDeleteAll, Mutate,
           Reject, Refuse, StartWalk, GetByIndex
  <2>3. ~Saving
    <3>1. [call EXCEPT !.phase = "copy"] # NoCall
      BY <2>1 DEF Call, NoCall
    <3> QED
      BY <2>1, <3>1 DEF Saving, SaveFails, OpenTarget, CopyHeader, CopyEntry, CopyFails,
                        CopyDone, Finish
  <2>4. entries' = Loaded(file)
    BY <2>2, <2>3 DEF Restart
  <2>5. CASE call.phase = "temp"
    BY <2>1, <2>4, <2>5 DEF IInv, TempKeepsOld
  <2>6. CASE call.phase # "temp"
    <3>1. PICK k \in 0..Len(entries) : file.entries = SubSeq(entries, 1, k)
      BY <2>1, <2>6 DEF IInv, CopyIsFront, Call
    <3>2. PICK m \in 0..Len(file.entries) : Loaded(file) = SubSeq(file.entries, 1, m)
      BY LoadedIsFront DEF IInv, TypeOK
    <3>3. entries \in Seq(Entry) /\ Len(entries) \in Nat
      BY LenProperties DEF IInv, TypeOK
    <3>4. m \in 0..k
      BY <3>1, <3>2, <3>3, FrontPart
    <3>5. entries' = SubSeq(entries, 1, m)
      BY <2>4, <3>1, <3>2, <3>3, <3>4, FrontOfFront
    <3>6. m \in 0..Len(entries)
      BY <3>3, <3>4
    <3> QED
      BY <2>6, <3>5, <3>6
  <2> QED
    BY <2>5, <2>6
<1> QED
  BY <1>1, Invariant, PTL DEF Spec, CrashLosesOnlyTail

(* A walk that was told "no such EV", and before which nothing it had read   *)
(* was erased, has read the whole store, whatever was added or updated       *)
(* while it was under way.                                                   *)
THEOREM WalksAreComplete == Spec => WalkComplete
<1> DEFINE Complete == walk'.done /\ ~walk.done /\ ~walk.shifted
                        => {e.name : e \in Range(entries)} \subseteq walk.seen
<1>1. IInv /\ [Next]_vars => [Complete]_vars
  <2> SUFFICES ASSUME IInv, Next, walk'.done, ~walk.done, ~walk.shifted
               PROVE  {e.name : e \in Range(entries)} \subseteq walk.seen
    OBVIOUS
  <2>1. walk \in Walk
    BY DEF IInv, TypeOK
  <2>2. walk' # walk /\ walk' # [walk EXCEPT !.shifted = TRUE] /\ walk' # NewWalk
    BY <2>1 DEF Walk, NewWalk
  <2>3. \A i : ~ShiftWalk(i)
    BY <2>2 DEF ShiftWalk
  <2>4. GetByIndex
    BY <2>2, <2>3
       DEF Next, HostRequest, HostDeleteAll, HostDelete, HostSet, HostSetEmpty,
           HostBadRequest, BmcSet, BmcDelete, DoSet, DoDelete, DoDeleteAll,
           Reject, Refuse, StartWalk, Restart, Saving, SaveFails, OpenTarget,
           CopyHeader, CopyEntry, CopyFails, CopyDone, Finish
  <2>5. walk.next >= Len(entries)
    BY <2>1, <2>4 DEF GetByIndex, Walk
  <2>6. walk.next <= Len(entries) /\ \A i \in 1..walk.next : entries[i].name \in walk.seen
    BY DEF IInv, WalkSound
  <2>7. walk.next = Len(entries) /\ DOMAIN entries = 1..Len(entries)
    BY <2>1, <2>5, <2>6, LenProperties DEF IInv, TypeOK, Walk
  <2>8. \A i \in DOMAIN entries : entries[i].name \in walk.seen
    BY <2>6, <2>7
  <2> QED
    BY <2>8 DEF Range
<1> QED
  BY <1>1, Invariant, PTL DEF Spec, WalkComplete
-----------------------------------------------------------------------------
(* What is in the list and in the file fits, so that load() takes all of it. *)

EverythingFits == Fits(entries) /\ Fits(file.entries)

LEMMA PutFits ==
  ASSUME NEW s \in Seq(Entry), NEW n, NEW d \in Data, UniqueNames(s), Fits(s), Settable(s, n, d)
  PROVE  Fits(Put(s, n, d))
<1> DEFINE e == [name |-> n, data |-> d]
<1>1. e \in Entry /\ n \in Names /\ Size[d] <= MaxData /\ Size[d] \in Nat
  BY SizesAssumption DEF Settable, Entry
<1>2. Len(s) \in Nat /\ DOMAIN s = 1..Len(s) /\ SerializedSize(s) \in Nat
  BY LenProperties, SizesAreNumbers DEF SerializedSize
<1>3. CASE Has(s, n)
  <2> DEFINE k == IndexOf(s, n)
             t == [s EXCEPT ![k] = e]
  <2>1. k \in 1..Len(s)
    BY <1>3, IndexOfFound
  <2>2. /\ t \in Seq(Entry) /\ Len(t) = Len(s)
        /\ \A i \in 1..Len(s) : t[i] = IF i = k THEN e ELSE s[i]
    BY <1>1, <2>1, ExceptSeq
  <2>3. Put(s, n, d) = t /\ Get(s, n) = s[k].data
    BY <1>3 DEF Put, Get
  <2>4. Size[d] > Size[s[k].data] => SerializedSize(s) + (Size[d] - Size[s[k].data]) <= MaxFile
    BY <1>3, <2>3 DEF Settable, Room
  <2> HIDE DEF k, t
  <2>5. t[k] = e /\ \A i \in 1..Len(s) : i # k => t[i] = s[i]
    BY <2>1, <2>2
  <2>6. SerializedSize(t) = SerializedSize(s) + (Size[d] - Size[s[k].data])
    BY <2>1, <2>2, <2>5, ReplaceSize
  <2>7. Size[s[k].data] \in Nat
    <3>1. s[k] \in Entry
      BY <2>1, ElementOfSeq
    <3>2. s[k].data \in Data
      BY <3>1 DEF Entry
    <3> QED
      BY <3>2, SizesAssumption
  <2>8. SerializedSize(t) <= MaxFile
    BY <1>1, <1>2, <2>4, <2>6, <2>7, SizesAssumption DEF Fits
  <2>9. \A i \in DOMAIN t : Size[t[i].data] <= MaxData
    BY <1>1, <1>2, <2>2, LenProperties DEF Fits
  <2> QED
    BY <2>3, <2>8, <2>9 DEF Fits
<1>4. CASE ~Has(s, n)
  <2> DEFINE t == Append(s, e)
  <2>1. /\ t \in Seq(Entry) /\ DOMAIN t = 1..(Len(s) + 1)
        /\ \A i \in 1..Len(s) : t[i] = s[i]
        /\ t[Len(s) + 1] = e
    BY <1>1, AppendProperties, LenProperties
  <2>2. SerializedSize(t) = SerializedSize(s) + (Overhead + Size[d])
    BY <1>1, AppendSize
  <2>3. SerializedSize(s) + Overhead + Size[d] <= MaxFile
    BY <1>4 DEF Settable, Room
  <2>4. Put(s, n, d) = t
    BY <1>4 DEF Put
  <2> HIDE DEF t
  <2>5. SerializedSize(t) <= MaxFile
    BY <1>1, <1>2, <2>2, <2>3, SizesAssumption
  <2>6. \A i \in DOMAIN t : Size[t[i].data] <= MaxData
    BY <1>1, <1>2, <2>1 DEF Fits
  <2> QED
    BY <2>4, <2>5, <2>6 DEF Fits
<1> QED
  BY <1>3, <1>4

LEMMA EraseFits ==
  ASSUME NEW s \in Seq(Entry), NEW n, UniqueNames(s), Has(s, n), Fits(s)
  PROVE  Fits(Erase(s, n))
<1> DEFINE t == Erase(s, n)
           k == IndexOf(s, n)
<1>1. /\ t \in Seq(Entry) /\ Len(t) = Len(s) - 1 /\ k \in 1..Len(s)
      /\ \A i \in 1..(k - 1) : t[i] = s[i]
      /\ \A i \in k..(Len(s) - 1) : t[i] = s[i + 1]
  BY EraseProperties
<1> HIDE DEF t, k
<1>2. /\ Len(s) \in Nat /\ DOMAIN s = 1..Len(s) /\ DOMAIN t = 1..(Len(s) - 1)
      /\ SerializedSize(s) \in Nat /\ SerializedSize(t) \in Nat
  BY <1>1, LenProperties, SizesAreNumbers DEF SerializedSize
<1>3. SerializedSize(t) <= SerializedSize(s)
  BY <1>1, EraseSize
<1>4. SerializedSize(t) <= MaxFile
  BY <1>2, <1>3, SizesAssumption DEF Fits
<1>5. \A i \in DOMAIN t : Size[t[i].data] <= MaxData
  <2> TAKE i \in DOMAIN t
  <2>1. CASE i < k
    BY <1>1, <1>2, <2>1 DEF Fits
  <2>2. CASE ~(i < k)
    <3>1. i \in k..(Len(s) - 1) /\ i + 1 \in DOMAIN s
      BY <1>1, <1>2, <2>2
    <3>2. t[i] = s[i + 1]
      BY <1>1, <3>1
    <3> QED
      BY <3>1, <3>2 DEF Fits
  <2> QED
    BY <2>1, <2>2
<1> QED
  BY <1>4, <1>5 DEF Fits, t

(* What a step does to list and file. *)
LEMMA Steps ==
  ASSUME IInv, [Next]_vars
  PROVE  \/ \E kind \in Kinds, n \in Names, d \in Data :
              Settable(entries, n, d) /\ Mutate(kind, Put(entries, n, d))
         \/ \E kind \in Kinds : \E n : Has(entries, n) /\ Mutate(kind, Erase(entries, n))
         \/ Mutate("deleteAll", <<>>)
         \/ Saving
         \/ Restart
         \/ UNCHANGED <<entries, file, call, lastSave>>
<1> DEFINE Goal == \/ \E kind \in Kinds, n \in Names, d \in Data :
                        Settable(entries, n, d) /\ Mutate(kind, Put(entries, n, d))
                   \/ \E kind \in Kinds : \E n : Has(entries, n) /\ Mutate(kind, Erase(entries, n))
                   \/ Mutate("deleteAll", <<>>)
                   \/ Saving
                   \/ Restart
                   \/ UNCHANGED <<entries, file, call, lastSave>>
<1>1. {"deleteAll", "delete", "set", "setEmpty", "bmc"} \subseteq Kinds
  BY DEF Kinds
<1>2. ASSUME NEW kind \in Kinds, NEW n, NEW d \in Data, DoSet(kind, n, d) PROVE Goal
  BY <1>2 DEF DoSet, Settable, Reject
<1>3. ASSUME NEW kind \in Kinds, NEW n, DoDelete(kind, n) PROVE Goal
  BY <1>3 DEF DoDelete, Reject
<1>4. ASSUME NEW r \in Requests, HostRequest(r) PROVE Goal
  <2>1. r.data \in Data
    BY NamesAssumption
  <2>2. CASE HostDeleteAll(r)
    BY <2>2 DEF HostDeleteAll, DoDeleteAll
  <2>3. CASE HostDelete(r)
    BY <1>1, <1>3, <2>3 DEF HostDelete
  <2>4. CASE HostSet(r)
    BY <1>1, <1>2, <2>1, <2>4 DEF HostSet
  <2>5. CASE HostSetEmpty(r)
    BY <1>1, <1>3, <2>5 DEF HostSetEmpty
  <2>6. CASE HostBadRequest(r)
    BY <2>6 DEF HostBadRequest, Refuse
  <2> QED
    BY <1>4, <2>2, <2>3, <2>4, <2>5, <2>6 DEF HostRequest
<1>5. ASSUME NEW n \in BmcNames, NEW d \in Data, BmcSet(n, d) PROVE Goal
  BY <1>1, <1>2, <1>5 DEF BmcSet
<1>6. ASSUME NEW n \in BmcNames, BmcDelete(n) PROVE Goal
  BY <1>1, <1>3, <1>6 DEF BmcDelete
<1>7. ASSUME StartWalk \/ GetByIndex \/ UNCHANGED vars PROVE Goal
  BY <1>7 DEF StartWalk, GetByIndex, vars
<1> HIDE DEF Goal
<1>8. Saving \/ Restart => Goal
  BY DEF Goal
<1>9. ASSUME Next PROVE Goal
  BY <1>4, <1>5, <1>6, <1>7, <1>8, <1>9 DEF Next
<1>10. Goal
  BY <1>7, <1>9
<1> QED
  BY <1>10 DEF Goal

(* What a step of save() leaves in the file. *)
LEMMA SavingFile ==
  ASSUME entries \in Seq(Entry), file.entries \in Seq(Entry), Saving
  PROVE  \/ file' = file
         \/ file' = NoFile /\ file'.entries = <<>>
         \/ file' = FileOf(<<>>) /\ file'.entries = <<>>
         \/ \E k \in 0..Len(entries) : /\ file' = FileOf(SubSeq(entries, 1, k))
                                       /\ file'.entries = SubSeq(entries, 1, k)
<1>1. NoFile.entries = <<>> /\ \A s : FileOf(s).entries = s
  BY DEF NoFile, FileOf
<1>2. CASE SaveFails \/ CopyFails \/ CopyDone
  BY <1>2 DEF SaveFails, CopyFails, CopyDone
<1>3. CASE OpenTarget
  BY <1>1, <1>3 DEF OpenTarget
<1>4. CASE CopyHeader
  BY <1>1, <1>4 DEF CopyHeader
<1>5. CASE CopyEntry
  <2>1. Len(file.entries) + 1 \in 0..Len(entries)
    BY <1>5, LenProperties DEF CopyEntry
  <2>2. file' = FileOf(SubSeq(entries, 1, Len(file.entries) + 1))
    BY <1>5 DEF CopyEntry
  <2> QED
    BY <1>1, <2>1, <2>2
<1> QED
  BY <1>2, <1>3, <1>4, <1>5, Zenon DEF Saving

LEMMA FitsKept == IInv /\ EverythingFits /\ [Next]_vars => EverythingFits'
<1> SUFFICES ASSUME IInv, EverythingFits, [Next]_vars PROVE EverythingFits'
  OBVIOUS
<1>1. /\ entries \in Seq(Entry) /\ UniqueNames(entries) /\ Fits(entries)
      /\ file \in File /\ file.entries \in Seq(Entry) /\ Fits(file.entries)
  BY DEF IInv, TypeOK, UniqueStored, EverythingFits, File
<1>2. ASSUME NEW kind, NEW new, Mutate(kind, new), Fits(new)
      PROVE  EverythingFits'
  BY <1>1, <1>2 DEF Mutate, EverythingFits
<1>3. ASSUME NEW kind \in Kinds, NEW n \in Names, NEW d \in Data,
             Settable(entries, n, d), Mutate(kind, Put(entries, n, d))
      PROVE  EverythingFits'
  BY <1>1, <1>2, <1>3, PutFits
<1>4. ASSUME NEW kind \in Kinds, NEW n, Has(entries, n), Mutate(kind, Erase(entries, n))
      PROVE  EverythingFits'
  BY <1>1, <1>2, <1>4, EraseFits
<1>5. CASE Mutate("deleteAll", <<>>)
  BY <1>2, <1>5, EmptyFits
<1>6. CASE Saving
  <2>1. entries' = entries
    BY <1>6 DEF Saving, SaveFails, OpenTarget, CopyHeader, CopyEntry, CopyFails, CopyDone, Finish
  <2>2. file' = file \/ (\E k \in 0..Len(entries) : file'.entries = SubSeq(entries, 1, k))
             \/ file'.entries = <<>>
    BY <1>1, <1>6, SavingFile
  <2> QED
    BY <1>1, <2>1, <2>2, EmptyFits, FrontFits DEF EverythingFits
<1>7. CASE Restart
  <2>1. PICK k \in 0..Len(file.entries) : Loaded(file) = SubSeq(file.entries, 1, k)
    BY <1>1, LoadedIsFront
  <2> QED
    BY <1>1, <1>7, <2>1, FrontFits DEF Restart, EverythingFits
<1>8. CASE UNCHANGED <<entries, file, call, lastSave>>
  BY <1>1, <1>8 DEF EverythingFits
<1> QED
  BY <1>3, <1>4, <1>5, <1>6, <1>7, <1>8, Steps

LEMMA AlwaysFits == Spec => []EverythingFits
<1>1. Init => EverythingFits
  BY EmptyFits DEF Init, EverythingFits, NoFile
<1> QED
  BY <1>1, FitsKept, Invariant, PTL DEF Spec

(* Whatever the store holds, a file written of it brings all of it back: for *)
(* any limits and sizes, the checks of set() are as strict as those of       *)
(* load(), through any sequence of insertions, updates and deletions.        *)
THEOREM NothingTooLarge == Spec => []LoadRestores
<1>1. IInv /\ EverythingFits => LoadRestores
  BY FittingLoads DEF IInv, TypeOK, EverythingFits, LoadRestores
<1> QED
  BY <1>1, Invariant, AlwaysFits, PTL

-----------------------------------------------------------------------------
(* The store implements the durable map. *)

(* The entries of a list, as a set. *)
LEMMA ViewOf ==
  ASSUME NEW s \in Seq(Entry)
  PROVE  /\ Range(s) = {s[i] : i \in 1..Len(s)}
         /\ Range(s) \subseteq Entry
<1>1. DOMAIN s = 1..Len(s)
  BY LenProperties
<1>2. Range(s) = {s[i] : i \in 1..Len(s)}
  BY <1>1 DEF Range
<1>3. \A i \in 1..Len(s) : s[i] \in Entry
  BY ElementOfSeq
<1> QED
  BY <1>2, <1>3

LEMMA EmptyView == Range(<<>>) = {}
<1>1. <<>> \in Seq(Entry) /\ Len(<<>>) = 0
  BY EmptySeq
<1>2. Range(<<>>) = {<<>>[i] : i \in 1..0}
  BY <1>1, ViewOf, Zenon
<1>3. 1..0 = {}
  OBVIOUS
<1> QED
  BY <1>2, <1>3, Zenon

(* set() replaces the one entry of that name, or adds it. *)
LEMMA PutView ==
  ASSUME NEW s \in Seq(Entry), NEW n \in Names, NEW d \in Data, UniqueNames(s)
  PROVE  Range(Put(s, n, d))
           = Map!Without(Range(s), n) \cup {[name |-> n, data |-> d]}
<1> DEFINE e == [name |-> n, data |-> d]
<1>1. e \in Entry /\ e.name = n
  BY DEF Entry
<1>2. Len(s) \in Nat /\ DOMAIN s = 1..Len(s)
  BY LenProperties
<1> HIDE DEF e
<1>3. CASE Has(s, n)
  <2> DEFINE k == IndexOf(s, n)
             t == [s EXCEPT ![k] = e]
  <2>1. k \in 1..Len(s) /\ s[k].name = n
    BY <1>3, IndexOfFound
  <2> HIDE DEF k
  <2>2. /\ t \in Seq(Entry) /\ Len(t) = Len(s)
        /\ \A i \in 1..Len(s) : t[i] = IF i = k THEN e ELSE s[i]
    BY <1>1, <2>1, ExceptSeq
  <2>3. Put(s, n, d) = t
    BY <1>3 DEF Put, e, k
  <2> HIDE DEF t
  <2>4. Range(s) = {s[i] : i \in 1..Len(s)} /\ Range(t) = {t[i] : i \in 1..Len(s)}
    BY <2>2, ViewOf
  <2>5. \A i \in 1..Len(s) : s[i].name = n <=> i = k
    BY <1>2, <2>1 DEF UniqueNames
  <2>6. Range(t) = {x \in Range(s) : x.name # n} \cup {e}
    BY <1>1, <2>1, <2>2, <2>4, <2>5
  <2> QED
    BY <2>3, <2>6 DEF Map!Without, e
<1>4. CASE ~Has(s, n)
  <2> DEFINE t == Append(s, e)
  <2>1. /\ t \in Seq(Entry) /\ Len(t) = Len(s) + 1
        /\ \A i \in 1..Len(s) : t[i] = s[i]
        /\ t[Len(s) + 1] = e
    BY <1>1, AppendProperties
  <2>2. Put(s, n, d) = t
    BY <1>4 DEF Put, e
  <2> HIDE DEF t
  <2>3. Range(s) = {s[i] : i \in 1..Len(s)} /\ Range(t) = {t[i] : i \in 1..(Len(s) + 1)}
    BY <2>1, ViewOf
  <2>4. \A i \in 1..Len(s) : s[i].name # n
    BY <1>2, <1>4 DEF Has
  <2>5. 1..(Len(s) + 1) = (1..Len(s)) \cup {Len(s) + 1}
    BY <1>2
  <2>6. Range(t) = Range(s) \cup {e}
    BY <2>1, <2>3, <2>5
  <2>7. {x \in Range(s) : x.name # n} = Range(s)
    BY <2>3, <2>4
  <2> QED
    BY <2>2, <2>6, <2>7 DEF Map!Without, e
<1> QED
  BY <1>3, <1>4

(* del() takes out the one entry of that name. *)
LEMMA EraseView ==
  ASSUME NEW s \in Seq(Entry), NEW n, UniqueNames(s), Has(s, n)
  PROVE  n \in Names /\ Range(Erase(s, n)) = Map!Without(Range(s), n)
<1> DEFINE t == Erase(s, n)
           k == IndexOf(s, n)
<1>1. /\ t \in Seq(Entry) /\ Len(t) = Len(s) - 1 /\ k \in 1..Len(s)
      /\ \A i \in 1..(k - 1) : t[i] = s[i]
      /\ \A i \in k..(Len(s) - 1) : t[i] = s[i + 1]
      /\ s[k].name = n
  BY EraseProperties, IndexOfFound
<1> HIDE DEF t, k
<1>2. Len(s) \in Nat /\ DOMAIN s = 1..Len(s)
  BY LenProperties
<1>3. Range(s) = {s[i] : i \in 1..Len(s)} /\ Range(t) = {t[i] : i \in 1..(Len(s) - 1)}
  BY <1>1, ViewOf
<1>4. \A i \in 1..Len(s) : s[i].name = n <=> i = k
  BY <1>1, <1>2 DEF UniqueNames
<1>5. ASSUME NEW x \in Range(t) PROVE x \in Range(s) /\ x.name # n
  <2>1. PICK i \in 1..(Len(s) - 1) : x = t[i]
    BY <1>3
  <2>2. CASE i < k
    BY <1>1, <1>2, <1>3, <1>4, <2>1, <2>2
  <2>3. CASE ~(i < k)
    <3>1. i \in k..(Len(s) - 1) /\ i + 1 \in 1..Len(s) /\ i + 1 # k
      BY <1>1, <1>2, <2>3
    <3>2. x = s[i + 1]
      BY <1>1, <2>1, <3>1
    <3> QED
      BY <1>3, <1>4, <3>1, <3>2
  <2> QED
    BY <2>2, <2>3
<1>6. ASSUME NEW x \in Range(s), x.name # n PROVE x \in Range(t)
  <2>1. PICK i \in 1..Len(s) : x = s[i]
    BY <1>3
  <2>2. i # k
    BY <1>1, <1>6, <2>1
  <2>3. CASE i < k
    BY <1>1, <1>2, <1>3, <2>1, <2>3
  <2>4. CASE ~(i < k)
    <3>1. i - 1 \in k..(Len(s) - 1) /\ i - 1 \in 1..(Len(s) - 1) /\ (i - 1) + 1 = i
      BY <1>1, <1>2, <2>2, <2>4
    <3>2. t[i - 1] = x
      BY <1>1, <2>1, <3>1
    <3> QED
      BY <1>3, <3>1, <3>2
  <2> QED
    BY <2>3, <2>4
<1>7. n \in Names
  <2>1. s[k] \in Entry
    BY <1>1, ElementOfSeq
  <2> QED
    BY <1>1, <2>1 DEF Entry
<1> QED
  BY <1>5, <1>6, <1>7 DEF Map!Without, t

(* A front part of a list holds nothing else. *)
LEMMA FrontView ==
  ASSUME NEW s \in Seq(Entry), NEW k \in 0..Len(s)
  PROVE  Range(SubSeq(s, 1, k)) \subseteq Range(s)
<1> DEFINE t == SubSeq(s, 1, k)
<1>1. t \in Seq(Entry) /\ Len(t) = k /\ \A i \in 1..k : t[i] = s[i]
  BY FrontPart
<1> HIDE DEF t
<1>2. Len(s) \in Nat /\ k \in Nat /\ k <= Len(s)
  BY LenProperties
<1>3. Range(s) = {s[i] : i \in 1..Len(s)} /\ Range(t) = {t[i] : i \in 1..k}
  BY <1>1, ViewOf
<1> QED
  BY <1>1, <1>2, <1>3 DEF t

(* A mutation is one change of the view; what is durable is untouched. *)
LEMMA MutateMaps ==
  ASSUME NEW kind, NEW new, Mutate(kind, new)
  PROVE  /\ Range(entries)' = Range(new)
         /\ Range(Loaded(file))' = Range(Loaded(file))
         /\ ~(Idle /\ lastSave # "failed")'
<1>1. entries' = new /\ file' = file
      /\ call' = [phase |-> "temp", kind |-> kind, before |-> Loaded(file)]
  BY DEF Mutate
<1>2. call' # NoCall
  BY <1>1 DEF NoCall
<1> QED
  BY <1>1, <1>2 DEF Idle

LEMMA SavingMaps ==
  ASSUME IInv, EverythingFits, Saving
  PROVE  [Map!Next]_(Map!vars)
<1>1. /\ entries \in Seq(Entry) /\ file.entries \in Seq(Entry) /\ Fits(entries)
      /\ Len(entries) \in Nat
  BY LenProperties DEF IInv, TypeOK, File, EverythingFits
<1>2. entries' = entries /\ ~Idle
  BY DEF Saving, SaveFails, OpenTarget, CopyHeader, CopyEntry, CopyFails,
         CopyDone, Copied, Finish, Idle
<1>3. ASSUME ~(Idle /\ lastSave # "failed")', Range(Loaded(file))' \subseteq Range(entries)
      PROVE  Map!Rewrite
  BY <1>2, <1>3 DEF Map!Rewrite
<1>4. \A s : Loaded(FileOf(s)) = Loaded([header |-> TRUE, entries |-> s])
  BY DEF FileOf
<1>5. CASE SaveFails \/ CopyFails
  <2>1. /\ lastSave' = "failed" /\ file' = file
    BY <1>5 DEF SaveFails, CopyFails, Finish
  <2> QED
    BY <1>2, <2>1 DEF Map!vars, Idle
<1>6. CASE OpenTarget
  <2>1. file' = NoFile /\ call' = [call EXCEPT !.phase = "copy"] /\ call # NoCall
    BY <1>6 DEF OpenTarget
  <2>2. call' # NoCall
    BY <2>1 DEF IInv, TypeOK, Call, NoCall
  <2>3. Loaded(file') = <<>>
    BY <2>1 DEF Loaded, NoFile
  <2> QED
    BY <1>3, <2>2, <2>3, EmptyView DEF Idle, Map!Next
<1>7. CASE CopyHeader \/ CopyEntry
  <2>1. call' = call
    BY <1>7 DEF CopyHeader, CopyEntry
  <2>2. PICK s \in Seq(Entry) : /\ file' = FileOf(s) /\ Fits(s)
                                /\ Range(s) \subseteq Range(entries)
    <3>1. CASE CopyHeader
      BY <3>1, EmptyFits, EmptyView DEF CopyHeader
    <3>2. CASE CopyEntry
      <4> DEFINE k == Len(file.entries) + 1
      <4>1. k \in 0..Len(entries) /\ file' = FileOf(SubSeq(entries, 1, k))
        BY <1>1, <3>2, LenProperties DEF CopyEntry
      <4> HIDE DEF k
      <4> QED
        BY <1>1, <4>1, FrontPart, FrontFits, FrontView
    <3> QED
      BY <1>7, <3>1, <3>2
  <2>3. Loaded(file') = s
    BY <2>2, FittingLoads
  <2> QED
    BY <1>2, <1>3, <2>1, <2>2, <2>3 DEF Idle, Map!Next
<1>8. CASE CopyDone
  <2>1. file = FileOf(entries) /\ file' = file /\ call' = NoCall /\ lastSave' = "ok"
    BY <1>8 DEF CopyDone, Copied, Finish
  <2>2. Loaded(file) = entries
    BY <1>1, <2>1, FittingLoads
  <2>3. Map!Commit
    BY <1>2, <2>1, <2>2 DEF Map!Commit, Idle
  <2> QED
    BY <2>3 DEF Map!Next
<1> QED
  BY <1>5, <1>6, <1>7, <1>8 DEF Saving

(* Every step of the store is one step of the map, or none. *)
LEMMA StepMaps ==
  ASSUME IInv, EverythingFits, [Next]_vars
  PROVE  [Map!Next]_(Map!vars)
<1>1. entries \in Seq(Entry) /\ UniqueNames(entries)
  BY DEF IInv, TypeOK, UniqueStored
<1>2. ASSUME NEW kind \in Kinds, NEW n \in Names, NEW d \in Data,
             Mutate(kind, Put(entries, n, d))
      PROVE  Map!Next
  <2> DEFINE e == [name |-> n, data |-> d]
  <2>1. e \in Map!Entry /\ e.name = n
    BY DEF Map!Entry
  <2>2. Range(Put(entries, n, d)) = Map!Without(Range(entries), n) \cup {e}
    BY <1>1, PutView
  <2> HIDE DEF e
  <2>3. Map!Assign(e)
    BY <1>2, <2>1, <2>2, MutateMaps DEF Map!Assign
  <2> QED
    BY <2>1, <2>3 DEF Map!Next
<1>3. ASSUME NEW kind \in Kinds, NEW n, Has(entries, n), Mutate(kind, Erase(entries, n))
      PROVE  Map!Next
  <2>1. n \in Names /\ Range(Erase(entries, n)) = Map!Without(Range(entries), n)
    BY <1>1, <1>3, EraseView
  <2>2. Map!Discard(n)
    BY <1>3, <2>1, MutateMaps DEF Map!Discard
  <2> QED
    BY <2>1, <2>2 DEF Map!Next
<1>4. CASE Mutate("deleteAll", <<>>)
  <2>1. Map!DiscardAll
    BY <1>4, EmptyView, MutateMaps DEF Map!DiscardAll
  <2> QED
    BY <2>1 DEF Map!Next
<1>5. CASE Restart
  <2>1. entries' = Loaded(file) /\ file' = file /\ call' = NoCall /\ lastSave' = "none"
    BY <1>5 DEF Restart
  <2>2. Map!Recover
    BY <2>1 DEF Map!Recover, Idle
  <2> QED
    BY <2>2 DEF Map!Next
<1>6. CASE UNCHANGED <<entries, file, call, lastSave>>
  BY <1>6 DEF Map!vars, Idle
<1> QED
  BY <1>2, <1>3, <1>4, <1>5, <1>6, SavingMaps, Steps

(* Seen from outside, without lists, indices, files and the steps of a copy, *)
(* the store is the durable map: one entry changes at a time, a save leaves  *)
(* nothing durable but entries of the list being saved, it is not over       *)
(* before all of them are, and a restart finds exactly what is durable.      *)
THEOREM StoreIsDurableMap == Spec => ImplementsMap
<1>1. Init => Map!Init
  <2> SUFFICES ASSUME Init PROVE Map!Init
    OBVIOUS
  <2>1. entries = <<>> /\ Loaded(file) = <<>> /\ call = NoCall /\ lastSave = "none"
    BY DEF Init, Loaded, NoFile
  <2> QED
    BY <2>1, EmptyView DEF Map!Init, Idle
<1>2. IInv /\ EverythingFits /\ [Next]_vars => [Map!Next]_(Map!vars)
  BY StepMaps
<1> QED
  BY <1>1, <1>2, Invariant, AlwaysFits, PTL DEF Spec, Map!Spec, ImplementsMap

=============================================================================

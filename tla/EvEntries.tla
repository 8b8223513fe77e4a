----------------------------- MODULE EvEntries -----------------------------
(***************************************************************************)
(* The entry list of the BIOS environment-variable (EV) store, as a value. *)
(* class EvStorage keeps a vector of entries in memory and the same list,  *)
(* serialised, in /var/lib/chif/evs.dat.  These operators are the pure     *)
(* part of its methods: search, update, erase, the size accounting, and    *)
(* what load() accepts of a file.                                          *)
(*                                                                         *)
(* A name and a value are members of small sets.  All the store looks at   *)
(* in a value is its length, Size[d].                                      *)
(***************************************************************************)
EXTENDS Integers, Sequences, FiniteSets, Functions

CONSTANTS
  Names,       \* the names that fit: 1..31 characters
  Data,        \* the values
  Size,        \* Size[d]: length of value d in bytes
  Header,      \* headerSize, magic and count (8 bytes)
  Overhead,    \* entryOverhead, name field and length field (34 bytes)
  MaxData,     \* maxEvDataSize (3966 bytes)
  MaxFile      \* maxEvFileSize (65536 bytes)

ASSUME SizesAssumption ==
  /\ Size \in [Data -> Nat]
  /\ Header \in Nat /\ Overhead \in Nat \ {0} /\ MaxData \in Nat
  /\ MaxFile \in Nat /\ Header <= MaxFile

Entry == [name : Names, data : Data]

(* An entry of that name is stored. *)
Has(s, n) == \E i \in DOMAIN s : s[i].name = n

(* std::find_if: the first entry of that name. *)
IndexOf(s, n) ==
  CHOOSE i \in DOMAIN s : s[i].name = n /\ \A j \in 1..(i-1) : s[j].name # n

Get(s, n) == s[IndexOf(s, n)].data

(* serializedSize() adds the entries up one by one. *)
SizeUpTo(s) ==
  LET size[i \in 0..Len(s)] ==
        IF i = 0 THEN Header ELSE size[i - 1] + (Overhead + Size[s[i].data])
  IN size

SerializedSize(s) == SizeUpTo(s)[Len(s)]

(* Faulty Room: only insertions are checked. *)
RoomInsertOnly(s, n, d) ==
  Has(s, n) \/ SerializedSize(s) + Overhead + Size[d] <= MaxFile

(* What set() checks before it touches the list.  An update is only checked *)
(* when it grows.                                                           *)
Room(s, n, d) ==
  IF Has(s, n)
  THEN Size[d] > Size[Get(s, n)] =>
         SerializedSize(s) + (Size[d] - Size[Get(s, n)]) <= MaxFile
  ELSE SerializedSize(s) + Overhead + Size[d] <= MaxFile

Settable(s, n, d) == n \in Names /\ Size[d] <= MaxData /\ Room(s, n, d)

(* Faulty Put: an update does not look for the entry. *)
PutAppends(s, n, d) == Append(s, [name |-> n, data |-> d])

(* Faulty Put: an update erases the entry and adds it again at the end. *)
PutMovesToEnd(s, n, d) ==
  Append(SelectSeq(s, LAMBDA e : e.name # n), [name |-> n, data |-> d])

(* set(): an existing entry is updated where it stands, a new one goes last. *)
Put(s, n, d) ==
  IF Has(s, n)
  THEN [s EXCEPT ![IndexOf(s, n)] = [name |-> n, data |-> d]]
  ELSE Append(s, [name |-> n, data |-> d])

(* del(): the entries behind the erased one move up. *)
Erase(s, n) ==
  LET i == IndexOf(s, n) IN SubSeq(s, 1, i - 1) \o SubSeq(s, i + 1, Len(s))

(***************************************************************************)
(* A file: whether its header is complete, and the entries that are.  A    *)
(* missing, empty or cut-in-the-header file has header FALSE.  The count   *)
(* in the header is the one save() wrote, so it is never less than the     *)
(* number of complete entries, and load() stops at the first incomplete    *)
(* one: the count needs no field of its own.                               *)
(***************************************************************************)
File == [header : BOOLEAN, entries : Seq(Entry)]

NoFile == [header |-> FALSE, entries |-> <<>>]

FileOf(s) == [header |-> TRUE, entries |-> s]

(* load() reads on as long as each entry obeys the size limits. *)
Acceptable(s) ==
  {i \in DOMAIN s : \A j \in 1..i : /\ Size[s[j].data] <= MaxData
                                    /\ SerializedSize(SubSeq(s, 1, j)) <= MaxFile}

Loaded(f) ==
  IF f.header THEN SubSeq(f.entries, 1, Cardinality(Acceptable(f.entries))) ELSE <<>>

(* No name is stored twice: find_if and the host see one entry per name. *)
UniqueNames(s) == \A i, j \in DOMAIN s : s[i].name = s[j].name => i = j
=============================================================================

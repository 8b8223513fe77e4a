---------------------------- MODULE ConfigProofs ----------------------------
(***************************************************************************)
(* Two components of the daemon that answer for what others keep: the      *)
(* host's view of the network (NetConfig), for every number of addresses,  *)
(* changes and bits, and the boot options as BIOS attributes (BiosConfig), *)
(* for every set of options, ids, names and attributes of other providers. *)
(***************************************************************************)
EXTENDS NetConfig, BiosConfig, SequenceTheorems, WellFoundedInduction, TLAPS

-----------------------------------------------------------------------------
(* Induction over the natural numbers. *)
LEMMA Least ==
  ASSUME NEW T \in SUBSET Nat, T # {}
  PROVE  \E n \in T : \A m \in T : n <= m
<1>1. PICK n \in T : \A m \in T : ~(<<m, n>> \in OpToRel(<, Nat))
  BY WFMin, NatLessThanWellFounded, Zenon
<1>2. \A m \in T : ~(m < n)
  BY <1>1 DEF OpToRel
<1> QED
  BY <1>2

LEMMA Induct ==
  ASSUME NEW T, 0 \in T, \A n \in Nat : n \in T => n + 1 \in T
  PROVE  Nat \subseteq T
<1> SUFFICES ASSUME Nat \ T # {} PROVE FALSE
  OBVIOUS
<1>1. PICK n \in Nat \ T : \A m \in Nat \ T : n <= m
  BY Least
<1>2. n - 1 \in Nat /\ n - 1 \in T
  BY <1>1
<1> QED
  BY <1>2

-----------------------------------------------------------------------------
(* Functions by primitive recursion: with a step from S to S there is one.   *)
StepsOf(f, n, z, step) ==
  f = [i \in 0..n |-> IF i = 0 THEN z ELSE step[<<i, f[i - 1]>>]]

LEMMA StepsExist ==
  ASSUME NEW S, NEW n \in Nat, NEW z \in S, NEW step \in [Nat \X S -> S]
  PROVE  \E f \in [0..n -> S] : StepsOf(f, n, z, step)
<1> DEFINE T == {k \in Nat : \E f \in [0..k -> S] : StepsOf(f, k, z, step)}
<1>1. 0 \in T
  <2> DEFINE f == [i \in 0..0 |-> z]
  <2>1. f \in [0..0 -> S] /\ StepsOf(f, 0, z, step)
    BY DEF StepsOf
  <2> QED
    BY <2>1
<1>2. ASSUME NEW k \in Nat, k \in T
      PROVE  k + 1 \in T
  <2>1. PICK f \in [0..k -> S] : StepsOf(f, k, z, step)
    BY <1>2
  <2> DEFINE g == [i \in 0..(k + 1) |-> IF i = k + 1 THEN step[<<k + 1, f[k]>>] ELSE f[i]]
  <2>2. f[k] \in S /\ step[<<k + 1, f[k]>>] \in S
    BY <2>1
  <2>3. g \in [0..(k + 1) -> S] /\ g[k + 1] = step[<<k + 1, f[k]>>] /\ \A i \in 0..k : g[i] = f[i]
    BY <2>2
  <2> HIDE DEF g
  <2>4. f[0] = z /\ \A i \in 1..k : f[i] = step[<<i, f[i - 1]>>]
    BY <2>1 DEF StepsOf
  <2>5. ASSUME NEW i \in 0..(k + 1)
        PROVE  g[i] = IF i = 0 THEN z ELSE step[<<i, g[i - 1]>>]
    <3>1. CASE i = 0
      BY <2>3, <2>4, <3>1
    <3>2. CASE i # 0
      <4>1. i - 1 \in 0..k
        BY <3>2
      <4>2. g[i - 1] = f[i - 1]
        BY <2>3, <4>1
      <4>3. i = k + 1 => g[i] = step[<<i, f[i - 1]>>]
        BY <2>3
      <4>4. i # k + 1 => g[i] = step[<<i, f[i - 1]>>]
        BY <2>3, <2>4, <3>2
      <4> QED
        BY <3>2, <4>2, <4>3, <4>4
    <3> QED
      BY <3>1, <3>2
  <2>6. StepsOf(g, k + 1, z, step)
    BY <2>3, <2>5 DEF StepsOf
  <2> QED
    BY <2>3, <2>6
<1> HIDE DEF T
<1>3. n \in T
  BY <1>1, <1>2, Induct
<1> QED
  BY <1>3 DEF T

-----------------------------------------------------------------------------
(* Powers of two. *)
PowerOf(f) == f = [i \in 0..Width |-> IF i = 0 THEN 1 ELSE 2 * f[i - 1]]

(* The table of powers is what its definition says.                          *)
LEMMA PowerSteps ==
  /\ PowersOf2 \in [0..Width -> Nat]
  /\ PowersOf2[0] = 1
  /\ \A i \in 1..Width : PowersOf2[i] = 2 * PowersOf2[i - 1]
<1> DEFINE step == [p \in Nat \X Nat |-> 2 * p[2]]
<1>1. PICK f \in [0..Width -> Nat] : StepsOf(f, Width, 1, step)
  <2>1. step \in [Nat \X Nat -> Nat]
    OBVIOUS
  <2> HIDE DEF step
  <2> QED
    BY <2>1, BoundsAssumption, StepsExist
<1>2. ASSUME NEW i \in 0..Width
      PROVE  f[i] = IF i = 0 THEN 1 ELSE 2 * f[i - 1]
  <2>1. f[i] = IF i = 0 THEN 1 ELSE step[<<i, f[i - 1]>>]
    BY <1>1 DEF StepsOf
  <2>2. i # 0 => step[<<i, f[i - 1]>>] = 2 * f[i - 1]
    BY <1>1, BoundsAssumption
  <2> QED
    BY <2>1, <2>2
<1>3. PowerOf(f)
  BY <1>1, <1>2 DEF PowerOf
<1>4. PowersOf2 = CHOOSE g : PowerOf(g)
  BY DEF PowersOf2, PowerOf
<1>5. PowerOf(PowersOf2)
  BY <1>3, <1>4
<1> DEFINE g == PowersOf2
<1> HIDE DEF g
<1>6. g = [i \in 0..Width |-> IF i = 0 THEN 1 ELSE 2 * g[i - 1]]
  BY <1>5 DEF PowerOf, g
<1>7. g[0] = 1 /\ \A i \in 1..Width : g[i] = 2 * g[i - 1]
  BY <1>6, BoundsAssumption
<1> DEFINE T == {k \in Nat : k <= Width => g[k] \in Nat}
<1>8. 0 \in T
  BY <1>7
<1>9. ASSUME NEW k \in Nat, k \in T PROVE k + 1 \in T
  BY <1>7, <1>9, BoundsAssumption
<1>10. Nat \subseteq T
  <2> HIDE DEF T
  <2> QED
    BY <1>8, <1>9, Induct
<1>11. \A i \in 0..Width : g[i] \in Nat
  BY <1>10, BoundsAssumption
<1> QED
  BY <1>6, <1>7, <1>11 DEF g

(* A power is positive, and a larger one is a multiple of it, an even one    *)
(* unless it is the same.                                                    *)
LEMMA PowerFactor ==
  ASSUME NEW a \in 0..Width
  PROVE  /\ PowersOf2[a] > 0
         /\ \A n \in Nat : a + n <= Width =>
              \E m \in Nat : m > 0 /\ PowersOf2[a + n] = m * PowersOf2[a]
                             /\ (n > 0 => \E h \in Nat : m = 2 * h)
<1> DEFINE P == PowersOf2
<1>1. /\ \A i \in 0..Width : P[i] \in Nat
      /\ P[0] = 1 /\ \A i \in 1..Width : P[i] = 2 * P[i - 1]
  BY PowerSteps
<1> HIDE DEF P
<1> DEFINE Q == {k \in Nat : k <= Width => P[k] > 0}
<1>2. 0 \in Q
  BY <1>1
<1>3. ASSUME NEW k \in Nat, k \in Q PROVE k + 1 \in Q
  BY <1>1, <1>3, BoundsAssumption
<1>4. a \in Q
  <2> HIDE DEF Q
  <2> QED
    BY <1>2, <1>3, Induct, BoundsAssumption
<1>5. P[a] > 0 /\ P[a] \in Nat
  BY <1>1, <1>4
<1> HIDE DEF Q
<1> DEFINE Factor(n, m) == m \in Nat /\ m > 0 /\ P[a + n] = m * P[a]
                           /\ (n > 0 => \E h \in Nat : m = 2 * h)
           T == {n \in Nat : a + n <= Width => \E m : Factor(n, m)}
<1>6. 0 \in T
  <2>1. P[a + 0] = 1 * P[a]
    BY <1>5
  <2>2. Factor(0, 1)
    BY <2>1
  <2> QED
    BY <2>2
<1>7. ASSUME NEW n \in Nat, n \in T PROVE n + 1 \in T
  <2> SUFFICES ASSUME a + (n + 1) <= Width PROVE \E m : Factor(n + 1, m)
    OBVIOUS
  <2>1. PICK m : Factor(n, m)
    BY <1>7, BoundsAssumption
  <2>2. a + (n + 1) \in 1..Width /\ (a + (n + 1)) - 1 = a + n
    BY BoundsAssumption
  <2>3. P[a + (n + 1)] = 2 * P[a + n]
    BY <1>1, <2>2
  <2>4. P[a + (n + 1)] = 2 * (m * P[a])
    BY <2>1, <2>3
  <2>5. 2 * (m * P[a]) = (2 * m) * P[a]
    BY <1>5, <2>1
  <2>6. 2 * m \in Nat /\ 2 * m > 0 /\ \E h \in Nat : 2 * m = 2 * h
    BY <2>1
  <2>7. Factor(n + 1, 2 * m)
    BY <2>4, <2>5, <2>6
  <2> QED
    BY <2>7
<1>8. \A n \in Nat : n \in T
  <2> HIDE DEF T
  <2> QED
    BY <1>6, <1>7, Induct
<1>9. ASSUME NEW n \in Nat, a + n <= Width
      PROVE  \E m \in Nat : m > 0 /\ P[a + n] = m * P[a] /\ (n > 0 => \E h \in Nat : m = 2 * h)
  <2>1. n \in T
    BY <1>8
  <2> QED
    BY <1>9, <2>1
<1> QED
  BY <1>5, <1>9 DEF P

(* A multiple divided by what it is a multiple of.                           *)
LEMMA Quotient ==
  ASSUME NEW k \in Nat, NEW d \in Nat \ {0}, NEW r \in 0..(d - 1)
  PROVE  (k * d + r) \div d = k
OBVIOUS

(* The bits of a mask: ones down to the length of the prefix, then zeros.    *)
LEMMA MaskBits ==
  ASSUME NEW prefix \in Nat, NEW b \in 0..(Width - 1)
  PROVE  (Mask(prefix) \div PowersOf2[b]) % 2 = IF b >= Width - prefix THEN 1 ELSE 0
<1> DEFINE q == Width - (IF prefix > Width THEN Width ELSE prefix)
           P == PowersOf2
           W == Width
<1>1. /\ W \in Nat /\ q \in 0..W /\ b \in 0..W /\ W - b > 0 /\ W - b \in Nat
      /\ (b >= W - prefix <=> b >= q)
  BY BoundsAssumption
<1>2. Mask(prefix) = P[W] - P[q]
  BY DEF Mask
<1>3. P[b] \in Nat /\ P[b] > 0 /\ P[q] \in Nat /\ P[q] > 0
  BY <1>1, PowerSteps, PowerFactor
<1>4. PICK m \in Nat : m > 0 /\ P[W] = m * P[b] /\ \E h \in Nat : m = 2 * h
  <2>1. b + (W - b) = W /\ b + (W - b) <= W
    BY <1>1
  <2>2. PICK m \in Nat : m > 0 /\ P[b + (W - b)] = m * P[b] /\ \E h \in Nat : m = 2 * h
    BY <1>1, <2>1, PowerFactor
  <2> QED
    BY <2>1, <2>2
<1>5. PICK h \in Nat : m = 2 * h
  BY <1>4
<1> HIDE DEF P, W, q
<1>6. ASSUME b >= q
      PROVE  ((P[W] - P[q]) \div P[b]) % 2 = 1
  <2>1. PICK n \in Nat : n > 0 /\ P[b] = n * P[q]
    <3>1. b - q \in Nat /\ q + (b - q) = b /\ q + (b - q) <= Width
      BY <1>1, <1>6 DEF W
    <3>2. q \in 0..Width
      BY <1>1 DEF W
    <3>3. \E n \in Nat : n > 0 /\ P[q + (b - q)] = n * P[q]
      BY <3>1, <3>2, PowerFactor DEF P
    <3> QED
      BY <3>1, <3>3
  <2>2. P[q] <= P[b]
    BY <1>3, <2>1
  <2> DEFINE d == P[b]
             r == P[b] - P[q]
             k == m - 1
  <2>3. d \in Nat \ {0} /\ r \in 0..(d - 1) /\ k \in Nat
    BY <1>3, <1>4, <2>2
  <2>4. P[W] - P[q] = k * d + r
    BY <1>3, <1>4
  <2>5. (k * d + r) \div d = k
    <3> HIDE DEF d, r, k
    <3> QED
      BY <2>3, Quotient
  <2>6. k % 2 = 1
    BY <1>4, <1>5
  <2> QED
    BY <2>4, <2>5, <2>6
<1>7. ASSUME ~(b >= q)
      PROVE  ((P[W] - P[q]) \div P[b]) % 2 = 0
  <2>1. PICK n \in Nat : n > 0 /\ P[q] = n * P[b] /\ \E g \in Nat : n = 2 * g
    <3>1. q - b \in Nat /\ q - b > 0 /\ b + (q - b) = q /\ b + (q - b) <= Width
      BY <1>1, <1>7 DEF W
    <3>2. b \in 0..Width
      BY <1>1 DEF W
    <3>3. \E n \in Nat : n > 0 /\ P[b + (q - b)] = n * P[b] /\ \E g \in Nat : n = 2 * g
      BY <3>1, <3>2, PowerFactor DEF P
    <3> QED
      BY <3>1, <3>3
  <2>2. PICK g \in Nat : n = 2 * g
    BY <2>1
  <2>3. n <= m
    <3>1. PICK l \in Nat : l > 0 /\ P[W] = l * P[q]
      <4>1. W - q \in Nat /\ q + (W - q) = W /\ q + (W - q) <= Width
        BY <1>1 DEF W
      <4>2. q \in 0..Width
        BY <1>1 DEF W
      <4>3. \E l \in Nat : l > 0 /\ P[q + (W - q)] = l * P[q]
        BY <4>1, <4>2, PowerFactor DEF P
      <4> QED
        BY <4>1, <4>3
    <3>2. P[q] <= P[W]
      BY <1>3, <3>1
    <3>3. n * P[b] <= m * P[b]
      BY <1>4, <2>1, <3>2
    <3> QED
      BY <1>3, <3>3
  <2> DEFINE d == P[b]
             k == m - n
  <2>4. d \in Nat \ {0} /\ 0 \in 0..(d - 1) /\ k \in Nat
    BY <1>3, <1>4, <2>1, <2>3
  <2>5. P[W] - P[q] = k * d + 0
    BY <1>3, <1>4, <2>1
  <2>6. (k * d + 0) \div d = k
    <3> HIDE DEF d, k
    <3> QED
      BY <2>4, Quotient
  <2>7. k % 2 = 0
    BY <1>5, <2>2, <2>3
  <2> QED
    BY <2>5, <2>6, <2>7
<1> QED
  BY <1>1, <1>2, <1>6, <1>7 DEF P, W

-----------------------------------------------------------------------------
(* The paths, in their order. *)
Elements(s) == {s[j] : j \in 1..Len(s)}

Increasing(s) == \A j, l \in 1..Len(s) : j < l => s[j] < s[l]

Present(k) == {i \in 1..k : addrs[i] # None}

With(s, i) == IF addrs[i] = None THEN s ELSE Append(s, i)

ListOf(f) == f = [i \in 0..Paths |-> IF i = 0 THEN <<>> ELSE With(f[i - 1], i)]

(* A path that is appended keeps the list increasing, and is in it.          *)
LEMMA Appended ==
  ASSUME NEW s \in Seq(Nat), NEW n \in Nat, Increasing(s), \A x \in Elements(s) : x < n
  PROVE  /\ Append(s, n) \in Seq(Nat) /\ Increasing(Append(s, n))
         /\ Elements(Append(s, n)) = Elements(s) \cup {n}
<1> DEFINE t == Append(s, n)
<1>1. /\ t \in Seq(Nat) /\ Len(s) \in Nat /\ Len(t) = Len(s) + 1
      /\ t[Len(s) + 1] = n /\ \A j \in 1..Len(s) : t[j] = s[j]
  OBVIOUS
<1> HIDE DEF t
<1>2. Increasing(t)
  <2> SUFFICES ASSUME NEW j \in 1..Len(t), NEW l \in 1..Len(t), j < l
               PROVE  t[j] < t[l]
    BY DEF Increasing
  <2>1. j \in 1..Len(s) /\ t[j] = s[j] /\ s[j] \in Elements(s)
    BY <1>1 DEF Elements
  <2>2. CASE l = Len(s) + 1
    BY <1>1, <2>1, <2>2
  <2>3. CASE l \in 1..Len(s)
    BY <1>1, <2>1, <2>3 DEF Increasing
  <2> QED
    BY <1>1, <2>2, <2>3
<1>3. ASSUME NEW x
      PROVE  x \in Elements(t) <=> x \in Elements(s) \cup {n}
  <2>1. ASSUME NEW j \in 1..Len(t) PROVE t[j] \in Elements(s) \cup {n}
    <3>1. CASE j = Len(s) + 1
      BY <1>1, <3>1
    <3>2. CASE j \in 1..Len(s)
      BY <1>1, <3>2 DEF Elements
    <3> QED
      BY <1>1, <3>1, <3>2
  <2>2. ASSUME NEW j \in 1..Len(s) PROVE s[j] \in Elements(t)
    <3>1. j \in 1..Len(t) /\ t[j] = s[j]
      BY <1>1
    <3> QED
      BY <3>1 DEF Elements
  <2>3. n \in Elements(t)
    <3>1. Len(t) \in 1..Len(t) /\ t[Len(t)] = n
      BY <1>1
    <3> QED
      BY <3>1 DEF Elements
  <2> QED
    BY <2>1, <2>2, <2>3 DEF Elements
<1> QED
  BY <1>1, <1>2, <1>3 DEF t

(* What is left of an increasing list behind its head.                       *)
LEMMA Rest ==
  ASSUME NEW s \in Seq(Nat), s # <<>>, Increasing(s)
  PROVE  /\ Tail(s) \in Seq(Nat) /\ Increasing(Tail(s))
         /\ Head(s) \in Elements(s) /\ \A x \in Elements(s) : Head(s) <= x
         /\ Elements(Tail(s)) = Elements(s) \ {Head(s)}
<1> DEFINE t == Tail(s)
<1>1. /\ t \in Seq(Nat) /\ Len(s) \in Nat \ {0} /\ Len(t) = Len(s) - 1
      /\ Head(s) = s[1] /\ \A j \in 1..Len(t) : t[j] = s[j + 1]
      /\ \A j \in 1..Len(s) : s[j] \in Nat
  OBVIOUS
<1> HIDE DEF t
<1>2. Increasing(t)
  <2> SUFFICES ASSUME NEW j \in 1..Len(t), NEW l \in 1..Len(t), j < l
               PROVE  t[j] < t[l]
    BY DEF Increasing
  <2>1. j + 1 \in 1..Len(s) /\ l + 1 \in 1..Len(s) /\ j + 1 < l + 1
    BY <1>1
  <2>2. s[j + 1] < s[l + 1]
    BY <2>1 DEF Increasing
  <2> QED
    BY <1>1, <2>2
<1>3. s[1] \in Elements(s) /\ \A x \in Elements(s) : s[1] <= x
  BY <1>1 DEF Elements, Increasing
<1>4. ASSUME NEW x \in Elements(t) PROVE x \in Elements(s) \ {s[1]}
  <2>1. PICK j \in 1..Len(t) : x = s[j + 1]
    BY <1>1 DEF Elements
  <2>2. j + 1 \in 1..Len(s) /\ 1 < j + 1 /\ 1 \in 1..Len(s)
    BY <1>1
  <2>3. s[1] < s[j + 1]
    BY <2>2 DEF Increasing
  <2>4. s[j + 1] \in Elements(s) /\ s[1] \in Nat /\ s[j + 1] \in Nat
    BY <1>1, <2>2 DEF Elements
  <2> QED
    BY <2>1, <2>3, <2>4
<1>5. ASSUME NEW x \in Elements(s) \ {s[1]} PROVE x \in Elements(t)
  <2>1. PICK j \in 1..Len(s) : x = s[j]
    BY DEF Elements
  <2>2. j - 1 \in 1..Len(t) /\ (j - 1) + 1 = j
    BY <1>1, <2>1
  <2> QED
    BY <1>1, <2>1, <2>2 DEF Elements
<1> QED
  BY <1>1, <1>2, <1>3, <1>4, <1>5 DEF t

(* getIpPaths() lists the paths that have an address, each once, in order.   *)
LEMMA ListedPaths ==
  /\ Listed \in Seq(Nat) /\ Increasing(Listed)
  /\ Elements(Listed) = Present(Paths)
<1> DEFINE step == [p \in Nat \X Seq(Nat) |-> With(p[2], p[1])]
<1>1. PICK f \in [0..Paths -> Seq(Nat)] : StepsOf(f, Paths, <<>>, step)
  <2>1. step \in [Nat \X Seq(Nat) -> Seq(Nat)] /\ <<>> \in Seq(Nat)
    BY DEF With
  <2> HIDE DEF step
  <2> QED
    BY <2>1, BoundsAssumption, StepsExist
<1>2. ASSUME NEW i \in 0..Paths
      PROVE  f[i] = IF i = 0 THEN <<>> ELSE With(f[i - 1], i)
  <2>1. f[i] = IF i = 0 THEN <<>> ELSE step[<<i, f[i - 1]>>]
    BY <1>1 DEF StepsOf
  <2>2. ASSUME i # 0
        PROVE  step[<<i, f[i - 1]>>] = With(f[i - 1], i)
    <3>1. i - 1 \in 0..Paths /\ i \in Nat
      BY <2>2, BoundsAssumption
    <3>2. f[i - 1] \in Seq(Nat)
      BY <3>1
    <3> QED
      BY <3>1, <3>2
  <2> QED
    BY <2>1, <2>2
<1>3. ListOf(f)
  BY <1>1, <1>2 DEF ListOf
<1> DEFINE g == CHOOSE h : ListOf(h)
<1>4. Listed = g[Paths]
  BY DEF Listed, ListOf, With
<1>5. ListOf(g)
  BY <1>3
<1> HIDE DEF g
<1>6. g[0] = <<>>
      /\ \A i \in 1..Paths : g[i] = With(g[i - 1], i)
  BY <1>5, BoundsAssumption DEF ListOf
<1> DEFINE Good(s, k) == s \in Seq(Nat) /\ Increasing(s) /\ Elements(s) = Present(k)
           T == {k \in Nat : k <= Paths => Good(g[k], k)}
<1>7. 0 \in T
  <2>1. <<>> \in Seq(Nat) /\ Len(<<>>) = 0
    OBVIOUS
  <2>2. Good(<<>>, 0)
    BY <2>1 DEF Increasing, Elements, Present
  <2> HIDE DEF Good
  <2> QED
    BY <1>6, <2>2
<1>8. ASSUME NEW k \in Nat, k \in T PROVE k + 1 \in T
  <2> SUFFICES ASSUME k + 1 <= Paths PROVE Good(g[k + 1], k + 1)
    OBVIOUS
  <2>1. Good(g[k], k) /\ k + 1 \in 1..Paths /\ (k + 1) - 1 = k
    BY <1>8, BoundsAssumption
  <2>2. CASE addrs[k + 1] = None
    <3>1. g[k + 1] = g[k]
      BY <1>6, <2>1, <2>2 DEF With
    <3>2. Present(k + 1) = Present(k)
      BY <2>2 DEF Present
    <3> QED
      BY <2>1, <3>1, <3>2
  <2>3. CASE addrs[k + 1] # None
    <3>1. g[k + 1] = Append(g[k], k + 1)
      BY <1>6, <2>1, <2>3 DEF With
    <3>2. Present(k + 1) = Present(k) \cup {k + 1}
      BY <2>3 DEF Present
    <3>3. \A x \in Elements(g[k]) : x < k + 1
      BY <2>1 DEF Present
    <3>4. Good(Append(g[k], k + 1), k + 1)
      <4>1. g[k] \in Seq(Nat) /\ Increasing(g[k]) /\ Elements(g[k]) = Present(k) /\ k + 1 \in Nat
        BY <2>1
      <4> QED
        BY <3>2, <3>3, <4>1, Appended
    <3> QED
      BY <3>1, <3>4
  <2> QED
    BY <2>2, <2>3
<1> HIDE DEF T, Good
<1>9. Paths \in T
  BY <1>7, <1>8, Induct, BoundsAssumption
<1> QED
  BY <1>4, <1>9, BoundsAssumption DEF T, Good

-----------------------------------------------------------------------------
(* What a query collects of a configuration that does not change. *)
Stage(cfg, i) ==
  IF i <= Len(Reads) THEN Applied(cfg, Reads[i], props[Reads[i]])
                     ELSE WithAddress(cfg, addrs[i - Len(Reads)])

Snapshot(f, k) == f[0] = NoConfig /\ \A i \in 1..k : f[i] = Stage(f[i - 1], i)

Whole(cfg) ==
  IF props["dhcp"] = None THEN cfg = NoConfig
  ELSE \E f : Snapshot(f, Len(Reads) + Paths) /\ cfg = f[Len(Reads) + Paths]

-----------------------------------------------------------------------------
(* The invariant. *)

Steps == {"idle", "read", "paths", "addresses", "done"}

CfgType(cfg) ==
  /\ DOMAIN cfg = DOMAIN NoConfig /\ cfg.haveV4 \in BOOLEAN
  /\ \A p \in NameProperties : cfg[p] \in Name

(* The names that the service gives are names, or there is none.             *)
PropsType ==
  /\ NameProperties \subseteq DOMAIN props
  /\ \A p \in NameProperties : props[p] \in Name \cup {None}

NetTypeOK ==
  /\ addrs \in [1..Paths -> Addresses \cup {None}]
  /\ DOMAIN daemon = DOMAIN Idle /\ daemon.at \in Steps
  /\ daemon.at # "idle" => daemon.command \in Commands
  /\ PropsType /\ CfgType(daemon.cfg)
  /\ lasting \subseteq 1..Paths /\ current \subseteq Addresses \cup {None}
  /\ quiet \in BOOLEAN
  /\ DOMAIN told = Commands

(* What is left to read. *)
LeftType ==
  /\ daemon.at = "read" =>
       \E k \in 0..(Len(Reads) - 1) : daemon.left = SubSeq(Reads, k + 1, Len(Reads))
  /\ daemon.at = "addresses" =>
       /\ daemon.left \in Seq(Nat) /\ Increasing(daemon.left)
       /\ Elements(daemon.left) \subseteq 1..Paths

(* The history has each address that is or was there. *)
History ==
  /\ daemon.at # "idle" => \A i \in 1..Paths : addrs[i] \in current
  /\ \A i \in lasting : addrs[i] # None
  /\ daemon.at = "done" => lasting = {}

(* No address is taken before they are read. *)
NoneYet == daemon.at \in {"idle", "read", "paths", "done"} => ~daemon.cfg.haveV4

(* An address that is taken was there, and has its own parameters.           *)
Taken(cfg, a) ==
  /\ Usable(a, "IPv4") /\ cfg.v4addr = a.addr /\ cfg.v4mask = Mask(a.prefix)
  /\ cfg.v4Dhcp = (a.origin = "dhcp")

OwnV4 == daemon.cfg.haveV4 => \E a \in current \ {None} : Taken(daemon.cfg, a)

(* If one of the lasting addresses that have been read is routable, the one  *)
(* that is taken is.                                                         *)
RoutableTaken ==
  daemon.at = "addresses" =>
    \A i \in lasting \ Elements(daemon.left) :
      Usable(addrs[i], "IPv4") /\ Routable(addrs[i]) =>
        /\ daemon.cfg.haveV4
        /\ \E a \in current \ {None} : Taken(daemon.cfg, a) /\ Routable(a)

(* If nothing has changed since the query began, it has collected what it    *)
(* would of the configuration as it is.                                      *)
QuietReads ==
  \E k \in 0..(Len(Reads) - 1) : \E f :
    /\ daemon.left = SubSeq(Reads, k + 1, Len(Reads))
    /\ k > 0 => props["dhcp"] # None
    /\ Snapshot(f, k) /\ daemon.cfg = f[k]

QuietAddresses ==
  \E k \in 0..Paths : \E f :
    /\ Elements(daemon.left) = {i \in (k + 1)..Paths : addrs[i] # None}
    /\ Snapshot(f, Len(Reads) + k) /\ daemon.cfg = f[Len(Reads) + k]

Consistent ==
  quiet =>
    /\ daemon.at = "read" => QuietReads
    /\ daemon.at = "done" => props["dhcp"] = None /\ daemon.cfg = NoConfig
    /\ daemon.at = "paths" =>
         /\ props["dhcp"] # None
         /\ \E f : Snapshot(f, Len(Reads)) /\ daemon.cfg = f[Len(Reads)]
    /\ daemon.at = "addresses" => props["dhcp"] # None /\ QuietAddresses

(* The answers are of the configuration as it is.                            *)
ToldNow ==
  \A c \in Commands : told[c] # None =>
    \E cfg : /\ Whole(cfg) /\ CfgType(cfg)
             /\ cfg.haveV4 => cfg.v4addr # None
             /\ told[c] = Message(c, cfg)

Collecting == LeftType /\ History /\ NoneYet /\ OwnV4 /\ RoutableTaken

NetInv == NetTypeOK /\ Collecting /\ Consistent /\ ToldNow

-----------------------------------------------------------------------------
(* The operators. *)

Fields == {"dhcp"} \cup DOMAIN NoConfig

(* The properties, in the order in which they are read.                      *)
LEMMA ReadsAre ==
  /\ Reads \in Seq(Fields) /\ Len(Reads) = 8 /\ Reads[1] = "dhcp"
  /\ \A i \in 2..8 : /\ Reads[i] \in DOMAIN NoConfig
                     /\ Reads[i] \notin {"dhcp", "haveV4"}
<1>1. Reads \in Seq(Fields) /\ Len(Reads) = 8 /\ Reads[1] = "dhcp"
  <2>1. Reads \in Seq(Fields)
    <3>1. \A f \in {"dhcp", "acceptRa", "mac", "hostName", "domainName", "gateway", "gateway6",
                    "nameservers"} : f \in Fields
      BY DEF Fields, NoConfig
    <3> HIDE DEF Fields
    <3> QED
      BY <3>1 DEF Reads
  <2>2. Len(Reads) = 8
    BY DEF Reads
  <2>3. Reads[1] = "dhcp"
    BY DEF Reads
  <2> QED
    BY <2>1, <2>2, <2>3
<1>2. ASSUME NEW i \in 2..8
      PROVE  Reads[i] \in DOMAIN NoConfig /\ Reads[i] \notin {"dhcp", "haveV4"}
  BY DEF Reads, NoConfig
<1> QED
  BY <1>1, <1>2

LEMMA NoConfigType == CfgType(NoConfig) /\ ~NoConfig.haveV4
<1>1. \A p \in NameProperties : NoConfig[p] = <<>>
  BY DEF NoConfig, NameProperties
<1>2. <<>> \in Name
  BY DEF Name
<1>3. DOMAIN NoConfig = DOMAIN NoConfig /\ NoConfig.haveV4 = FALSE
  BY DEF NoConfig
<1> QED
  BY <1>1, <1>2, <1>3 DEF CfgType

(* A property keeps the type of a configuration, and takes no address.       *)
LEMMA AppliedType ==
  ASSUME NEW cfg, CfgType(cfg), NEW i \in 1..8, NEW v,
         Reads[i] \in NameProperties => v \in Name \cup {None}
  PROVE  /\ CfgType(Applied(cfg, Reads[i], v))
         /\ Applied(cfg, Reads[i], v).haveV4 = cfg.haveV4
<1>1. CASE v = None
  BY <1>1 DEF Applied
<1>2. CASE v # None /\ i = 1
  <2>1. Applied(cfg, Reads[i], v) = WithDhcp(cfg, v)
    BY <1>2, ReadsAre DEF Applied
  <2> QED
    BY <2>1 DEF WithDhcp, CfgType, NoConfig, NameProperties
<1>3. CASE v # None /\ i # 1
  <2>1. Reads[i] # "dhcp" /\ Reads[i] # "haveV4"
    BY <1>3, ReadsAre
  <2>2. Applied(cfg, Reads[i], v) = [cfg EXCEPT ![Reads[i]] = v]
    BY <1>3, <2>1 DEF Applied
  <2> HIDE DEF Reads
  <2> QED
    BY <1>3, <2>1, <2>2 DEF CfgType, NoConfig, NameProperties
<1> QED
  BY <1>1, <1>2, <1>3

(* So does an address.                                                       *)
LEMMA AddressKeepsType ==
  ASSUME NEW cfg, CfgType(cfg), NEW a
  PROVE  CfgType(WithAddress(cfg, a))
BY DEF WithAddress, WithV4, WithV6, CfgType, NoConfig, NameProperties

(* A routable address is taken, another one only if there is none.           *)
LEMMA AddressTaken ==
  ASSUME NEW cfg, CfgType(cfg), NEW a
  PROVE  /\ a # None /\ Usable(a, "IPv4") /\ (Routable(a) \/ ~cfg.haveV4) =>
              WithAddress(cfg, a).haveV4 /\ Taken(WithAddress(cfg, a), a)
         /\ ~(a # None /\ Usable(a, "IPv4") /\ (Routable(a) \/ ~cfg.haveV4)) =>
              /\ WithAddress(cfg, a).haveV4 = cfg.haveV4
              /\ \A b : Taken(WithAddress(cfg, a), b) <=> Taken(cfg, b)
<1>1. CASE a # None /\ Usable(a, "IPv4")
  <2>1. WithAddress(cfg, a) = WithV4(cfg, a)
    BY <1>1 DEF WithAddress, Usable
  <2>2. CASE Routable(a) \/ ~cfg.haveV4
    BY <1>1, <2>1, <2>2 DEF WithV4, Taken, CfgType, NoConfig
  <2>3. CASE ~(Routable(a) \/ ~cfg.haveV4)
    BY <1>1, <2>1, <2>3 DEF WithV4
  <2> QED
    BY <1>1, <2>2, <2>3
<1>2. CASE ~(a # None /\ Usable(a, "IPv4"))
  <2>1. WithAddress(cfg, a) \in {cfg, WithV6(cfg, a)}
    BY <1>2 DEF WithAddress
  <2>2. /\ WithV6(cfg, a).haveV4 = cfg.haveV4 /\ WithV6(cfg, a).v4addr = cfg.v4addr
        /\ WithV6(cfg, a).v4mask = cfg.v4mask /\ WithV6(cfg, a).v4Dhcp = cfg.v4Dhcp
    BY DEF WithV6, CfgType, NoConfig
  <2> QED
    BY <1>2, <2>1, <2>2 DEF Taken
<1> QED
  BY <1>1, <1>2

(* One stage more. *)
LEMMA OneMore ==
  ASSUME NEW k \in Nat, NEW f, Snapshot(f, k)
  PROVE  \E g : Snapshot(g, k + 1) /\ g[k + 1] = Stage(f[k], k + 1)
<1> DEFINE g == [i \in 0..(k + 1) |-> IF i = k + 1 THEN Stage(f[k], k + 1) ELSE f[i]]
<1>1. g[k + 1] = Stage(f[k], k + 1) /\ \A i \in 0..k : g[i] = f[i]
  OBVIOUS
<1> HIDE DEF g
<1>2. g[0] = NoConfig
  BY <1>1 DEF Snapshot
<1>3. ASSUME NEW i \in 1..(k + 1) PROVE g[i] = Stage(g[i - 1], i)
  <2>1. i - 1 \in 0..k /\ g[i - 1] = f[i - 1]
    BY <1>1
  <2>2. CASE i = k + 1
    BY <1>1, <2>1, <2>2
  <2>3. CASE i # k + 1
    <3>1. i \in 1..k /\ g[i] = f[i]
      BY <1>1, <2>3
    <3> QED
      BY <2>1, <3>1 DEF Snapshot
  <2> QED
    BY <2>2, <2>3
<1>4. Snapshot(g, k + 1)
  BY <1>2, <1>3 DEF Snapshot
<1> QED
  BY <1>1, <1>4

(* There is one outcome. *)
LEMMA WholeUnique ==
  ASSUME NEW a, NEW b, Whole(a), Whole(b)
  PROVE  a = b
<1>1. CASE props["dhcp"] = None
  BY <1>1 DEF Whole
<1>2. CASE props["dhcp"] # None
  <2> DEFINE n == Len(Reads) + Paths
  <2>0. n \in Nat
    BY ReadsAre, BoundsAssumption
  <2> HIDE DEF n
  <2>1. PICK f : Snapshot(f, n) /\ a = f[n]
    BY <1>2 DEF Whole, n
  <2>2. PICK g : Snapshot(g, n) /\ b = g[n]
    BY <1>2 DEF Whole, n
  <2> DEFINE T == {k \in Nat : k <= n => f[k] = g[k]}
  <2>3. 0 \in T
    BY <2>1, <2>2 DEF Snapshot
  <2>4. ASSUME NEW k \in Nat, k \in T PROVE k + 1 \in T
    <3> SUFFICES ASSUME k + 1 <= n PROVE f[k + 1] = g[k + 1]
      OBVIOUS
    <3>1. k + 1 \in 1..n /\ (k + 1) - 1 = k /\ f[k] = g[k]
      BY <2>0, <2>4
    <3>2. f[k + 1] = Stage(f[k], k + 1) /\ g[k + 1] = Stage(g[k], k + 1)
      BY <2>1, <2>2, <3>1 DEF Snapshot
    <3> QED
      BY <3>1, <3>2
  <2> HIDE DEF T
  <2>5. n \in T
    BY <2>0, <2>3, <2>4, Induct
  <2> QED
    BY <2>0, <2>1, <2>2, <2>5 DEF T
<1> QED
  BY <1>1, <1>2

-----------------------------------------------------------------------------
(* The steps. *)

(* The rest of the properties to read.                                       *)
LEMMA RestOfReads ==
  ASSUME NEW k \in 0..7
  PROVE  LET left == SubSeq(Reads, k + 1, 8)
         IN /\ left # <<>> /\ Head(left) = Reads[k + 1]
            /\ Tail(left) = SubSeq(Reads, k + 2, 8)
            /\ Tail(left) = <<>> <=> k = 7
<1> DEFINE left == SubSeq(Reads, k + 1, 8)
<1>1. k + 1 \in 1..Len(Reads) /\ Len(Reads) = 8
  BY ReadsAre
<1>2. \A i \in (k + 1)..8 : Reads[i] \in Fields
  <2>1. \A i \in 1..Len(Reads) : Reads[i] \in Fields
    BY ReadsAre, ElementOfSeq
  <2> QED
    BY <1>1, <2>1
<1>3. /\ left \in Seq(Fields) /\ Len(left) = 8 - k
      /\ \A i \in 1..(8 - k) : left[i] = Reads[k + 1 + i - 1]
  <2>1. k + 1 \in Int /\ 8 \in Int
    OBVIOUS
  <2>2. /\ SubSeq(Reads, k + 1, 8) \in Seq(Fields)
        /\ Len(SubSeq(Reads, k + 1, 8)) = IF k + 1 <= 8 THEN 8 - (k + 1) + 1 ELSE 0
        /\ \A i \in 1..(8 - (k + 1) + 1) : SubSeq(Reads, k + 1, 8)[i] = Reads[k + 1 + i - 1]
    BY <1>2, <2>1, SubSeqProperties
  <2> HIDE DEF left
  <2> QED
    BY <2>2 DEF left
<1>4. left # <<>> /\ Head(left) = Reads[k + 1]
  <2> HIDE DEF left
  <2>1. left # <<>> /\ Head(left) = left[1]
    BY <1>3
  <2> QED
    BY <1>3, <2>1
<1>5. Tail(left) = SubSeq(Reads, k + 2, 8)
  BY <1>1, ReadsAre, HeadTailOfSubSeq
<1>6. Tail(left) = <<>> <=> k = 7
  <2> HIDE DEF left
  <2>1. Tail(left) \in Seq(Fields) /\ Len(Tail(left)) = 7 - k
    BY <1>3, <1>4, HeadTailProperties
  <2> QED
    BY <2>1
<1> QED
  BY <1>4, <1>5, <1>6

(* Where the daemon is after a read, whatever it has got.                    *)
LEMMA AfterReadIs ==
  ASSUME NEW k \in 0..7, NEW v, DOMAIN daemon = DOMAIN Idle, daemon.at = "read",
         daemon.left = SubSeq(Reads, k + 1, 8), daemon' = AfterRead(v)
  PROVE  /\ DOMAIN daemon' = DOMAIN Idle /\ daemon'.command = daemon.command
         /\ daemon'.cfg = Applied(daemon.cfg, Reads[k + 1], v)
         /\ k = 0 /\ v = None => daemon'.at = "done"
         /\ k = 7 => daemon'.at = "paths"
         /\ k < 7 /\ ~(k = 0 /\ v = None) =>
              daemon'.at = "read" /\ daemon'.left = SubSeq(Reads, k + 2, 8)
<1>1. /\ daemon.left # <<>> /\ Head(daemon.left) = Reads[k + 1]
      /\ Tail(daemon.left) = SubSeq(Reads, k + 2, 8)
      /\ Tail(daemon.left) = <<>> <=> k = 7
  BY RestOfReads
<1>2. Reads[k + 1] = "dhcp" <=> k = 0
  BY ReadsAre
<1> DEFINE p == Reads[k + 1]
           gone == p = "dhcp" /\ v = None
<1>3. daemon' = [daemon EXCEPT !.cfg = Applied(@, p, v),
                    !.left = IF gone THEN <<>> ELSE Tail(@),
                    !.at = IF gone THEN "done" ELSE IF Tail(daemon.left) = <<>> THEN "paths" ELSE "read"]
  BY <1>1 DEF AfterRead
<1>4. gone <=> k = 0 /\ v = None
  BY <1>2
<1> HIDE DEF p, gone
<1>5. /\ DOMAIN daemon' = DOMAIN daemon /\ daemon'.command = daemon.command
      /\ daemon'.cfg = Applied(daemon.cfg, p, v)
      /\ daemon'.left = IF gone THEN <<>> ELSE Tail(daemon.left)
      /\ daemon'.at = IF gone THEN "done" ELSE IF Tail(daemon.left) = <<>> THEN "paths" ELSE "read"
  BY <1>3 DEF Idle
<1>6. k = 0 /\ v = None => daemon'.at = "done"
  BY <1>4, <1>5
<1>7. k = 7 => daemon'.at = "paths"
  BY <1>1, <1>4, <1>5
<1>8. k < 7 /\ ~(k = 0 /\ v = None) =>
        daemon'.at = "read" /\ daemon'.left = SubSeq(Reads, k + 2, 8)
  <2> SUFFICES ASSUME k < 7, ~(k = 0 /\ v = None)
               PROVE  daemon'.at = "read" /\ daemon'.left = SubSeq(Reads, k + 2, 8)
    OBVIOUS
  <2>1. ~gone
    BY <1>4
  <2>2. ~(Tail(daemon.left) = <<>>)
    BY <1>1
  <2>3. daemon'.left = Tail(daemon.left)
    BY <1>5, <2>1, Zenon
  <2>4. daemon'.at = "read"
    BY <1>5, <2>1, <2>2, Zenon
  <2>5. daemon'.left = SubSeq(Reads, k + 2, 8)
    BY <1>1, <2>3, Zenon
  <2> QED
    BY <2>4, <2>5
<1> QED
  BY <1>5, <1>6, <1>7, <1>8 DEF p

(* A change ends the time without changes.                                   *)
LEMMA DisturbForgets ==
  ASSUME Disturb
  PROVE  quiet' = FALSE /\ DOMAIN told' = Commands /\ Consistent' /\ ToldNow'
BY DEF Disturb, Consistent, ToldNow

(* The daemon's view of what it has taken stays.                             *)
LEMMA OwnV4Stays ==
  ASSUME OwnV4, current \subseteq current', daemon'.cfg = daemon.cfg
  PROVE  OwnV4'
BY DEF OwnV4

(* Each action keeps the invariant.                                          *)
LEMMA ChangePropertyKeeps ==
  ASSUME NetInv, NEW p \in DOMAIN Properties, NEW v \in Properties[p], ChangeProperty(p, v)
  PROVE  NetTypeOK' /\ Collecting' /\ Consistent' /\ ToldNow'
<1>1. UNCHANGED <<addrs, daemon, lasting, current>> /\ Disturb
  BY DEF ChangeProperty
<1>2. quiet' = FALSE /\ DOMAIN told' = Commands /\ Consistent' /\ ToldNow'
  BY <1>1, DisturbForgets
<1>3. NetTypeOK'
  <2>1. PropsType'
    BY NamesAssumption DEF NetInv, NetTypeOK, PropsType, ChangeProperty
  <2> QED
    BY <1>1, <1>2, <2>1 DEF NetInv, NetTypeOK
<1>4. Collecting'
  BY <1>1 DEF NetInv, Collecting, LeftType, History, NoneYet, OwnV4, RoutableTaken
<1> QED
  BY <1>2, <1>3, <1>4

LEMMA ChangeAddressKeeps ==
  ASSUME NetInv, NEW i \in 1..Paths, NEW a \in Addresses \cup {None}, ChangeAddress(i, a)
  PROVE  NetTypeOK' /\ Collecting' /\ Consistent' /\ ToldNow'
<1>1. /\ UNCHANGED <<props, daemon>> /\ Disturb
      /\ addrs' = [addrs EXCEPT ![i] = a]
      /\ lasting' = lasting \ {i} /\ current' = current \cup {a}
  BY DEF ChangeAddress
<1>2. quiet' = FALSE /\ DOMAIN told' = Commands /\ Consistent' /\ ToldNow'
  BY <1>1, DisturbForgets
<1>3. NetTypeOK'
  BY <1>1, <1>2 DEF NetInv, NetTypeOK, PropsType
<1>4. LeftType' /\ NoneYet'
  BY <1>1 DEF NetInv, Collecting, LeftType, NoneYet
<1>5. \A j \in 1..Paths : addrs'[j] = IF j = i THEN a ELSE addrs[j]
  BY <1>1 DEF NetInv, NetTypeOK
<1>6. History'
  BY <1>1, <1>5 DEF NetInv, NetTypeOK, Collecting, History
<1>7. OwnV4'
  BY <1>1, OwnV4Stays DEF NetInv, Collecting
<1>8. RoutableTaken'
  <2> SUFFICES ASSUME daemon.at = "addresses", NEW j \in lasting' \ Elements(daemon.left),
                      Usable(addrs'[j], "IPv4"), Routable(addrs'[j])
               PROVE  /\ daemon.cfg.haveV4
                      /\ \E b \in current' \ {None} : Taken(daemon.cfg, b) /\ Routable(b)
    BY <1>1 DEF RoutableTaken
  <2>1. j \in lasting \ Elements(daemon.left) /\ addrs'[j] = addrs[j]
    BY <1>1, <1>5 DEF NetInv, NetTypeOK
  <2>2. /\ daemon.cfg.haveV4
        /\ \E b \in current \ {None} : Taken(daemon.cfg, b) /\ Routable(b)
    BY <2>1 DEF NetInv, Collecting, RoutableTaken
  <2> QED
    BY <1>1, <2>2
<1> QED
  BY <1>2, <1>3, <1>4, <1>6, <1>7, <1>8 DEF Collecting

(* An answer that is none of the steps before Respond changes nothing told.  *)
LEMMA ToldStays ==
  ASSUME ToldNow, UNCHANGED <<props, addrs, told>>
  PROVE  ToldNow'
BY DEF ToldNow, Whole, Snapshot, Stage

LEMMA QueryKeeps ==
  ASSUME NetInv, NEW c \in Commands, Query(c)
  PROVE  NetTypeOK' /\ Collecting' /\ Consistent' /\ ToldNow'
<1>1. /\ daemon' = [at |-> "read", command |-> c, left |-> Reads, cfg |-> NoConfig]
      /\ lasting' = {i \in 1..Paths : addrs[i] # None}
      /\ current' = {addrs[i] : i \in 1..Paths}
      /\ quiet' = TRUE /\ UNCHANGED <<props, addrs, told>>
  BY DEF Query, world
<1>2. NetTypeOK'
  BY <1>1, NoConfigType DEF NetInv, NetTypeOK, PropsType, Idle, Steps
<1>3. Reads = SubSeq(Reads, 0 + 1, Len(Reads)) /\ 0 \in 0..(Len(Reads) - 1)
  BY ReadsAre, SubSeqFull
<1>4. Collecting'
  <2>1. LeftType'
    BY <1>1, <1>3 DEF LeftType
  <2>2. History'
    BY <1>1 DEF History
  <2>3. NoneYet' /\ OwnV4' /\ RoutableTaken'
    BY <1>1, NoConfigType DEF NoneYet, OwnV4, RoutableTaken
  <2> QED
    BY <2>1, <2>2, <2>3 DEF Collecting
<1>5. Consistent'
  <2> DEFINE f == [i \in {0} |-> NoConfig]
  <2>1. f[0] = NoConfig /\ Snapshot(f, 0)'
    BY DEF Snapshot
  <2> HIDE DEF f
  <2>2. QuietReads'
    BY <1>1, <1>3, <2>1 DEF QuietReads
  <2> QED
    BY <1>1, <2>2 DEF Consistent
<1>6. ToldNow'
  BY <1>1, ToldStays DEF NetInv
<1> QED
  BY <1>2, <1>4, <1>5, <1>6

(* What is made of a configuration stays while it does.                      *)
LEMMA SnapshotStays ==
  ASSUME UNCHANGED <<props, addrs>>, NEW f, NEW k, Snapshot(f, k)
  PROVE  Snapshot(f, k)'
BY DEF Snapshot, Stage

(* A read, of a value or in vain.                                            *)
LEMMA ReadKeeps ==
  ASSUME NetTypeOK, Collecting, PropsType', daemon.at = "read", NEW v, daemon' = AfterRead(v),
         Head(daemon.left) \in NameProperties => v \in Name \cup {None}, ReadableStill,
         UNCHANGED <<addrs, current>>, quiet' \in BOOLEAN, DOMAIN told' = Commands
  PROVE  NetTypeOK' /\ Collecting'
<1>1. PICK k \in 0..7 : daemon.left = SubSeq(Reads, k + 1, 8)
  BY ReadsAre DEF Collecting, LeftType
<1>2. DOMAIN daemon = DOMAIN Idle
  BY DEF NetTypeOK
<1>3. /\ DOMAIN daemon' = DOMAIN Idle /\ daemon'.command = daemon.command
      /\ daemon'.cfg = Applied(daemon.cfg, Reads[k + 1], v)
      /\ k = 0 /\ v = None => daemon'.at = "done"
      /\ k = 7 => daemon'.at = "paths"
      /\ k < 7 /\ ~(k = 0 /\ v = None) =>
           daemon'.at = "read" /\ daemon'.left = SubSeq(Reads, k + 2, 8)
  BY <1>1, <1>2, AfterReadIs
<1>4. CfgType(daemon'.cfg) /\ daemon'.cfg.haveV4 = daemon.cfg.haveV4
  <2>1. CfgType(daemon.cfg) /\ k + 1 \in 1..8
    BY DEF NetTypeOK
  <2>2. Head(daemon.left) = Reads[k + 1]
    BY <1>1, RestOfReads
  <2>3. Reads[k + 1] \in NameProperties => v \in Name \cup {None}
    BY <2>2
  <2>4. /\ CfgType(Applied(daemon.cfg, Reads[k + 1], v))
        /\ Applied(daemon.cfg, Reads[k + 1], v).haveV4 = daemon.cfg.haveV4
    BY <2>1, <2>3, AppliedType
  <2> QED
    BY <1>3, <2>4
<1>5. daemon'.at \in {"read", "paths", "done"}
  BY <1>3
<1>6. ~daemon'.cfg.haveV4
  BY <1>4 DEF Collecting, NoneYet
<1>7. lasting' \subseteq lasting /\ (daemon'.at = "done" => lasting' = {})
  BY DEF ReadableStill
<1>8. NetTypeOK'
  <2>1. daemon.command \in Commands
    BY DEF NetTypeOK
  <2> QED
    BY <1>3, <1>4, <1>5, <1>7, <2>1 DEF NetTypeOK, Steps
<1>9. LeftType'
  <2>1. ASSUME daemon'.at = "read"
        PROVE  k + 1 \in 0..7 /\ daemon'.left = SubSeq(Reads, (k + 1) + 1, 8)
    <3>1. k < 7 /\ ~(k = 0 /\ v = None)
      BY <1>3, <2>1
    <3>2. (k + 1) + 1 = k + 2
      OBVIOUS
    <3> QED
      BY <1>3, <3>1, <3>2
  <2>2. 0..(Len(Reads) - 1) = 0..7 /\ Len(Reads) = 8 /\ daemon'.at # "addresses"
    BY <1>5, ReadsAre
  <2> QED
    BY <2>1, <2>2 DEF LeftType
<1>10. History'
  BY <1>7 DEF Collecting, History
<1>11. NoneYet' /\ OwnV4' /\ RoutableTaken'
  BY <1>5, <1>6 DEF NoneYet, OwnV4, RoutableTaken
<1> QED
  BY <1>8, <1>9, <1>10, <1>11 DEF Collecting

LEMMA ReadPropertyKeeps ==
  ASSUME NetInv, ReadProperty
  PROVE  NetTypeOK' /\ Collecting' /\ Consistent' /\ ToldNow'
<1> DEFINE v == props[Head(daemon.left)]
<1>1. /\ daemon.at = "read" /\ daemon' = AfterRead(v) /\ ReadableStill
      /\ UNCHANGED <<props, addrs, current, quiet, told>>
  BY DEF ReadProperty, world
<1>2. NetTypeOK /\ Collecting /\ Consistent /\ ToldNow
  BY DEF NetInv
<1>3. quiet' \in BOOLEAN /\ DOMAIN told' = Commands
  BY <1>1, <1>2 DEF NetTypeOK
<1>4. NetTypeOK' /\ Collecting'
  <2>1. Head(daemon.left) \in NameProperties => v \in Name \cup {None}
    BY <1>2 DEF NetTypeOK, PropsType
  <2>2. PropsType'
    BY <1>1, <1>2 DEF NetTypeOK, PropsType
  <2> HIDE DEF v
  <2> QED
    BY <1>1, <1>2, <1>3, <2>1, <2>2, ReadKeeps
<1>5. ToldNow'
  BY <1>1, <1>2, ToldStays
<1>6. ASSUME quiet
      PROVE  Consistent'
  <2>0. Len(Reads) = 8
    BY ReadsAre
  <2>10. PICK k \in 0..7 : \E h :
           /\ daemon.left = SubSeq(Reads, k + 1, 8)
           /\ k > 0 => props["dhcp"] # None
           /\ Snapshot(h, k) /\ daemon.cfg = h[k]
    <3>1. QuietReads
      BY <1>1, <1>2, <1>6 DEF Consistent
    <3>2. 0..(Len(Reads) - 1) = 0..7
      BY <2>0
    <3> QED
      BY <2>0, <3>1, <3>2, Zenon DEF QuietReads
  <2>1. PICK f : /\ daemon.left = SubSeq(Reads, k + 1, 8)
                 /\ k > 0 => props["dhcp"] # None
                 /\ Snapshot(f, k) /\ daemon.cfg = f[k]
    BY <2>10
  <2>2. v = props[Reads[k + 1]]
    <3>1. Head(daemon.left) = Reads[k + 1]
      BY <2>1, RestOfReads
    <3> QED
      BY <3>1
  <2>3. /\ daemon'.cfg = Applied(daemon.cfg, Reads[k + 1], v)
        /\ k = 0 /\ v = None => daemon'.at = "done"
        /\ k = 7 => daemon'.at = "paths"
        /\ k < 7 /\ ~(k = 0 /\ v = None) =>
             daemon'.at = "read" /\ daemon'.left = SubSeq(Reads, k + 2, 8)
    <3>1. DOMAIN daemon = DOMAIN Idle
      BY <1>2 DEF NetTypeOK
    <3> HIDE DEF v
    <3> QED
      BY <1>1, <2>1, <3>1, AfterReadIs
  <2>4. PICK g : Snapshot(g, k + 1) /\ g[k + 1] = daemon'.cfg
    <3>1. PICK g : Snapshot(g, k + 1) /\ g[k + 1] = Stage(f[k], k + 1)
      BY <2>1, OneMore
    <3>2. Stage(f[k], k + 1) = Applied(f[k], Reads[k + 1], props[Reads[k + 1]])
      BY <2>0 DEF Stage
    <3> QED
      BY <2>1, <2>2, <2>3, <3>1, <3>2
  <2>5. Snapshot(g, k + 1)'
    BY <1>1, <2>4, SnapshotStays
  <2>6. k = 0 => Reads[k + 1] = "dhcp"
    BY ReadsAre
  <2>7. CASE k = 0 /\ v = None
    <3>1. props["dhcp"] = None
      BY <2>2, <2>6, <2>7
    <3>2. daemon'.cfg = NoConfig
      BY <2>1, <2>3, <2>7 DEF Applied, Snapshot
    <3> QED
      BY <1>1, <2>3, <2>7, <3>1, <3>2 DEF Consistent
  <2>8. CASE k = 7
    <3>1. props'["dhcp"] # None
      BY <1>1, <2>1, <2>8
    <3>2. Snapshot(g, Len(Reads))' /\ daemon'.cfg = g[Len(Reads)]
      BY <2>0, <2>4, <2>5, <2>8
    <3> HIDE DEF v
    <3> QED
      BY <2>3, <2>8, <3>1, <3>2 DEF Consistent
  <2>9. CASE k < 7 /\ ~(k = 0 /\ v = None)
    <3>1. props'["dhcp"] # None
      BY <1>1, <2>1, <2>2, <2>6, <2>9
    <3>2. daemon'.at = "read" /\ daemon'.left = SubSeq(Reads, (k + 1) + 1, Len(Reads))
          /\ k + 1 \in 0..(Len(Reads) - 1)
      <4>1. (k + 1) + 1 = k + 2
        OBVIOUS
      <4> HIDE DEF v
      <4> QED
        BY <2>0, <2>3, <2>9, <4>1
    <3>3. QuietReads'
      BY <2>4, <2>5, <3>1, <3>2 DEF QuietReads
    <3> QED
      BY <3>2, <3>3 DEF Consistent
  <2> HIDE DEF v
  <2> QED
    BY <2>7, <2>8, <2>9
<1>7. ASSUME ~quiet
      PROVE  Consistent'
  BY <1>1, <1>7 DEF Consistent
<1> QED
  BY <1>4, <1>5, <1>6, <1>7

LEMMA ReadFailsKeeps ==
  ASSUME NetInv, ReadFails
  PROVE  NetTypeOK' /\ Collecting' /\ Consistent' /\ ToldNow'
<1>1. /\ daemon.at = "read" /\ daemon' = AfterRead(None) /\ ReadableStill
      /\ UNCHANGED <<props, addrs, current>> /\ Disturb
  BY DEF ReadFails, world
<1>2. quiet' = FALSE /\ DOMAIN told' = Commands /\ Consistent' /\ ToldNow'
  BY <1>1, DisturbForgets
<1>3. NetTypeOK' /\ Collecting'
  <2>1. NetTypeOK /\ Collecting /\ quiet' \in BOOLEAN
    BY <1>2 DEF NetInv
  <2>2. PropsType'
    BY <1>1, <2>1 DEF NetTypeOK, PropsType
  <2> QED
    BY <1>1, <1>2, <2>1, <2>2, ReadKeeps
<1> QED
  BY <1>2, <1>3

LEMMA GetPathsKeeps ==
  ASSUME NetInv, GetPaths
  PROVE  NetTypeOK' /\ Collecting' /\ Consistent' /\ ToldNow'
<1>1. /\ daemon.at = "paths" /\ daemon' = [daemon EXCEPT !.at = "addresses", !.left = Listed]
      /\ UNCHANGED <<props, addrs, lasting, current, quiet, told>>
  BY DEF GetPaths, world, history
<1>2. NetTypeOK /\ Collecting /\ Consistent /\ ToldNow
  BY DEF NetInv
<1>3. /\ Listed \in Seq(Nat) /\ Increasing(Listed)
      /\ Elements(Listed) = {i \in 1..Paths : addrs[i] # None}
  BY ListedPaths DEF Present
<1>4. /\ DOMAIN daemon' = DOMAIN Idle /\ daemon'.command = daemon.command
      /\ daemon'.cfg = daemon.cfg /\ daemon'.left = Listed /\ daemon'.at = "addresses"
  <2>1. DOMAIN daemon = DOMAIN Idle
    BY <1>2 DEF NetTypeOK
  <2> QED
    BY <1>1, <2>1 DEF Idle
<1>5. NetTypeOK'
  BY <1>1, <1>2, <1>4 DEF NetTypeOK, PropsType, Steps
<1>6. ~daemon'.cfg.haveV4
  BY <1>1, <1>2, <1>4 DEF Collecting, NoneYet
<1>7. lasting \subseteq Elements(Listed)
  BY <1>2, <1>3 DEF NetTypeOK, Collecting, History
<1>8. Collecting'
  <2>1. LeftType'
    BY <1>3, <1>4 DEF LeftType
  <2>2. History'
    BY <1>1, <1>2, <1>4 DEF Collecting, History
  <2>3. NoneYet' /\ OwnV4'
    BY <1>4, <1>6 DEF NoneYet, OwnV4
  <2>4. RoutableTaken'
    BY <1>1, <1>4, <1>7 DEF RoutableTaken
  <2> QED
    BY <2>1, <2>2, <2>3, <2>4 DEF Collecting
<1>9. ToldNow'
  BY <1>1, <1>2, ToldStays
<1>10. ASSUME quiet
       PROVE  Consistent'
  <2>1. props["dhcp"] # None
    BY <1>1, <1>2, <1>10 DEF Consistent
  <2>2. PICK f : Snapshot(f, Len(Reads)) /\ daemon.cfg = f[Len(Reads)]
    BY <1>1, <1>2, <1>10 DEF Consistent
  <2>3. Snapshot(f, Len(Reads))'
    BY <1>1, <2>2, SnapshotStays
  <2>4. Len(Reads) + 0 = Len(Reads) /\ 0 \in 0..Paths /\ 0 + 1 = 1
    BY ReadsAre, BoundsAssumption
  <2>5. Elements(daemon'.left) = {i \in (0 + 1)..Paths : addrs'[i] # None}
    BY <1>1, <1>3, <1>4
  <2>6. QuietAddresses'
    BY <1>4, <2>2, <2>3, <2>4, <2>5 DEF QuietAddresses
  <2> QED
    BY <1>1, <1>4, <2>1, <2>6 DEF Consistent
<1>11. ASSUME ~quiet
       PROVE  Consistent'
  BY <1>1, <1>11 DEF Consistent
<1> QED
  BY <1>5, <1>8, <1>9, <1>10, <1>11

LEMMA GetPathsFailsKeeps ==
  ASSUME NetInv, GetPathsFails
  PROVE  NetTypeOK' /\ Collecting' /\ Consistent' /\ ToldNow'
<1>1. /\ daemon.at = "paths" /\ daemon' = [daemon EXCEPT !.at = "addresses", !.left = <<>>]
      /\ lasting' = {} /\ Disturb /\ UNCHANGED <<props, addrs, current>>
  BY DEF GetPathsFails, world
<1>2. NetTypeOK /\ Collecting
  BY DEF NetInv
<1>3. /\ DOMAIN daemon' = DOMAIN Idle /\ daemon'.command = daemon.command
      /\ daemon'.cfg = daemon.cfg /\ daemon'.left = <<>> /\ daemon'.at = "addresses"
  <2>1. DOMAIN daemon = DOMAIN Idle
    BY <1>2 DEF NetTypeOK
  <2> QED
    BY <1>1, <2>1 DEF Idle
<1>4. quiet' = FALSE /\ DOMAIN told' = Commands /\ Consistent' /\ ToldNow'
  BY <1>1, DisturbForgets
<1>5. NetTypeOK'
  BY <1>1, <1>2, <1>3, <1>4 DEF NetTypeOK, PropsType, Steps
<1>6. ~daemon'.cfg.haveV4
  BY <1>1, <1>2, <1>3 DEF Collecting, NoneYet
<1>7. LeftType'
  <2>1. <<>> \in Seq(Nat) /\ Len(<<>>) = 0
    OBVIOUS
  <2>2. Increasing(<<>>) /\ Elements(<<>>) = {}
    BY <2>1 DEF Increasing, Elements
  <2> QED
    BY <1>3, <2>1, <2>2 DEF LeftType
<1>8. History'
  BY <1>1, <1>2, <1>3 DEF Collecting, History
<1>9. NoneYet' /\ OwnV4' /\ RoutableTaken'
  BY <1>1, <1>3, <1>6 DEF NoneYet, OwnV4, RoutableTaken
<1> QED
  BY <1>4, <1>5, <1>7, <1>8, <1>9 DEF Collecting

(* The next address, read or not.                                            *)
LEMMA NextAddress ==
  ASSUME NetTypeOK, Collecting, daemon.at = "addresses", daemon.left # <<>>
  PROVE  LET i == Head(daemon.left)
         IN /\ i \in 1..Paths /\ Tail(daemon.left) \in Seq(Nat) /\ Increasing(Tail(daemon.left))
            /\ \A x \in Elements(daemon.left) : i <= x
            /\ Elements(Tail(daemon.left)) = Elements(daemon.left) \ {i}
            /\ i \in Elements(daemon.left) /\ Elements(daemon.left) \subseteq 1..Paths
<1>1. daemon.left \in Seq(Nat) /\ Increasing(daemon.left) /\ Elements(daemon.left) \subseteq 1..Paths
  BY DEF Collecting, LeftType
<1>2. /\ Tail(daemon.left) \in Seq(Nat) /\ Increasing(Tail(daemon.left))
      /\ Head(daemon.left) \in Elements(daemon.left)
      /\ \A x \in Elements(daemon.left) : Head(daemon.left) <= x
      /\ Elements(Tail(daemon.left)) = Elements(daemon.left) \ {Head(daemon.left)}
  BY <1>1, Rest
<1> QED
  BY <1>1, <1>2

(* Addresses that are not there change nothing.                              *)
LEMMA AbsentSkipped ==
  ASSUME NEW k \in Nat, NEW n \in k..Paths, \A j \in (k + 1)..n : addrs[j] = None,
         NEW f, Snapshot(f, Len(Reads) + k)
  PROVE  \E g : Snapshot(g, Len(Reads) + n) /\ g[Len(Reads) + n] = f[Len(Reads) + k]
<1> DEFINE R == Len(Reads)
           Reached(l, g) == Snapshot(g, R + (k + l)) /\ g[R + (k + l)] = f[R + k]
           T == {l \in Nat : k + l <= n => \E g : Reached(l, g)}
<1>1. R \in Nat /\ n \in Nat
  BY ReadsAre, BoundsAssumption
<1>2. 0 \in T
  <2>1. k + 0 = k
    OBVIOUS
  <2>2. Reached(0, f)
    BY <2>1
  <2> QED
    BY <2>2
<1>3. ASSUME NEW l \in Nat, l \in T
      PROVE  l + 1 \in T
  <2> SUFFICES ASSUME k + (l + 1) <= n PROVE \E g : Reached(l + 1, g)
    OBVIOUS
  <2>1. PICK g : Reached(l, g)
    BY <1>1, <1>3
  <2> DEFINE m == R + (k + l)
  <2>2. m \in Nat /\ m + 1 = R + (k + (l + 1)) /\ ~(m + 1 <= R) /\ (m + 1) - R = k + (l + 1)
    BY <1>1
  <2>3. addrs[k + (l + 1)] = None
    BY <1>1
  <2> HIDE DEF m
  <2>4. PICK h : Snapshot(h, m + 1) /\ h[m + 1] = Stage(g[m], m + 1)
    BY <2>1, <2>2, OneMore DEF m
  <2>5. Stage(g[m], m + 1) = g[m]
    <3>1. Stage(g[m], m + 1) = WithAddress(g[m], addrs[k + (l + 1)])
      BY <2>2 DEF Stage
    <3> QED
      BY <2>3, <3>1 DEF WithAddress
  <2>6. Reached(l + 1, h)
    BY <2>1, <2>2, <2>4, <2>5 DEF m
  <2> QED
    BY <2>6
<1>4. n - k \in T
  <2> HIDE DEF T
  <2>1. n - k \in Nat
    BY <1>1
  <2> QED
    BY <1>2, <1>3, <2>1, Induct
<1>5. PICK g : Reached(n - k, g)
  BY <1>1, <1>4
<1>6. k + (n - k) = n
  BY <1>1
<1> QED
  BY <1>5, <1>6

(* If nothing changes, it is the next stage.                                 *)
LEMMA QuietAddress ==
  ASSUME NetTypeOK, Collecting, daemon.at = "addresses", daemon.left # <<>>, QuietAddresses
  PROVE  \E g : LET i == Head(daemon.left)
                IN /\ Snapshot(g, Len(Reads) + i)
                   /\ g[Len(Reads) + i] = WithAddress(daemon.cfg, addrs[i])
                   /\ Elements(Tail(daemon.left)) = {j \in (i + 1)..Paths : addrs[j] # None}
<1> DEFINE i == Head(daemon.left)
           R == Len(Reads)
<1>1. /\ i \in 1..Paths /\ \A x \in Elements(daemon.left) : i <= x
      /\ Elements(Tail(daemon.left)) = Elements(daemon.left) \ {i} /\ i \in Elements(daemon.left)
  BY NextAddress
<1>2. R \in Nat /\ Paths \in Nat
  BY ReadsAre, BoundsAssumption
<1>10. PICK k \in 0..Paths : \E h :
        /\ Elements(daemon.left) = {j \in (k + 1)..Paths : addrs[j] # None}
        /\ Snapshot(h, R + k) /\ daemon.cfg = h[R + k]
  BY DEF QuietAddresses
<1>3. PICK f : /\ Elements(daemon.left) = {j \in (k + 1)..Paths : addrs[j] # None}
               /\ Snapshot(f, R + k) /\ daemon.cfg = f[R + k]
  BY <1>10
<1> HIDE DEF i, R
<1>4. i \in (k + 1)..Paths /\ addrs[i] # None
  BY <1>1, <1>3
<1>5. \A j \in (k + 1)..(i - 1) : addrs[j] = None
  BY <1>1, <1>2, <1>3
<1>6. PICK g : Snapshot(g, R + (i - 1)) /\ g[R + (i - 1)] = daemon.cfg
  <2>1. i - 1 \in k..Paths /\ k \in Nat
    BY <1>2, <1>4
  <2>2. \E g : Snapshot(g, R + (i - 1)) /\ g[R + (i - 1)] = f[R + k]
    BY <1>3, <1>5, <2>1, AbsentSkipped DEF R
  <2> QED
    BY <1>3, <2>2
<1>7. PICK h : Snapshot(h, R + i) /\ h[R + i] = WithAddress(daemon.cfg, addrs[i])
  <2>1. R + (i - 1) \in Nat /\ (R + (i - 1)) + 1 = R + i /\ ~(R + i <= R) /\ (R + i) - R = i
    BY <1>2, <1>4
  <2>2. PICK h : Snapshot(h, R + i) /\ h[R + i] = Stage(daemon.cfg, R + i)
    BY <1>6, <2>1, OneMore
  <2>3. Stage(daemon.cfg, R + i) = WithAddress(daemon.cfg, addrs[i])
    BY <2>1 DEF Stage, R
  <2> QED
    BY <2>2, <2>3
<1>8. Elements(Tail(daemon.left)) = {j \in (i + 1)..Paths : addrs[j] # None}
  BY <1>1, <1>2, <1>3, <1>4
<1> QED
  BY <1>7, <1>8 DEF i, R

LEMMA ReadAddressKeeps ==
  ASSUME NetInv, ReadAddress
  PROVE  NetTypeOK' /\ Collecting' /\ Consistent' /\ ToldNow'
<1> DEFINE i == Head(daemon.left)
           a == addrs[i]
<1>1. /\ daemon.at = "addresses" /\ daemon.left # <<>>
      /\ daemon' = [daemon EXCEPT !.left = Tail(@), !.cfg = WithAddress(@, addrs[Head(daemon.left)])]
      /\ UNCHANGED <<props, addrs, lasting, current, quiet, told>>
  BY DEF ReadAddress, world, history
<1>2. NetTypeOK /\ Collecting /\ Consistent /\ ToldNow
  BY DEF NetInv
<1>3. /\ i \in 1..Paths /\ Tail(daemon.left) \in Seq(Nat) /\ Increasing(Tail(daemon.left))
      /\ Elements(Tail(daemon.left)) = Elements(daemon.left) \ {i}
      /\ Elements(daemon.left) \subseteq 1..Paths
  BY <1>1, <1>2, NextAddress
<1>4. /\ DOMAIN daemon' = DOMAIN Idle /\ daemon'.command = daemon.command
      /\ daemon'.cfg = WithAddress(daemon.cfg, a) /\ daemon'.left = Tail(daemon.left)
      /\ daemon'.at = "addresses"
  <2>1. DOMAIN daemon = DOMAIN Idle
    BY <1>2 DEF NetTypeOK
  <2> QED
    BY <1>1, <2>1 DEF Idle
<1>5. CfgType(daemon.cfg) /\ CfgType(daemon'.cfg)
  <2>1. CfgType(daemon.cfg)
    BY <1>2 DEF NetTypeOK
  <2> QED
    BY <1>4, <2>1, AddressKeepsType
<1>6. NetTypeOK'
  BY <1>1, <1>2, <1>4, <1>5 DEF NetTypeOK, PropsType, Steps
<1>7. a \in current
  BY <1>1, <1>2, <1>3 DEF Collecting, History
<1> DEFINE takes == a # None /\ Usable(a, "IPv4") /\ (Routable(a) \/ ~daemon.cfg.haveV4)
<1>8. /\ takes => daemon'.cfg.haveV4 /\ Taken(daemon'.cfg, a)
      /\ ~takes => /\ daemon'.cfg.haveV4 = daemon.cfg.haveV4
                   /\ \A b : Taken(daemon'.cfg, b) <=> Taken(daemon.cfg, b)
  BY <1>4, <1>5, AddressTaken
<1>9. OwnV4'
  <2>1. CASE takes
    BY <1>1, <1>7, <1>8, <2>1 DEF OwnV4
  <2>2. CASE ~takes
    BY <1>1, <1>2, <1>8, <2>2 DEF Collecting, OwnV4
  <2> QED
    BY <2>1, <2>2
<1>10. RoutableTaken'
  <2> SUFFICES ASSUME NEW j \in lasting \ Elements(Tail(daemon.left)),
                      Usable(addrs[j], "IPv4"), Routable(addrs[j])
               PROVE  /\ daemon'.cfg.haveV4
                      /\ \E b \in current \ {None} : Taken(daemon'.cfg, b) /\ Routable(b)
    BY <1>1, <1>4 DEF RoutableTaken
  <2>1. j = i \/ j \in lasting \ Elements(daemon.left)
    BY <1>3
  <2>2. addrs[j] # None
    BY <1>2 DEF Collecting, History
  <2>3. j # i => /\ daemon.cfg.haveV4
                 /\ \E b \in current \ {None} : Taken(daemon.cfg, b) /\ Routable(b)
    BY <1>1, <1>2, <2>1 DEF Collecting, RoutableTaken
  <2>4. CASE takes
    <3>1. Routable(a)
      BY <2>3, <2>4
    <3> QED
      BY <1>7, <1>8, <2>4, <3>1
  <2>5. CASE ~takes
    <3>1. j # i
      BY <2>2, <2>5
    <3> QED
      BY <1>8, <2>3, <2>5, <3>1
  <2> QED
    BY <2>4, <2>5
<1>11. LeftType' /\ History' /\ NoneYet'
  <2>1. LeftType'
    BY <1>3, <1>4 DEF LeftType
  <2>2. History'
    BY <1>1, <1>2, <1>4 DEF Collecting, History
  <2> QED
    BY <1>4, <2>1, <2>2 DEF NoneYet
<1>12. ToldNow'
  BY <1>1, <1>2, ToldStays
<1>13. ASSUME quiet
       PROVE  Consistent'
  <2>1. props["dhcp"] # None /\ QuietAddresses
    BY <1>1, <1>2, <1>13 DEF Consistent
  <2>10. PICK k \in 1..Paths : k = i
    BY <1>3
  <2>2. PICK g : /\ Snapshot(g, Len(Reads) + k)
                 /\ g[Len(Reads) + k] = WithAddress(daemon.cfg, a)
                 /\ Elements(Tail(daemon.left)) = {j \in (k + 1)..Paths : addrs[j] # None}
    <3>1. \E g : /\ Snapshot(g, Len(Reads) + i)
                 /\ g[Len(Reads) + i] = WithAddress(daemon.cfg, addrs[i])
                 /\ Elements(Tail(daemon.left)) = {j \in (i + 1)..Paths : addrs[j] # None}
      BY <1>1, <1>2, <2>1, QuietAddress
    <3> QED
      BY <1>3, <2>10, <3>1
  <2>3. Snapshot(g, Len(Reads) + k)'
    BY <1>1, <2>2, SnapshotStays
  <2>4. k \in 0..Paths /\ daemon'.cfg = g[Len(Reads) + k]
        /\ Elements(daemon'.left) = {j \in (k + 1)..Paths : addrs'[j] # None}
    BY <1>1, <1>4, <2>2
  <2>5. QuietAddresses'
    BY <2>3, <2>4 DEF QuietAddresses
  <2> QED
    BY <1>1, <1>4, <2>1, <2>5 DEF Consistent
<1>14. ASSUME ~quiet
       PROVE  Consistent'
  BY <1>1, <1>14 DEF Consistent
<1> QED
  BY <1>6, <1>9, <1>10, <1>11, <1>12, <1>13, <1>14 DEF Collecting

LEMMA AddressFailsKeeps ==
  ASSUME NetInv, AddressFails
  PROVE  NetTypeOK' /\ Collecting' /\ Consistent' /\ ToldNow'
<1> DEFINE i == Head(daemon.left)
<1>1. /\ daemon.at = "addresses" /\ daemon.left # <<>>
      /\ daemon' = [daemon EXCEPT !.left = Tail(@)]
      /\ lasting' = lasting \ {i} /\ Disturb /\ UNCHANGED <<props, addrs, current>>
  BY DEF AddressFails, world
<1>2. NetTypeOK /\ Collecting
  BY DEF NetInv
<1>3. /\ Tail(daemon.left) \in Seq(Nat) /\ Increasing(Tail(daemon.left))
      /\ Elements(Tail(daemon.left)) = Elements(daemon.left) \ {i}
      /\ Elements(daemon.left) \subseteq 1..Paths
  BY <1>1, <1>2, NextAddress
<1>4. /\ DOMAIN daemon' = DOMAIN Idle /\ daemon'.command = daemon.command
      /\ daemon'.cfg = daemon.cfg /\ daemon'.left = Tail(daemon.left) /\ daemon'.at = "addresses"
  <2>1. DOMAIN daemon = DOMAIN Idle
    BY <1>2 DEF NetTypeOK
  <2> QED
    BY <1>1, <2>1 DEF Idle
<1>5. quiet' = FALSE /\ DOMAIN told' = Commands /\ Consistent' /\ ToldNow'
  BY <1>1, DisturbForgets
<1>6. NetTypeOK'
  BY <1>1, <1>2, <1>4, <1>5 DEF NetTypeOK, PropsType, Steps
<1>7. LeftType' /\ NoneYet'
  BY <1>3, <1>4 DEF LeftType, NoneYet
<1>8. History'
  BY <1>1, <1>2, <1>4 DEF Collecting, History
<1>9. OwnV4'
  BY <1>1, <1>2, <1>4, OwnV4Stays DEF Collecting
<1>10. RoutableTaken'
  <2>1. lasting' \ Elements(Tail(daemon.left)) \subseteq lasting \ Elements(daemon.left)
    BY <1>1, <1>3
  <2> QED
    BY <1>1, <1>2, <1>4, <2>1 DEF Collecting, RoutableTaken
<1> QED
  BY <1>5, <1>6, <1>7, <1>8, <1>9, <1>10 DEF Collecting

(* A query that nothing has disturbed has collected everything.              *)
LEMMA QuietIsWhole ==
  ASSUME NetInv, quiet, Finished
  PROVE  Whole(daemon.cfg)
<1>1. NetTypeOK /\ Collecting /\ Consistent
  BY DEF NetInv
<1>2. CASE daemon.at = "done"
  BY <1>1, <1>2 DEF Consistent, Whole
<1>3. CASE daemon.at = "addresses" /\ daemon.left = <<>>
  <2>1. props["dhcp"] # None /\ QuietAddresses
    BY <1>1, <1>3 DEF Consistent
  <2>10. PICK k \in 0..Paths : \E h :
          /\ Elements(daemon.left) = {j \in (k + 1)..Paths : addrs[j] # None}
          /\ Snapshot(h, Len(Reads) + k) /\ daemon.cfg = h[Len(Reads) + k]
    BY <2>1 DEF QuietAddresses
  <2>2. PICK f : /\ Elements(daemon.left) = {j \in (k + 1)..Paths : addrs[j] # None}
                 /\ Snapshot(f, Len(Reads) + k) /\ daemon.cfg = f[Len(Reads) + k]
    BY <2>10
  <2>3. Elements(daemon.left) = {}
    BY <1>3 DEF Elements
  <2>4. \A j \in (k + 1)..Paths : addrs[j] = None
    BY <2>2, <2>3
  <2>5. k \in Nat /\ Paths \in k..Paths
    BY BoundsAssumption
  <2>6. \E g : Snapshot(g, Len(Reads) + Paths) /\ g[Len(Reads) + Paths] = f[Len(Reads) + k]
    BY <2>2, <2>4, <2>5, AbsentSkipped
  <2> QED
    BY <2>1, <2>2, <2>6 DEF Whole
<1> QED
  BY <1>2, <1>3 DEF Finished

(* An address that is taken is one.                                          *)
LEMMA TakenIsOne ==
  ASSUME NetTypeOK, OwnV4, daemon.cfg.haveV4
  PROVE  daemon.cfg.v4addr # None
BY WorldsAssumption DEF NetTypeOK, OwnV4, Taken

LEMMA RespondKeeps ==
  ASSUME NetInv, Respond
  PROVE  NetTypeOK' /\ Collecting' /\ Consistent' /\ ToldNow'
<1> DEFINE c == daemon.command
           m == Message(daemon.command, daemon.cfg)
<1>1. /\ Finished /\ daemon' = Idle
      /\ told' = IF quiet THEN [told EXCEPT ![c] = m] ELSE told
      /\ UNCHANGED <<props, addrs, lasting, current, quiet>>
  BY DEF Respond, world
<1>2. NetTypeOK /\ Collecting /\ Consistent /\ ToldNow
  BY DEF NetInv
<1>3. DOMAIN told' = Commands /\ daemon'.at = "idle" /\ daemon'.cfg = NoConfig
  BY <1>1, <1>2 DEF NetTypeOK, Idle
<1>4. NetTypeOK'
  BY <1>1, <1>2, <1>3, NoConfigType DEF NetTypeOK, PropsType, Steps
<1>5. Collecting'
  BY <1>1, <1>2, <1>3, NoConfigType DEF Collecting, LeftType, History, NoneYet, OwnV4, RoutableTaken
<1>6. Consistent'
  BY <1>3 DEF Consistent
<1>7. CfgType(daemon.cfg) /\ (daemon.cfg.haveV4 => daemon.cfg.v4addr # None)
  BY <1>2, TakenIsOne DEF NetTypeOK, Collecting
<1>8. \A cfg : Whole(cfg)' <=> Whole(cfg)
  BY <1>1 DEF Whole, Snapshot, Stage
<1>9. ASSUME NEW d \in Commands, told'[d] # None
      PROVE  \E cfg : /\ Whole(cfg) /\ CfgType(cfg)
                      /\ cfg.haveV4 => cfg.v4addr # None
                      /\ told'[d] = Message(d, cfg)
  <2>1. CASE told'[d] = told[d]
    BY <1>2, <1>9, <2>1 DEF ToldNow
  <2>2. CASE told'[d] # told[d]
    <3>1. quiet /\ d = c /\ told'[d] = m
      BY <1>1, <1>2, <2>2 DEF NetTypeOK
    <3>2. Whole(daemon.cfg)
      BY <1>1, <3>1, QuietIsWhole
    <3> QED
      BY <1>7, <3>1, <3>2
  <2> QED
    BY <2>1, <2>2
<1>10. ToldNow'
  BY <1>8, <1>9 DEF ToldNow
<1> QED
  BY <1>4, <1>5, <1>6, <1>10

LEMMA NetInitHolds == NetInit => NetInv
<1> SUFFICES ASSUME NetInit PROVE NetInv
  OBVIOUS
<1>1. /\ daemon = Idle /\ lasting = {} /\ current = {} /\ quiet = TRUE
      /\ told = [c \in Commands |-> None]
  BY DEF NetInit
<1>2. addrs \in [1..Paths -> Addresses \cup {None}]
  BY WorldsAssumption DEF NetInit
<1>3. daemon.at = "idle" /\ daemon.cfg = NoConfig
  BY <1>1 DEF Idle
<1>4. NetTypeOK
  <2>1. PropsType
    BY NamesAssumption DEF NetInit, PropsType
  <2> QED
    BY <1>1, <1>2, <1>3, <2>1, NoConfigType DEF NetTypeOK, Steps
<1>5. Collecting
  BY <1>1, <1>3, NoConfigType DEF Collecting, LeftType, History, NoneYet, OwnV4, RoutableTaken
<1> QED
  BY <1>1, <1>3, <1>4, <1>5 DEF NetInv, Consistent, ToldNow

LEMMA NetStepHolds == NetInv /\ [NetNext]_netVars => NetInv'
<1> SUFFICES ASSUME NetInv, [NetNext]_netVars PROVE NetTypeOK' /\ Collecting' /\ Consistent' /\ ToldNow'
  BY DEF NetInv
<1>1. ASSUME NEW p \in DOMAIN Properties, NEW v \in Properties[p], ChangeProperty(p, v)
      PROVE  NetTypeOK' /\ Collecting' /\ Consistent' /\ ToldNow'
  BY <1>1, ChangePropertyKeeps
<1>2. ASSUME NEW i \in 1..Paths, NEW a \in Addresses \cup {None}, ChangeAddress(i, a)
      PROVE  NetTypeOK' /\ Collecting' /\ Consistent' /\ ToldNow'
  BY <1>2, ChangeAddressKeeps
<1>3. ASSUME NEW c \in Commands, Query(c)
      PROVE  NetTypeOK' /\ Collecting' /\ Consistent' /\ ToldNow'
  BY <1>3, QueryKeeps
<1>4. CASE ReadProperty \/ ReadFails
  BY <1>4, ReadPropertyKeeps, ReadFailsKeeps
<1>5. CASE GetPaths \/ GetPathsFails
  BY <1>5, GetPathsKeeps, GetPathsFailsKeeps
<1>6. CASE ReadAddress \/ AddressFails
  BY <1>6, ReadAddressKeeps, AddressFailsKeeps
<1>7. CASE Respond
  BY <1>7, RespondKeeps
<1>8. CASE UNCHANGED netVars
  <2>1. UNCHANGED <<props, addrs, daemon, lasting, current, quiet, told>>
    BY <1>8 DEF netVars, world, history
  <2>2. NetTypeOK' /\ Collecting'
    BY <2>1 DEF NetInv, NetTypeOK, PropsType, Collecting, LeftType, History, NoneYet, OwnV4, RoutableTaken
  <2>3. Consistent' /\ ToldNow'
    BY <2>1 DEF NetInv, Consistent, QuietReads, QuietAddresses, Snapshot, Stage, ToldNow, Whole
  <2> QED
    BY <2>2, <2>3
<1> QED
  BY <1>1, <1>2, <1>3, <1>4, <1>5, <1>6, <1>7, <1>8 DEF NetNext, Network

-----------------------------------------------------------------------------
(* What the host is told. *)

(* The IPv4 part of an answer is that of the configuration collected.        *)
LEMMA V4Answered ==
  ASSUME NEW c \in Commands, NEW cfg
  PROVE  /\ "v4" \in DOMAIN Message(c, cfg) => Message(c, cfg).v4 = V4Part(cfg)
         /\ cfg.haveV4 => /\ V4Part(cfg).addr = cfg.v4addr /\ V4Part(cfg).mask = cfg.v4mask
                          /\ V4Part(cfg).dhcp = cfg.v4Dhcp
         /\ ~cfg.haveV4 => V4Part(cfg).addr = None
<1>1. "v4" \in DOMAIN Message(c, cfg) => Message(c, cfg).v4 = V4Part(cfg)
  <2>1. CASE c = "IPv4Config"
    BY <2>1 DEF Message, IPv4Config
  <2>2. CASE c = "NicConfig"
    BY <2>2 DEF Message, NicConfig
  <2>3. CASE c = "IPv6Config"
    BY <2>3 DEF Message, IPv6Config
  <2> QED
    BY <2>1, <2>2, <2>3 DEF Commands
<1> QED
  BY <1>1 DEF V4Part, NoV4

(* The answer that ends a query.                                             *)
LEMMA RoutableAnswered ==
  ASSUME NetInv, Respond
  PROVE  RoutablePreferred' /\ OwnParameters'
<1> DEFINE c == daemon.command
           cfg == daemon.cfg
<1>1. Finished /\ answer' = Message(c, cfg) /\ UNCHANGED <<addrs, lasting, current>>
  BY DEF Respond, world
<1>2. NetTypeOK /\ Collecting
  BY DEF NetInv
<1>3. c \in Commands
  BY <1>1, <1>2 DEF Finished, NetTypeOK
<1> HIDE DEF c
<1>4. "v4" \in DOMAIN answer' => answer'.v4 = V4Part(cfg)
  BY <1>1, <1>3, V4Answered
<1>5. /\ cfg.haveV4 => /\ V4Part(cfg).addr = cfg.v4addr /\ V4Part(cfg).mask = cfg.v4mask
                       /\ V4Part(cfg).dhcp = cfg.v4Dhcp
      /\ ~cfg.haveV4 => V4Part(cfg).addr = None
  BY <1>3, V4Answered
<1>6. cfg.haveV4 => cfg.v4addr # None
  BY <1>2, TakenIsOne DEF Collecting
<1>7. RoutablePreferred'
  <2> SUFFICES ASSUME answer' # None, "v4" \in DOMAIN answer',
                      NEW i \in lasting, Usable(addrs[i], "IPv4"), Routable(addrs[i])
               PROVE  HasV4' /\ \E a \in current \ {None} : /\ Usable(a, "IPv4") /\ Routable(a)
                                                            /\ answer'.v4.addr = a.addr
    BY <1>1 DEF RoutablePreferred
  <2>1. daemon.at = "addresses" /\ daemon.left = <<>>
    BY <1>1, <1>2 DEF Finished, Collecting, History
  <2>2. Elements(daemon.left) = {}
    BY <2>1 DEF Elements
  <2>3. cfg.haveV4 /\ \E a \in current \ {None} : Taken(cfg, a) /\ Routable(a)
    BY <1>2, <2>1, <2>2 DEF Collecting, RoutableTaken
  <2> QED
    BY <1>4, <1>5, <1>6, <2>3 DEF HasV4, Taken
<1>8. OwnParameters'
  <2> SUFFICES ASSUME HasV4'
               PROVE  \E a \in current \ {None} :
                        /\ Usable(a, "IPv4") /\ answer'.v4.addr = a.addr
                        /\ answer'.v4.dhcp = (a.origin = "dhcp")
                        /\ \A b \in 0..(Width - 1) :
                             (answer'.v4.mask \div PowersOf2[b]) % 2 = IF b >= Width - a.prefix THEN 1 ELSE 0
    BY <1>1 DEF OwnParameters
  <2>1. cfg.haveV4 /\ answer'.v4 = V4Part(cfg)
    BY <1>4, <1>5 DEF HasV4
  <2>2. PICK a \in current \ {None} : Taken(cfg, a)
    BY <1>2, <2>1 DEF Collecting, OwnV4
  <2>3. a.prefix \in Nat
    BY <1>2, WorldsAssumption DEF NetTypeOK
  <2>4. answer'.v4.mask = Mask(a.prefix) /\ answer'.v4.addr = a.addr
        /\ answer'.v4.dhcp = (a.origin = "dhcp") /\ Usable(a, "IPv4")
    BY <1>5, <2>1, <2>2 DEF Taken
  <2>5. \A b \in 0..(Width - 1) :
          (answer'.v4.mask \div PowersOf2[b]) % 2 = IF b >= Width - a.prefix THEN 1 ELSE 0
    BY <2>3, <2>4, MaskBits
  <2> QED
    BY <2>4, <2>5
<1> QED
  BY <1>7, <1>8

LEMMA AnswersHold ==
  ASSUME NetInv, [NetNext]_netVars
  PROVE  /\ RoutablePreferred => RoutablePreferred'
         /\ OwnParameters => OwnParameters'
<1>1. CASE Respond
  BY <1>1, RoutableAnswered
<1>2. CASE answer' = None
  BY <1>2 DEF RoutablePreferred, OwnParameters, HasV4
<1>3. CASE UNCHANGED netVars
  BY <1>3 DEF netVars, world, history, RoutablePreferred, OwnParameters, HasV4
<1> QED
  BY <1>1, <1>2, <1>3 DEF NetNext, Network, ChangeProperty, ChangeAddress, Query, ReadProperty,
     ReadFails, GetPaths, GetPathsFails, ReadAddress, AddressFails

(* What is cut twice is cut as by the shorter of the two.                    *)
LEMMA CutTwice ==
  ASSUME NEW s \in Name, NEW n \in Nat, NEW m \in 0..n
  PROVE  Truncated(Truncated(s, n), m) = Truncated(s, m)
<1> DEFINE k == IF Len(s) < n THEN Len(s) ELSE n
           j == IF k < m THEN k ELSE m
<1>1. Len(s) \in Nat /\ k \in 0..Len(s) /\ j \in 0..k /\ j = IF Len(s) < m THEN Len(s) ELSE m
  <2>1. Len(s) \in Nat
    BY DEF Name
  <2> QED
    BY <2>1
<1>2. Truncated(s, n) = SubSeq(s, 1, k) /\ Truncated(s, m) = SubSeq(s, 1, j)
  BY <1>1 DEF Truncated
<1> HIDE DEF k, j
<1>3. /\ SubSeq(s, 1, k) \in Seq(Characters) /\ Len(SubSeq(s, 1, k)) = k
      /\ \A i \in 1..k : SubSeq(s, 1, k)[i] = s[i]
  <2>1. \A i \in 1..k : s[i] \in Characters
    BY <1>1 DEF Name
  <2>2. 1 \in Int /\ k \in Int /\ k - 1 + 1 = k /\ (~(1 <= k) => k = 0)
    BY <1>1
  <2>3. /\ SubSeq(s, 1, k) \in Seq(Characters)
        /\ Len(SubSeq(s, 1, k)) = IF 1 <= k THEN k - 1 + 1 ELSE 0
        /\ \A i \in 1..(k - 1 + 1) : SubSeq(s, 1, k)[i] = s[1 + i - 1]
    BY <2>1, <2>2, SubSeqProperties
  <2> QED
    BY <1>1, <2>2, <2>3
<1>4. Truncated(SubSeq(s, 1, k), m) = SubSeq(SubSeq(s, 1, k), 1, j)
  BY <1>3 DEF Truncated, j
<1>5. SubSeq(SubSeq(s, 1, k), 1, j) = SubSeq(s, 1, j)
  BY <1>1, <1>3
<1> QED
  BY <1>2, <1>4, <1>5

(* Two answers of the configuration as it is are of the same one.            *)
LEMMA Agreement == NetInv => AnswersAgree
<1> SUFFICES ASSUME NetInv PROVE AnswersAgree
  OBVIOUS
<1>1. ASSUME NEW c \in Commands, NEW d \in Commands, told[c] # None, told[d] # None
      PROVE  \E cfg : /\ CfgType(cfg) /\ (cfg.haveV4 => cfg.v4addr # None)
                      /\ told[c] = Message(c, cfg) /\ told[d] = Message(d, cfg)
  <2>1. PICK a : /\ Whole(a) /\ CfgType(a) /\ (a.haveV4 => a.v4addr # None)
                 /\ told[c] = Message(c, a)
    BY <1>1 DEF NetInv, ToldNow
  <2>2. PICK b : Whole(b) /\ told[d] = Message(d, b)
    BY <1>1 DEF NetInv, ToldNow
  <2>3. a = b
    BY <2>1, <2>2, WholeUnique
  <2> QED
    BY <2>1, <2>2, <2>3
<1>2. /\ "IPv4Config" \in Commands /\ "NicConfig" \in Commands /\ "IPv6Config" \in Commands
  BY DEF Commands
<1>3. /\ \A cfg : Message("IPv4Config", cfg) = IPv4Config(cfg)
      /\ \A cfg : Message("NicConfig", cfg) = NicConfig(cfg)
      /\ \A cfg : Message("IPv6Config", cfg) = IPv6Config(cfg)
  BY DEF Message
<1>4. ASSUME NEW cfg, CfgType(cfg)
      PROVE  NicConfig(cfg).names = HostNames(IPv4Config(cfg).names, NicNameRoom, NicDomainRoom)
  <2>1. cfg.hostName \in Name /\ cfg.domainName \in Name
    BY <1>4 DEF CfgType, NameProperties
  <2>2. /\ Truncated(Truncated(cfg.hostName, HostNameRoom), NicNameRoom)
             = Truncated(cfg.hostName, NicNameRoom)
        /\ Truncated(Truncated(cfg.domainName, DomainNameRoom), NicDomainRoom)
             = Truncated(cfg.domainName, NicDomainRoom)
    BY <2>1, RoomsAssumption, CutTwice
  <2>3. /\ NicConfig(cfg).names = HostNames(cfg, NicNameRoom, NicDomainRoom)
        /\ IPv4Config(cfg).names = HostNames(cfg, HostNameRoom, DomainNameRoom)
    BY DEF NicConfig, IPv4Config
  <2> QED
    BY <2>2, <2>3 DEF HostNames
<1>5. ASSUME NEW cfg
      PROVE  /\ IPv4Config(cfg).v4 = V4Part(cfg) /\ NicConfig(cfg).v4 = V4Part(cfg)
             /\ IPv4Config(cfg).status \ {"dns"} = Status4(cfg)
             /\ NicConfig(cfg).status = Status4(cfg)
             /\ Status4(cfg) # {} <=> cfg.haveV4
             /\ "v6" \in IPv4Config(cfg).enabled <=> V6Enabled(cfg)
             /\ "v6" \in IPv6Config(cfg).enabled <=> V6Enabled(cfg)
             /\ "v4" \in IPv6Config(cfg).enabled <=> cfg.haveV4
  <2>1. /\ IPv4Config(cfg).v4 = V4Part(cfg) /\ NicConfig(cfg).v4 = V4Part(cfg)
        /\ NicConfig(cfg).status = Status4(cfg)
    BY DEF IPv4Config, NicConfig
  <2>2. IPv4Config(cfg).status \ {"dns"} = Status4(cfg) /\ (Status4(cfg) # {} <=> cfg.haveV4)
    BY DEF IPv4Config, Status4
  <2>3. /\ "v6" \in IPv4Config(cfg).enabled <=> V6Enabled(cfg)
        /\ "v6" \in IPv6Config(cfg).enabled <=> V6Enabled(cfg)
        /\ "v4" \in IPv6Config(cfg).enabled <=> cfg.haveV4
    BY DEF IPv4Config, IPv6Config
  <2> QED
    BY <2>1, <2>2, <2>3
<1>6. ASSUME told["IPv4Config"] # None, told["NicConfig"] # None
      PROVE  /\ told["IPv4Config"].v4 = told["NicConfig"].v4
             /\ told["IPv4Config"].status \ {"dns"} = told["NicConfig"].status
             /\ told["NicConfig"].names = HostNames(told["IPv4Config"].names, NicNameRoom, NicDomainRoom)
  <2>1. PICK cfg : /\ CfgType(cfg) /\ told["IPv4Config"] = Message("IPv4Config", cfg)
                   /\ told["NicConfig"] = Message("NicConfig", cfg)
    BY <1>1, <1>2, <1>6
  <2>2. told["IPv4Config"] = IPv4Config(cfg) /\ told["NicConfig"] = NicConfig(cfg)
    BY <1>3, <2>1
  <2> QED
    BY <1>4, <1>5, <2>1, <2>2
<1>7. ASSUME told["IPv4Config"] # None, told["IPv6Config"] # None
      PROVE  /\ "v6" \in told["IPv4Config"].enabled <=> "v6" \in told["IPv6Config"].enabled
             /\ told["IPv4Config"].v4.addr # None <=> "v4" \in told["IPv6Config"].enabled
  <2>1. PICK cfg : /\ CfgType(cfg) /\ (cfg.haveV4 => cfg.v4addr # None)
                   /\ told["IPv4Config"] = Message("IPv4Config", cfg)
                   /\ told["IPv6Config"] = Message("IPv6Config", cfg)
    BY <1>1, <1>2, <1>7
  <2>2. told["IPv4Config"] = IPv4Config(cfg) /\ told["IPv6Config"] = IPv6Config(cfg)
    BY <1>3, <2>1
  <2>3. /\ cfg.haveV4 => V4Part(cfg).addr = cfg.v4addr
        /\ ~cfg.haveV4 => V4Part(cfg).addr = None
    BY <1>2, V4Answered
  <2>4. (V4Part(cfg).addr # None) <=> cfg.haveV4
    BY <2>1, <2>3
  <2> QED
    BY <1>5, <2>2, <2>4
<1>8. ASSUME told["NicConfig"] # None, told["IPv6Config"] # None
      PROVE  told["NicConfig"].status # {} <=> "v4" \in told["IPv6Config"].enabled
  <2>1. PICK cfg : /\ told["NicConfig"] = Message("NicConfig", cfg)
                   /\ told["IPv6Config"] = Message("IPv6Config", cfg)
    BY <1>1, <1>2, <1>8
  <2>2. told["NicConfig"] = NicConfig(cfg) /\ told["IPv6Config"] = IPv6Config(cfg)
    BY <1>3, <2>1
  <2> QED
    BY <1>5, <2>2
<1> QED
  BY <1>6, <1>7, <1>8 DEF AnswersAgree

(* The inductive invariant of a query: what is left to read, what has been   *)
(* collected, and that it is what the configuration gives if nothing has     *)
(* changed since the query began.                                            *)
THEOREM NetInvariant == NetSpec => []NetInv
BY NetInitHolds, NetStepHolds, PTL DEF NetSpec

(* queryNetworkConfig() gives the host a routable IPv4 address if there is   *)
(* one all the time of the query, however addresses come and go around it.   *)
THEOREM RoutableIsGiven == NetSpec => []RoutablePreferred
<1>1. NetInit => RoutablePreferred
  BY DEF NetInit, RoutablePreferred
<1>2. NetInv /\ RoutablePreferred /\ [NetNext]_netVars => RoutablePreferred'
  BY AnswersHold
<1> QED
  BY <1>1, <1>2, NetInvariant, PTL DEF NetSpec

(* The address that the host is given has the mask and the origin of that    *)
(* address, never those of another one, and the mask that prefixToMask4()    *)
(* makes has the ones of its prefix and then zeros.                          *)
THEOREM ParametersAreOwn == NetSpec => []OwnParameters
<1>1. NetInit => OwnParameters
  BY DEF NetInit, OwnParameters, HasV4
<1>2. NetInv /\ OwnParameters /\ [NetNext]_netVars => OwnParameters'
  BY AnswersHold
<1> QED
  BY <1>1, <1>2, NetInvariant, PTL DEF NetSpec

(* The three commands of the host agree with each other if nothing changes   *)
(* between them, though each makes a query of its own.                       *)
THEOREM AgreedAnswers == NetSpec => []AnswersAgree
BY NetInvariant, Agreement, PTL

-----------------------------------------------------------------------------
(* The first of some positions. *)
LEMMA MinOf ==
  ASSUME NEW S \in SUBSET Nat, S # {}
  PROVE  Min(S) \in S /\ \A x \in S : Min(S) <= x
<1>1. PICK m \in S : \A y \in S : ~ (<<y, m>> \in OpToRel(<, Nat))
  BY NatLessThanWellFounded, WFMin
<1>2. \A y \in S : ~ (y < m)
  BY <1>1 DEF OpToRel
<1>3. \A y \in S : m <= y
  BY <1>2
<1> QED
  BY <1>3 DEF Min

(* The entry whose name an attribute has: the first that gives it one. *)
LEMMA OursIsFirst ==
  ASSUME NEW s \in Seq(EntryType), NEW i \in Named(s)
  PROVE  \E j \in DOMAIN s : /\ Names(s[j], i) /\ Ours(s)[i] = s[j].label
                             /\ \A k \in DOMAIN s : Names(s[k], i) => j <= k
<1> DEFINE I == {k \in 1..Len(s) : Names(s[k], i)}
           j == SelectInSeq(s, LAMBDA e : Names(e, i))
<1>1. I \in SUBSET Nat /\ I # {} /\ DOMAIN s = 1..Len(s)
  BY DEF Named
<1>2. j = Min(I)
  BY <1>1 DEF SelectInSeq
<1>3. Min(I) \in I /\ \A x \in I : Min(I) <= x
  <2> HIDE DEF I
  <2> QED
    BY <1>1, MinOf
<1>4. Ours(s)[i] = s[j].label
  BY DEF Ours
<1> HIDE DEF j
<1> QED
  BY <1>1, <1>2, <1>3, <1>4

LEMMA OursType ==
  ASSUME NEW s \in Seq(EntryType)
  PROVE  Ours(s) \in [Named(s) -> Labels] /\ Named(s) \subseteq Ids
<1>1. ASSUME NEW i \in Named(s) PROVE Ours(s)[i] \in Labels
  <2>1. PICK j \in DOMAIN s : Names(s[j], i) /\ Ours(s)[i] = s[j].label
    BY OursIsFirst
  <2>2. s[j] \in EntryType
    BY ElementOfSeq
  <2> QED
    BY <2>1, <2>2 DEF Names, EntryType
<1>2. Ours(s) = [i \in Named(s) |-> Ours(s)[i]]
  BY DEF Ours
<1> QED
  BY <1>1, <1>2 DEF Named

-----------------------------------------------------------------------------
(* The invariant. *)

(* A refreshed table has what publish() made of the store. *)
Fresh ==
  at = "idle" /\ synced =>
    /\ managed = Named(entries)
    /\ \A k \in managed : table[k] = Ours(entries)[k]

(* Of the boot options, the table and the copy of it that is being merged    *)
(* hold no other than those the daemon will erase.                           *)
AllManaged ==
  faults \cap {"set", "restart"} = {} =>
    \A k \in Ids : /\ table[k] # Missing => k \in managed
                   /\ at = "set" /\ read[k] # Missing => k \in managed

(* The copy still agrees with the table on the others' attributes. *)
CopyHolds == at = "set" /\ ~disturbed => \A k \in Foreign : read[k] = table[k]

BiosInv == TypeOK /\ Fresh /\ AllManaged /\ CopyHolds

-----------------------------------------------------------------------------
(* Types. *)

LEMMA TableType ==
  ASSUME NEW t \in Table
  PROVE  /\ t \in [Keys -> Labels \cup Values \cup {Missing}]
         /\ \A i \in Ids : t[i] \in Labels \cup {Missing}
         /\ \A k \in Foreign : t[k] \in Values \cup {Missing}
BY DEF Table, Keys

LEMMA EmptyType == EmptyTable \in Table
BY ConstantsAssumption DEF EmptyTable, Table, Keys

LEMMA PublishedType ==
  ASSUME TypeOK
  PROVE  /\ Published \in Table
         /\ \A k \in Keys : Published[k] = IF k \in Named(entries) THEN Ours(entries)[k]
                                          ELSE IF k \in managed THEN Missing ELSE read[k]
         /\ \A k \in Foreign : Published[k] = read[k]
<1>1. Ours(entries) \in [Named(entries) -> Labels] /\ Named(entries) \subseteq Ids
  BY OursType DEF TypeOK
<1>2. read \in Table /\ managed \subseteq Ids
  BY DEF TypeOK
<1>3. Published = [k \in Keys |-> IF k \in Named(entries) THEN Ours(entries)[k]
                                  ELSE IF k \in managed THEN Missing ELSE read[k]]
  BY <1>1 DEF Published, Merge
<1>4. \A k \in Foreign : k \in Keys /\ k \notin Ids
  BY ConstantsAssumption DEF Keys
<1>5. \A k \in Foreign : Published[k] = read[k]
  BY <1>1, <1>2, <1>3, <1>4
<1>6. \A k \in Keys : Published[k] \in Labels \cup Values \cup {Missing}
  BY <1>1, <1>2, <1>3, TableType
<1>7. \A i \in Ids : Published[i] \in Labels \cup {Missing}
  BY <1>1, <1>2, <1>3, TableType DEF Keys
<1>8. \A i \in Ids : Published[i] \notin Values \ Labels
  BY <1>7, ConstantsAssumption
<1> QED
  BY <1>2, <1>3, <1>5, <1>6, <1>8, TableType DEF Table

LEMMA StoreType ==
  ASSUME NEW s \in Seq(EntryType)
  PROVE  /\ \A o \in Options, l \in Labels \cup {NoName} : StorePut(s, o, l) \in Seq(EntryType)
         /\ \A i \in DOMAIN s : RemoveAt(s, i) \in Seq(EntryType)
<1>1. ASSUME NEW o \in Options, NEW l \in Labels \cup {NoName}
      PROVE  StorePut(s, o, l) \in Seq(EntryType)
  <2>1. [option |-> o, label |-> l] \in EntryType
    BY DEF EntryType
  <2>2. \A i \in DOMAIN s : s[i] \in EntryType
    BY ElementOfSeq
  <2>3. Append(s, [option |-> o, label |-> l]) \in Seq(EntryType)
    BY <2>1
  <2>4. [i \in DOMAIN s |-> IF s[i].option = o THEN [option |-> o, label |-> l] ELSE s[i]]
          \in Seq(EntryType)
    BY <2>1, <2>2
  <2> QED
    BY <2>3, <2>4 DEF StorePut
<1>2. ASSUME NEW i \in DOMAIN s PROVE RemoveAt(s, i) \in Seq(EntryType)
  <2>1. SubSeq(s, 1, i-1) \in Seq(EntryType) /\ SubSeq(s, i+1, Len(s)) \in Seq(EntryType)
    OBVIOUS
  <2> QED
    BY <2>1 DEF RemoveAt
<1> QED
  BY <1>1, <1>2

-----------------------------------------------------------------------------
(* Steps keep the invariant. *)

LEMMA StoreKeeps ==
  ASSUME BiosInv, NEW new \in Seq(EntryType), StoreChange(new)
  PROVE  BiosInv'
<1>1. TypeOK /\ AllManaged
  BY DEF BiosInv
<1>2. UNCHANGED <<table, managed, read, disturbed>> /\ entries' = new
  BY DEF StoreChange
<1>3. CASE file' = new /\ at' = "get" /\ UNCHANGED <<synced, faults>>
  BY <1>1, <1>2, <1>3 DEF BiosInv, TypeOK, Fresh, AllManaged, CopyHolds
<1>4. CASE /\ Fault("save") /\ file' \in {file} \cup {SubSeq(new, 1, k) : k \in 0..Len(new)}
           /\ synced' = FALSE /\ UNCHANGED at
  <2>1. file' \in Seq(EntryType)
    <3>1. \A k \in 0..Len(new) : SubSeq(new, 1, k) \in Seq(EntryType)
      OBVIOUS
    <3> QED
      BY <1>1, <1>4, <3>1 DEF TypeOK
  <2>2. faults' = faults \cup {"save"} /\ at = "idle"
    BY <1>4 DEF Fault, StoreChange
  <2>3. TypeOK'
    BY <1>1, <1>2, <1>4, <2>1, <2>2 DEF TypeOK
  <2>4. Fresh' /\ AllManaged' /\ CopyHolds'
    BY <1>1, <1>2, <1>4, <2>2 DEF Fresh, AllManaged, CopyHolds
  <2> QED
    BY <2>3, <2>4 DEF BiosInv
<1> QED
  BY <1>3, <1>4 DEF StoreChange

LEMMA GetKeeps ==
  ASSUME BiosInv, GetTable \/ GetFails
  PROVE  BiosInv'
<1>1. TypeOK /\ AllManaged
  BY DEF BiosInv
<1>2. CASE GetTable
  BY <1>1, <1>2 DEF GetTable, BiosInv, TypeOK, Fresh, AllManaged, CopyHolds
<1>3. CASE GetFails
  <2>1. TypeOK'
    BY <1>1, <1>3, EmptyType DEF GetFails, Fault, TypeOK
  <2>2. \A k \in Ids : EmptyTable[k] = Missing
    BY DEF EmptyTable, Keys
  <2>3. Fresh' /\ AllManaged' /\ CopyHolds'
    BY <1>1, <1>3, <2>2 DEF GetFails, Fault, Fresh, AllManaged, CopyHolds
  <2> QED
    BY <2>1, <2>3 DEF BiosInv
<1> QED
  BY <1>2, <1>3

LEMMA SetKeeps ==
  ASSUME BiosInv, SetTable \/ SetFails
  PROVE  BiosInv'
<1>1. TypeOK /\ AllManaged /\ at = "set"
  BY DEF BiosInv, SetTable, SetFails
<1>2. DOMAIN Ours(entries) = Named(entries) /\ Named(entries) \subseteq Ids
  BY <1>1, OursType DEF TypeOK
<1>3. CASE SetTable
  <2>1. TypeOK'
    BY <1>1, <1>2, <1>3, PublishedType, EmptyType DEF SetTable, TypeOK
  <2>2. Fresh'
    BY <1>1, <1>2, <1>3, PublishedType DEF SetTable, Fresh, Keys
  <2>3. AllManaged'
    <3> SUFFICES ASSUME faults \cap {"set", "restart"} = {}, NEW k \in Ids, Published[k] # Missing
                 PROVE  k \in Named(entries)
      BY <1>2, <1>3 DEF SetTable, AllManaged
    <3>1. read[k] # Missing => k \in managed
      BY <1>1 DEF AllManaged
    <3> QED
      BY <1>1, <3>1, PublishedType DEF Keys
  <2> QED
    BY <1>3, <2>1, <2>2, <2>3 DEF SetTable, BiosInv, CopyHolds
<1>4. CASE SetFails
  <2>1. table' \in Table
    BY <1>1, <1>4, PublishedType DEF SetFails, TypeOK
  <2>2. TypeOK'
    BY <1>1, <1>2, <1>4, <2>1, EmptyType DEF SetFails, Fault, TypeOK
  <2> QED
    BY <1>4, <2>2 DEF SetFails, Fault, BiosInv, Fresh, AllManaged, CopyHolds
<1> QED
  BY <1>3, <1>4

LEMMA OtherKeeps ==
  ASSUME BiosInv, NEW k \in Foreign, NEW v \in Values \cup {Missing}, OtherProvider(k, v)
  PROVE  BiosInv'
<1>1. TypeOK /\ Fresh /\ AllManaged
  BY DEF BiosInv
<1>2. table' = [table EXCEPT ![k] = v] /\ table \in Table /\ k \notin Ids /\ k \in Keys
  BY <1>1, ConstantsAssumption DEF OtherProvider, TypeOK, Keys
<1>3. table \in [Keys -> Labels \cup Values \cup {Missing}]
  BY <1>2, TableType
<1>4. table' \in [Keys -> Labels \cup Values \cup {Missing}] /\ table'[k] = v
      /\ \A i \in Keys \ {k} : table'[i] = table[i]
  BY <1>2, <1>3
<1>5. \A i \in Ids : table'[i] = table[i]
  BY <1>2, <1>4 DEF Keys
<1>6. table' \in Table
  BY <1>2, <1>4, <1>5, TableType DEF Table, Keys
<1>7. TypeOK'
  BY <1>1, <1>6 DEF OtherProvider, TypeOK
<1>8. Fresh' /\ AllManaged' /\ CopyHolds'
  BY <1>1, <1>5 DEF OtherProvider, TypeOK, Fresh, AllManaged, CopyHolds
<1> QED
  BY <1>7, <1>8 DEF BiosInv

LEMMA RestartKeeps ==
  ASSUME BiosInv, Restart
  PROVE  BiosInv'
<1>1. TypeOK'
  BY EmptyType DEF BiosInv, Restart, Fault, TypeOK
<1> QED
  BY <1>1 DEF BiosInv, Restart, Fault, Fresh, AllManaged, CopyHolds

LEMMA BiosInitHolds == Init => BiosInv
<1> SUFFICES ASSUME Init PROVE BiosInv
  OBVIOUS
<1>1. TypeOK
  <2>1. <<>> \in Seq(EntryType)
    OBVIOUS
  <2> QED
    BY <2>1, EmptyType DEF Init, TypeOK
<1>2. \A k \in Ids : EmptyTable[k] = Missing
  BY DEF EmptyTable, Keys
<1> QED
  BY <1>1, <1>2 DEF Init, BiosInv, Fresh, AllManaged, CopyHolds

LEMMA BiosStepHolds == BiosInv /\ [Next]_vars => BiosInv'
<1> SUFFICES ASSUME BiosInv, [Next]_vars PROVE BiosInv'
  OBVIOUS
<1>1. entries \in Seq(EntryType)
  BY DEF BiosInv, TypeOK
<1>2. ASSUME NEW o \in Options, NEW l \in Labels \cup {NoName}, HostSet(o, l) PROVE BiosInv'
  BY <1>1, <1>2, StoreType, StoreKeeps DEF HostSet
<1>3. ASSUME NEW o \in Options, HostDelete(o) PROVE BiosInv'
  BY <1>1, <1>3, StoreType, StoreKeeps DEF HostDelete
<1>4. CASE HostDeleteAll
  <2>1. <<>> \in Seq(EntryType)
    OBVIOUS
  <2> QED
    BY <1>4, <2>1, StoreKeeps DEF HostDeleteAll
<1>5. CASE UNCHANGED vars
  BY <1>5 DEF vars, BiosInv, TypeOK, Fresh, AllManaged, CopyHolds
<1> QED
  BY <1>2, <1>3, <1>4, <1>5, GetKeeps, SetKeeps, OtherKeeps, RestartKeeps DEF Next, Publish

-----------------------------------------------------------------------------
(* The results. *)

(* The inductive invariant of the daemon and the table. *)
THEOREM BiosInvariant == Spec => []BiosInv
<1> QED
  BY BiosInitHolds, BiosStepHolds, PTL DEF Spec

(* The store, the table and the daemon's copy of it keep their types.        *)
THEOREM BiosTypeCorrect == Spec => []TypeOK
<1>1. BiosInv => TypeOK
  BY DEF BiosInv
<1> QED
  BY <1>1, BiosInvariant, PTL

(* A refreshed table shows each boot option of the store under its present   *)
(* name, and the daemon manages no other.                                    *)
THEOREM TableIsCurrent == Spec => []OwnCurrent
<1>1. ASSUME BiosInv PROVE OwnCurrent
  <2> SUFFICES ASSUME at = "idle", synced PROVE
        /\ \A i \in DOMAIN entries :
             Speaks(i) => table[Id[entries[i].option]] = entries[i].label
        /\ \A k \in managed : \E i \in DOMAIN entries :
             Id[entries[i].option] = k /\ table[k] = entries[i].label
    BY DEF OwnCurrent
  <2>1. entries \in Seq(EntryType) /\ DOMAIN entries = 1..Len(entries) /\ Len(entries) \in Nat
    BY <1>1 DEF BiosInv, TypeOK
  <2>2. managed = Named(entries) /\ \A k \in managed : table[k] = Ours(entries)[k]
    BY <1>1 DEF BiosInv, Fresh
  <2>3. ASSUME NEW i \in DOMAIN entries, Speaks(i)
        PROVE  table[Id[entries[i].option]] = entries[i].label
    <3> DEFINE k == Id[entries[i].option]
    <3>0. entries[i] \in EntryType
      BY <2>1, <2>3, ElementOfSeq
    <3>1. entries[i].option \in DOMAIN Id
      BY <3>0, ConstantsAssumption DEF EntryType
    <3>2. Names(entries[i], k) /\ k \in Ids
      BY <2>3, <3>1 DEF Speaks, Names, Ids, Range
    <3>3. k \in Named(entries)
      BY <3>2 DEF Named
    <3>4. PICK j \in DOMAIN entries : /\ Names(entries[j], k) /\ Ours(entries)[k] = entries[j].label
                                      /\ \A l \in DOMAIN entries : Names(entries[l], k) => j <= l
      BY <2>1, <3>3, OursIsFirst
    <3>5. j <= i /\ ~(j \in 1..i-1)
      BY <2>3, <3>2, <3>4 DEF Speaks, Names
    <3>6. j = i
      BY <2>1, <3>5
    <3> QED
      BY <2>2, <3>3, <3>4, <3>6
  <2>4. ASSUME NEW k \in managed
        PROVE  \E i \in DOMAIN entries : Id[entries[i].option] = k /\ table[k] = entries[i].label
    BY <2>1, <2>2, OursIsFirst DEF Names
  <2> QED
    BY <2>3, <2>4
<1> QED
  BY <1>1, BiosInvariant, PTL

(* A boot option that is gone stays in the table only after a failed Set or  *)
(* a restart of the daemon.                                                  *)
THEOREM NothingStale == Spec => []StaleOnlyAfterFailure
<1>1. BiosInv => StaleOnlyAfterFailure
  BY DEF BiosInv, AllManaged, StaleOnlyAfterFailure, Forgotten
<1> QED
  BY <1>1, BiosInvariant, PTL

(* A refresh that was not raced keeps the attributes of other providers.     *)
THEOREM OthersKept == Spec => OthersKeptUnlessRaced
<1>1. BiosInv /\ [Next]_vars =>
        [ at = "set" /\ at' # "set" /\ ~disturbed
            => \A k \in Foreign : table'[k] = table[k] ]_vars
  <2> SUFFICES ASSUME BiosInv, [Next]_vars, at = "set", at' # "set", ~disturbed, NEW k \in Foreign
               PROVE  table'[k] = table[k]
    OBVIOUS
  <2>1. TypeOK /\ CopyHolds
    BY DEF BiosInv
  <2>2. table' = Published \/ table' = table
    BY DEF Next, Publish, HostSet, HostDelete, HostDeleteAll, StoreChange, GetTable, GetFails,
           SetTable, SetFails, OtherProvider, Restart, vars
  <2> QED
    BY <2>1, <2>2, PublishedType DEF CopyHolds
<1> QED
  BY <1>1, BiosInvariant, PTL DEF Spec, OthersKeptUnlessRaced
=============================================================================

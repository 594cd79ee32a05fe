--------------------------- MODULE ProofLemmas ---------------------------
(***************************************************************************)
(* Facts about numbers and sequences that several proofs cite.             *)
(*                                                                         *)
(* Induction over the natural numbers is stated with sets instead of       *)
(* operators, so that the lemmas about recursively defined functions can   *)
(* cite it: that n |-> 0 .. n-1 maps the numbers into the finite sets,     *)
(* which are well-founded by inclusion, gives the least element of a set.  *)
(***************************************************************************)
EXTENDS Integers, Sequences, FiniteSetTheorems, TLAPS

\* Every set of natural numbers that is not empty has a least element.
LEMMA LeastElement ==
  ASSUME NEW T, T \subseteq Nat, T # {}
  PROVE  \E x \in T : \A y \in T : x <= y
<1> DEFINE Below(n) == 0 .. n - 1
           Belows == {Below(n) : n \in T}
<1>1. \A n \in Nat : Below(n) \in FiniteSubsetsOf(Nat)
  BY FS_Interval DEF FiniteSubsetsOf
<1>2. Belows \subseteq FiniteSubsetsOf(Nat) /\ Belows # {}
  BY <1>1
<1>3. IsWellFoundedOn(StrictSubsetOrdering(Nat), FiniteSubsetsOf(Nat))
  BY FS_StrictSubsetOrderingWellFounded
<1>4. PICK b \in Belows :
        \A c \in Belows : ~(<<c, b>> \in StrictSubsetOrdering(Nat))
  <2> HIDE DEF Belows
  <2> QED
    BY <1>2, <1>3, WFMin
<1>5. PICK x \in T : b = Below(x)
  OBVIOUS
<1>6. ASSUME NEW y \in T, y < x PROVE FALSE
  <2>1. Below(y) \in Belows /\ x \in Nat /\ y \in Nat
    OBVIOUS
  <2>2. /\ Below(x) \in SUBSET Nat /\ Below(y) \in SUBSET Nat
        /\ Below(y) \subseteq Below(x)
        /\ y \in Below(x) /\ y \notin Below(y)
    BY <1>6, <2>1
  <2>3. <<Below(y), Below(x)>> \in StrictSubsetOrdering(Nat)
    <3> HIDE DEF Below
    <3> QED
      BY <2>2 DEF StrictSubsetOrdering
  <2> QED
    BY <1>4, <1>5, <2>1, <2>3
<1> QED
  BY <1>6

\* A set that holds 0 and with every number its successor holds them all.
LEMMA SetInduction ==
  ASSUME NEW S, 0 \in S, \A n \in Nat : n \in S => n + 1 \in S
  PROVE  \A n \in Nat : n \in S
<1>1. SUFFICES ASSUME Nat \ S # {} PROVE FALSE
  OBVIOUS
<1>2. PICK x \in Nat \ S : \A y \in Nat \ S : x <= y
  BY <1>1, LeastElement
<1>3. x # 0 /\ x - 1 \in Nat /\ x - 1 \notin Nat \ S
  BY <1>2
<1> QED
  BY <1>2, <1>3

------------------------------------------------------------------------------
(* Quotients.                                                              *)

\* The unit behind w whole frames and r units is unit r of frame w, counted
\* from zero.
LEMMA DivisionOfUnits ==
  ASSUME NEW F \in Nat \ {0}, NEW w \in Nat, NEW r \in 0 .. F - 1
  PROVE  (F * w + r) \div F = w /\ (F * w + r) % F = r
<1>1. F * w + r \in Nat
  OBVIOUS
<1>2. PICK q \in Int : q = (F * w + r) \div F
  BY <1>1
<1>3. PICK m \in Int : m = (F * w + r) % F
  BY <1>1
<1>4. F * w + r = F * q + m /\ m \in 0 .. F - 1
  BY <1>1, <1>2, <1>3
<1>5. q = w
  <2>1. CASE q > w
    <3>1. F * q >= F * (w + 1)
      BY <2>1
    <3> QED BY <3>1, <1>4
  <2>2. CASE q < w
    <3>1. F * w >= F * (q + 1)
      BY <2>2
    <3> QED BY <3>1, <1>4
  <2> QED BY <2>1, <2>2
<1> QED BY <1>2, <1>3, <1>4, <1>5

LEMMA QuotientNat ==
  ASSUME NEW F \in Nat \ {0}, NEW m \in Nat
  PROVE  m \div F \in Nat
<1>1. PICK q \in Int : q = m \div F
  OBVIOUS
<1>2. PICK z \in 0 .. F - 1 : m = F * q + z
  BY <1>1
<1>3. CASE q < 0
  <2>1. F * q <= F * (-1)
    BY <1>3
  <2> QED BY <2>1, <1>2
<1> QED BY <1>1, <1>3

------------------------------------------------------------------------------
(* Sequences.                                                              *)

LEMMA SecondPart ==
  ASSUME NEW S, NEW s \in Seq(S), NEW t \in Seq(S), NEW k \in 1 .. Len(t)
  PROVE  (s \o t)[Len(s) + k] = t[k]
OBVIOUS

LEMMA EmptySequence == ASSUME NEW S PROVE <<>> \in Seq(S)
OBVIOUS

LEMMA ShortSequences ==
  ASSUME NEW S, NEW x \in S, NEW y \in S
  PROVE  <<>> \in Seq(S) /\ <<x>> \in Seq(S) /\ <<x, y>> \in Seq(S)
OBVIOUS

LEMMA Concatenated ==
  ASSUME NEW S, NEW s \in Seq(S), NEW t \in Seq(S)
  PROVE  s \o t \in Seq(S) /\ Len(s \o t) = Len(s) + Len(t)
OBVIOUS

LEMMA Elements ==
  ASSUME NEW S, NEW s \in Seq(S)
  PROVE  Len(s) \in Nat /\ DOMAIN s = 1 .. Len(s) /\ \A i \in 1 .. Len(s) : s[i] \in S
OBVIOUS

LEMMA Joined ==
  ASSUME NEW S, NEW s \in Seq(S), NEW t \in Seq(S)
  PROVE  /\ s \o t \in Seq(S) /\ Len(s \o t) = Len(s) + Len(t)
         /\ \A k \in 1 .. Len(s) : (s \o t)[k] = s[k]
         /\ \A k \in 1 .. Len(t) : (s \o t)[Len(s) + k] = t[k]
         /\ Len(s) \in Nat /\ Len(t) \in Nat
BY SecondPart

\* A sequence given element by element.
LEMMA Listed ==
  ASSUME NEW S, NEW n \in Nat, NEW s \in [1 .. n -> S]
  PROVE  s \in Seq(S) /\ Len(s) = n
<1>1. s \in Seq(S)
  OBVIOUS
<1> QED
  BY <1>1

\* What is left of a sequence without its first n elements, and these.
LEMMA Parted ==
  ASSUME NEW S, NEW s \in Seq(S), NEW n \in 0 .. Len(s)
  PROVE  /\ SubSeq(s, n + 1, Len(s)) \in Seq(S) /\ Len(SubSeq(s, n + 1, Len(s))) = Len(s) - n
         /\ \A k \in 1 .. Len(s) - n : SubSeq(s, n + 1, Len(s))[k] = s[n + k]
         /\ SubSeq(s, 1, n) \in Seq(S) /\ Len(SubSeq(s, 1, n)) = n
         /\ \A k \in 1 .. n : SubSeq(s, 1, n)[k] = s[k]
<1>1. /\ SubSeq(s, n + 1, Len(s)) \in Seq(S) /\ Len(SubSeq(s, n + 1, Len(s))) = Len(s) - n
      /\ SubSeq(s, 1, n) \in Seq(S) /\ Len(SubSeq(s, 1, n)) = n
  OBVIOUS
<1>2. \A k \in 1 .. n : SubSeq(s, 1, n)[k] = s[k]
  OBVIOUS
<1>3. ASSUME NEW k \in 1 .. Len(s) - n PROVE SubSeq(s, n + 1, Len(s))[k] = s[n + k]
  OBVIOUS
<1> QED
  BY <1>1, <1>2, <1>3

------------------------------------------------------------------------------
(* Sequences without repetition.                                           *)

\* As many different elements as a set has are all of them.
LEMMA AllElements ==
  ASSUME NEW n \in Nat, NEW T, IsFiniteSet(T), Cardinality(T) = n, NEW f \in [1 .. n -> T],
         \A i, j \in 1 .. n : f[i] = f[j] => i = j
  PROVE  \A t \in T : \E i \in 1 .. n : f[i] = t
<1>1. f \in Injection(1 .. n, T)
  BY DEF Injection, IsInjective
<1>2. Cardinality(1 .. n) = n
  BY FS_Interval
<1>3. f \in Surjection(1 .. n, T)
  BY <1>1, <1>2, FS_Injection
<1> QED
  BY <1>3 DEF Surjection

\* Each element of a set once is as many as the set has.
LEMMA EachOnce ==
  ASSUME NEW n \in Nat, NEW T, IsFiniteSet(T), NEW f \in [1 .. n -> T],
         \A i, j \in 1 .. n : f[i] = f[j] => i = j,
         \A t \in T : \E i \in 1 .. n : f[i] = t
  PROVE  Cardinality(T) = n
<1>1. f \in Injection(1 .. n, T) /\ f \in Surjection(1 .. n, T)
  BY DEF Injection, IsInjective, Surjection
<1>2. Cardinality(1 .. n) = n
  BY FS_Interval
<1> QED
  BY <1>1, <1>2, FS_Injection
==============================================================================

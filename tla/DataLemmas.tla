----------------------------- MODULE DataLemmas -----------------------------
(***************************************************************************)
(* Facts about numbers and sequences that the proofs about more than one   *)
(* module need.                                                            *)
(***************************************************************************)
EXTENDS Integers, SequenceTheorems, WellFoundedInduction, TLAPS

-----------------------------------------------------------------------------
(* Induction. *)

\* Every set of natural numbers that is not empty has a least member.
LEMMA LeastNumber ==
    ASSUME NEW T, T \subseteq Nat, T # {}
    PROVE  \E x \in T : \A y \in T : x <= y
<1> DEFINE R == OpToRel(<, Nat)
<1>1. IsWellFoundedOn(R, Nat)
  BY NatLessThanWellFounded, Zenon
<1>2. \A x, y \in Nat : <<x, y>> \in R <=> x < y
  BY DEF OpToRel
<1> HIDE DEF R
<1>3. PICK x \in T : \A y \in T : ~ (<<y, x>> \in R)
  BY <1>1, WFMin, Zenon
<1>4. \A y \in T : ~ (y < x) /\ y \in Nat /\ x \in Nat
  BY <1>2, <1>3, Zenon
<1>5. \A y \in T : x <= y
  BY <1>4
<1> QED
  BY <1>3, <1>5, Zenon

\* A set that holds 0 and with every number the next one holds all of Nat.
LEMMA Induction ==
    ASSUME NEW S, 0 \in S, \A n \in Nat : n \in S => n + 1 \in S
    PROVE  \A n \in Nat : n \in S
<1> SUFFICES ASSUME Nat \ S # {} PROVE FALSE
  BY Zenon
<1>1. PICK x \in Nat \ S : \A y \in Nat \ S : x <= y
  BY LeastNumber, Zenon
<1>2. x # 0 /\ x - 1 \in Nat /\ x - 1 + 1 = x /\ ~(x <= x - 1)
  BY <1>1
<1>3. x - 1 \in S
  BY <1>1, <1>2, Zenon
<1> QED
  BY <1>1, <1>2, <1>3, Zenon

-----------------------------------------------------------------------------
(* Parts of sequences. *)

\* A part of a sequence is a sequence over the same elements, of the length its
\* bounds say.
LEMMA Cut ==
    ASSUME NEW X, NEW s \in Seq(X), NEW m \in Int, NEW n \in Int,
           1 <= m, m <= n + 1, n <= Len(s)
    PROVE  SubSeq(s, m, n) \in Seq(X) /\ Len(SubSeq(s, m, n)) = n - m + 1
<1>1. \A i \in m .. n : s[i] \in X
  <2> TAKE i \in m .. n
  <2>1. i \in 1 .. Len(s)
    BY LenProperties
  <2> QED
    BY <2>1, ElementOfSeq
<1>2. /\ SubSeq(s, m, n) \in Seq(X)
      /\ Len(SubSeq(s, m, n)) = IF m <= n THEN n - m + 1 ELSE 0
  BY <1>1, SubSeqProperties
<1> QED
  BY <1>2

\* Two elements of a set make a sequence over it.
LEMMA Pair == ASSUME NEW X, NEW a \in X, NEW b \in X PROVE <<a, b>> \in Seq(X)
OBVIOUS

\* Two sequences one behind the other.
LEMMA Joined ==
    ASSUME NEW X, NEW a \in Seq(X), NEW b \in Seq(X)
    PROVE  /\ a \o b \in Seq(X)
           /\ Len(a \o b) = Len(a) + Len(b)
           /\ Len(a) \in Nat /\ Len(b) \in Nat
           /\ \A i \in 1 .. Len(a) : (a \o b)[i] = a[i]
           /\ \A i \in 1 .. Len(b) : (a \o b)[Len(a) + i] = b[i]
<1>1. Len(a) \in Nat /\ Len(b) \in Nat
  BY LenProperties
<1>2. /\ a \o b \in Seq(X) /\ Len(a \o b) = Len(a) + Len(b)
      /\ \A i \in 1 .. Len(a) + Len(b) :
            (a \o b)[i] = IF i <= Len(a) THEN a[i] ELSE b[i - Len(a)]
  BY ConcatProperties
<1>3. ASSUME NEW i \in 1 .. Len(b) PROVE (a \o b)[Len(a) + i] = b[i]
  <2> DEFINE j == Len(a) + i
  <2>1. j \in 1 .. Len(a) + Len(b) /\ ~(j <= Len(a)) /\ j - Len(a) = i
    BY <1>1
  <2> HIDE DEF j
  <2>2. (a \o b)[j] = b[i]
    BY <1>2, <2>1
  <2> QED
    BY <2>2 DEF j
<1>4. ASSUME NEW i \in 1 .. Len(a) PROVE (a \o b)[i] = a[i]
  <2>1. i \in 1 .. Len(a) + Len(b) /\ i <= Len(a)
    BY <1>1
  <2> QED
    BY <1>2, <2>1
<1> QED
  BY <1>1, <1>2, <1>3, <1>4

\* The elements of the second one.
LEMMA JoinedBehind ==
    ASSUME NEW X, NEW a \in Seq(X), NEW b \in Seq(X), NEW i \in 1 .. Len(b)
    PROVE  (a \o b)[Len(a) + i] = b[i]
BY Joined

\* What is left of s behind its first k elements, when they are known.
LEMMA Behind ==
    ASSUME NEW X, NEW s \in Seq(X), NEW k \in Nat, NEW t \in Seq(X),
           Len(s) = k + Len(t),
           \A i \in 1 .. Len(t) : s[k + i] = t[i]
    PROVE  SubSeq(s, k + 1, Len(s)) = t
<1> DEFINE r == SubSeq(s, k + 1, Len(s))
<1>1. Len(t) \in Nat /\ Len(s) \in Nat
  BY LenProperties
<1>2. \A i \in (k + 1) .. Len(s) : s[i] \in X
  <2> TAKE i \in (k + 1) .. Len(s)
  <2>1. i \in 1 .. Len(s)
    BY <1>1
  <2> QED
    BY <2>1, ElementOfSeq
<1>3. /\ r \in Seq(X)
      /\ Len(r) = IF k + 1 <= Len(s) THEN Len(s) - (k + 1) + 1 ELSE 0
      /\ \A i \in 1 .. Len(s) - (k + 1) + 1 : r[i] = s[(k + 1) + i - 1]
  BY <1>1, <1>2, SubSeqProperties
<1> HIDE DEF r
<1>4. Len(r) = Len(t)
  BY <1>1, <1>3
<1>5. ASSUME NEW i \in 1 .. Len(t) PROVE r[i] = t[i]
  <2>1. i \in 1 .. Len(s) - (k + 1) + 1 /\ (k + 1) + i - 1 = k + i
    BY <1>1
  <2>2. r[i] = s[(k + 1) + i - 1]
    BY <1>3, <2>1, Zenon
  <2>3. s[k + i] = t[i]
    BY Zenon
  <2> QED
    BY <2>1, <2>2, <2>3
<1>6. r = t
  BY <1>3, <1>4, <1>5, SeqEqual
<1> QED
  BY <1>6 DEF r

\* part is n integers of f behind position s.
IsSlice(part, f, s, n) ==
    /\ part \in Seq(Int)
    /\ Len(part) = n
    /\ \A i \in 1 .. n : part[i] = f[s + i]

\* SubSeq takes them.
LEMMA Slice ==
    ASSUME NEW f, NEW s \in Nat, NEW n \in Nat, \A i \in 1 .. n : f[s + i] \in Int
    PROVE  IsSlice(SubSeq(f, s + 1, s + n), f, s, n)
<1>1. ASSUME NEW q \in s + 1 .. s + n PROVE f[q] \in Int
  <2>1. q - s \in 1 .. n /\ s + (q - s) = q
    OBVIOUS
  <2> QED
    BY <2>1
<1> DEFINE lo == s + 1
           hi == s + n
<1>2. lo \in Int /\ hi \in Int /\ hi - lo + 1 = n /\ (IF lo <= hi THEN hi - lo + 1 ELSE 0) = n
  OBVIOUS
<1>3. \A q \in lo .. hi : f[q] \in Int
  BY <1>1
<1>4. \A i \in 1 .. n : lo + i - 1 = s + i
  OBVIOUS
<1> HIDE DEF lo, hi
<1>5. /\ SubSeq(f, lo, hi) \in Seq(Int)
      /\ Len(SubSeq(f, lo, hi)) = IF lo <= hi THEN hi - lo + 1 ELSE 0
      /\ \A i \in 1 .. hi - lo + 1 : SubSeq(f, lo, hi)[i] = f[lo + i - 1]
  BY <1>2, <1>3, SubSeqProperties
<1>6. \A i \in 1 .. n : SubSeq(f, lo, hi)[i] = f[s + i]
  BY <1>2, <1>4, <1>5
<1> QED
  BY <1>2, <1>5, <1>6, Zenon DEF lo, hi, IsSlice
=============================================================================

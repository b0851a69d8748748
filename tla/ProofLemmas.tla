------------------------------ MODULE ProofLemmas ------------------------------
(***************************************************************************)
(* What the proofs of several modules need of numbers modulo M and of      *)
(* sequences.                                                              *)
(***************************************************************************)
EXTENDS Integers, Sequences, SequenceTheorems, FiniteSetTheorems, WellFoundedInduction,
        NaturalsInduction, TLAPS

------------------------------------------------------------------------------
(***************************************************************************)
(* Arithmetic: positions less than M apart are told apart modulo M.        *)
(***************************************************************************)
LEMMA DivMod ==
  ASSUME NEW a \in Int, NEW M \in Nat \ {0}
  PROVE  /\ a % M \in 0..(M - 1)
         /\ a \div M \in Int
         /\ a = M * (a \div M) + (a % M)
OBVIOUS

LEMMA AtLeastOneMore ==
  ASSUME NEW M \in Nat \ {0}, NEW i \in Int, NEW j \in Int, i < j
  PROVE  M * j >= M * i + M
<1>1. PICK d \in Nat : j = i + 1 + d
  <2>1. j - i - 1 \in Nat /\ j = i + 1 + (j - i - 1)
    OBVIOUS
  <2> QED
    BY <2>1
<1>2. M * j = M * i + M + M * d
  BY <1>1
<1>3. M * d >= 0
  OBVIOUS
<1> QED
  BY <1>2, <1>3

LEMMA SameResidue ==
  ASSUME NEW M \in Nat \ {0}, NEW a \in Int, NEW b \in Int,
         a % M = b % M, a <= b, b < a + M
  PROVE  a = b
<1> DEFINE i == a \div M
           j == b \div M
<1>1. /\ i \in Int /\ j \in Int
      /\ a = M * i + (a % M) /\ b = M * j + (b % M)
      /\ a % M \in 0..(M - 1) /\ b % M \in 0..(M - 1)
  BY DivMod
<1> HIDE DEF i, j
<1>2. ~(i < j)
  BY <1>1, AtLeastOneMore
<1>3. ~(j < i)
  BY <1>1, AtLeastOneMore
<1>4. i = j
  BY <1>1, <1>2, <1>3
<1> QED
  BY <1>1, <1>4

LEMMA Successor ==
  ASSUME NEW M \in Nat \ {0}, NEW a \in Int
  PROVE  ((a % M) + 1) % M = (a + 1) % M
<1> DEFINE r == a % M
           i == a \div M
           s == (a + 1) % M
           j == (a + 1) \div M
           u == (r + 1) % M
           k == (r + 1) \div M
<1>1. /\ r \in 0..(M - 1) /\ i \in Int /\ a = M * i + r
  BY DivMod
<1>2. /\ s \in 0..(M - 1) /\ j \in Int /\ a + 1 = M * j + s
  BY DivMod, a + 1 \in Int
<1>3. /\ u \in 0..(M - 1) /\ k \in Int /\ r + 1 = M * k + u
  BY <1>1, DivMod, r + 1 \in Int
<1> HIDE DEF r, i, s, j, u, k
<1>4. M * j + s = M * (i + k) + u
  BY <1>1, <1>2, <1>3
<1>5. i + k \in Int
  BY <1>1, <1>3
<1>6. ~(j < i + k)
  BY <1>2, <1>3, <1>4, <1>5, AtLeastOneMore
<1>7. ~(i + k < j)
  BY <1>2, <1>3, <1>4, <1>5, AtLeastOneMore
<1>8. j = i + k
  BY <1>2, <1>5, <1>6, <1>7
<1>9. u = s
  BY <1>2, <1>3, <1>4, <1>8
<1> QED
  BY <1>9 DEF u, s, r

------------------------------------------------------------------------------
(***************************************************************************)
(* Sequences                                                               *)
(***************************************************************************)
LEMMA HeadTail ==
  ASSUME NEW S, NEW s \in Seq(S), s # <<>>
  PROVE  /\ Head(s) \in S /\ Head(s) = s[1]
         /\ Tail(s) \in Seq(S)
         /\ Len(s) \in Nat \ {0}
         /\ Len(Tail(s)) = Len(s) - 1
         /\ \A i \in 1..Len(Tail(s)) : Tail(s)[i] = s[i + 1]
         /\ 1 \in 1..Len(s)
         /\ \A i \in 1..Len(Tail(s)) : i + 1 \in 1..Len(s)
BY HeadTailProperties, EmptySeq

LEMMA Appended ==
  ASSUME NEW S, NEW s \in Seq(S), NEW e \in S
  PROVE  /\ Append(s, e) \in Seq(S)
         /\ Append(s, e) # <<>>
         /\ Len(s) \in Nat
         /\ Len(Append(s, e)) = Len(s) + 1
         /\ Append(s, e)[Len(s) + 1] = e
         /\ \A i \in 1..Len(s) : Append(s, e)[i] = s[i]
BY AppendProperties, LenProperties, EmptySeq

LEMMA Single ==
  ASSUME NEW S, NEW e \in S
  PROVE  /\ <<e>> \in Seq(S) /\ <<e>> # <<>>
         /\ Len(<<e>>) = 1 /\ <<e>>[1] = e
BY EmptySeq

LEMMA LastOf ==
  ASSUME NEW S, NEW s \in Seq(S), s # <<>>
  PROVE  Len(s) \in Nat \ {0} /\ s[Len(s)] \in S /\ s[1] \in S
<1>1. Len(s) \in Nat \ {0}
  BY HeadTail
<1> QED
  BY <1>1, ElementOfSeq

\* What a sequence holds, when one element is added or taken.
LEMMA AppendMembers ==
  ASSUME NEW S, NEW s \in Seq(S), NEW e \in S
  PROVE  {Append(s, e)[i] : i \in 1..Len(Append(s, e))}
             = {s[i] : i \in 1..Len(s)} \cup {e}
<1>1. /\ Len(s) \in Nat /\ Len(Append(s, e)) = Len(s) + 1
      /\ Append(s, e)[Len(s) + 1] = e
      /\ \A i \in 1..Len(s) : Append(s, e)[i] = s[i]
  BY Appended
<1>2. 1..(Len(s) + 1) = (1..Len(s)) \cup {Len(s) + 1}
  BY <1>1
<1> QED
  BY <1>1, <1>2

LEMMA HeadTailMembers ==
  ASSUME NEW S, NEW s \in Seq(S), s # <<>>
  PROVE  {s[i] : i \in 1..Len(s)}
             = {Head(s)} \cup {Tail(s)[i] : i \in 1..Len(Tail(s))}
<1>1. /\ Len(s) \in Nat \ {0} /\ Len(Tail(s)) = Len(s) - 1 /\ Head(s) = s[1]
      /\ \A i \in 1..(Len(s) - 1) : Tail(s)[i] = s[i + 1]
  BY HeadTail
<1>2. ASSUME NEW i \in 1..Len(s), i # 1
      PROVE  i - 1 \in 1..(Len(s) - 1) /\ Tail(s)[i - 1] = s[i]
  <2>1. i - 1 \in 1..(Len(s) - 1) /\ (i - 1) + 1 = i
    BY <1>1, <1>2
  <2> QED
    BY <1>1, <2>1
<1>3. \A i \in 1..(Len(s) - 1) : i + 1 \in 1..Len(s)
  BY <1>1
<1>4. 1 \in 1..Len(s)
  BY <1>1
<1> DEFINE all == {s[i] : i \in 1..Len(s)}
           rest == {Tail(s)[i] : i \in 1..Len(Tail(s))}
<1>5. ASSUME NEW x \in all PROVE x \in {Head(s)} \cup rest
  <2>1. PICK i \in 1..Len(s) : x = s[i]
    OBVIOUS
  <2> QED
    BY <1>1, <1>2, <2>1
<1>6. ASSUME NEW x \in rest PROVE x \in all
  <2>1. PICK i \in 1..(Len(s) - 1) : x = Tail(s)[i]
    BY <1>1
  <2> QED
    BY <1>1, <1>3, <2>1
<1>7. Head(s) \in all
  BY <1>1, <1>4
<1> QED
  BY <1>5, <1>6, <1>7

\* An element that moves from the front of one sequence to the back of the sequence
\* before it does not change the two together.
LEMMA Shift ==
  ASSUME NEW S, NEW s \in Seq(S), NEW t \in Seq(S), t # <<>>
  PROVE  /\ Append(s, Head(t)) \in Seq(S) /\ Tail(t) \in Seq(S)
         /\ Append(s, Head(t)) \o Tail(t) = s \o t
<1>1. /\ Head(t) \in S /\ Head(t) = t[1] /\ Tail(t) \in Seq(S)
      /\ Len(t) \in Nat \ {0} /\ Len(Tail(t)) = Len(t) - 1
      /\ \A i \in 1..(Len(t) - 1) : Tail(t)[i] = t[i + 1]
  BY HeadTail
<1>2. /\ Append(s, Head(t)) \in Seq(S) /\ Len(s) \in Nat
      /\ Len(Append(s, Head(t))) = Len(s) + 1
      /\ Append(s, Head(t))[Len(s) + 1] = t[1]
      /\ \A i \in 1..Len(s) : Append(s, Head(t))[i] = s[i]
  BY <1>1, Appended
<1> DEFINE l == Append(s, Head(t)) \o Tail(t)
           r == s \o t
<1>3. /\ l \in Seq(S) /\ Len(l) = Len(s) + Len(t)
      /\ \A i \in 1..(Len(s) + Len(t)) :
             l[i] = IF i <= Len(s) + 1 THEN Append(s, Head(t))[i]
                                       ELSE Tail(t)[i - (Len(s) + 1)]
  <2>1. Len(s) + 1 + (Len(t) - 1) = Len(s) + Len(t)
    BY <1>1, <1>2
  <2> QED
    BY <1>1, <1>2, <2>1, ConcatProperties
<1>4. /\ r \in Seq(S) /\ Len(r) = Len(s) + Len(t)
      /\ \A i \in 1..(Len(s) + Len(t)) :
             r[i] = IF i <= Len(s) THEN s[i] ELSE t[i - Len(s)]
  BY ConcatProperties
<1> HIDE DEF l, r
<1>5. ASSUME NEW i \in 1..(Len(s) + Len(t)) PROVE l[i] = r[i]
  <2>1. CASE i <= Len(s)
    <3>1. i \in 1..Len(s) /\ i <= Len(s) + 1
      BY <1>2, <2>1
    <3> QED
      BY <1>2, <1>3, <1>4, <2>1, <3>1
  <2>2. CASE i = Len(s) + 1
    <3>1. i <= Len(s) + 1 /\ ~(i <= Len(s)) /\ i - Len(s) = 1
      BY <1>2, <2>2
    <3> QED
      BY <1>2, <1>3, <1>4, <2>2, <3>1
  <2>3. CASE i > Len(s) + 1
    <3>1. /\ ~(i <= Len(s) + 1) /\ ~(i <= Len(s))
          /\ i - (Len(s) + 1) \in 1..(Len(t) - 1)
          /\ (i - (Len(s) + 1)) + 1 = i - Len(s)
      BY <1>1, <1>2, <2>3
    <3> QED
      BY <1>1, <1>3, <1>4, <3>1
  <2> QED
    BY <1>2, <2>1, <2>2, <2>3
<1>6. l = r
  BY <1>3, <1>4, <1>5, SeqEqual
<1> QED
  BY <1>1, <1>2, <1>6 DEF l, r

LEMMA ConcatAppend ==
  ASSUME NEW S, NEW s \in Seq(S), NEW t \in Seq(S), NEW e \in S
  PROVE  s \o Append(t, e) = Append(s \o t, e)
<1>1. <<e>> \in Seq(S) /\ s \o t \in Seq(S)
  BY Single, ConcatProperties
<1>2. Append(t, e) = t \o <<e>> /\ Append(s \o t, e) = (s \o t) \o <<e>>
  BY <1>1, AppendIsConcat
<1> QED
  BY <1>1, <1>2, ConcatAssociative

------------------------------------------------------------------------------
(***************************************************************************)
(* The least of a set of numbers, and numbering a set of positions.        *)
(***************************************************************************)
\* A set of natural numbers has a least one.
LEMMA Least ==
  ASSUME NEW T \in SUBSET Nat, T # {}
  PROVE  \E m \in T : \A n \in T : m <= n
<1> DEFINE R == OpToRel(<, Nat)
<1>1. IsWellFoundedOn(R, Nat)
  BY NatLessThanWellFounded
<1> HIDE DEF R
<1>2. PICK m \in T : \A n \in T : ~(<<n, m>> \in R)
  BY <1>1, WFMin
<1>3. ASSUME NEW n \in T
      PROVE  m <= n
  <2>1. ~(<<n, m>> \in {ss \in Nat \X Nat : ss[1] < ss[2]})
    BY <1>2 DEF R, OpToRel
  <2> QED
    BY <2>1
<1> QED
  BY <1>3

\* The elements of a finite set of positions are numbered in order.
LEMMA PositionsNumbered ==
  ASSUME NEW L \in Nat, NEW K \in SUBSET (1..L)
  PROVE  /\ IsFiniteSet(K) /\ Cardinality(K) \in Nat
         /\ \A i \in K : Cardinality(K \cap 1..i) \in 1..Cardinality(K)
         /\ \A i, j \in K : Cardinality(K \cap 1..i) = Cardinality(K \cap 1..j) => i = j
         /\ \A n \in 1..Cardinality(K) : \E i \in K : Cardinality(K \cap 1..i) = n
<1> DEFINE f == [i \in K |-> Cardinality(K \cap 1..i)]
<1>1. IsFiniteSet(K) /\ Cardinality(K) \in Nat
  <2>1. IsFiniteSet(1..L)
    BY FS_Interval
  <2> QED
    BY <2>1, FS_Subset, FS_CardinalityType
<1>2. ASSUME NEW i \in K
      PROVE  IsFiniteSet(K \cap 1..i) /\ Cardinality(K \cap 1..i) \in 1..Cardinality(K)
  <2>1. /\ IsFiniteSet(K \cap 1..i) /\ Cardinality(K \cap 1..i) \in Nat
        /\ Cardinality(K \cap 1..i) <= Cardinality(K)
    BY <1>1, FS_Subset, FS_CardinalityType
  <2>2. i \in K \cap 1..i
    OBVIOUS
  <2>3. Cardinality(K \cap 1..i) # 0
    BY <2>1, <2>2, FS_EmptySet
  <2> QED
    BY <1>1, <2>1, <2>3
<1>3. ASSUME NEW i \in K, NEW j \in K, i < j
      PROVE  Cardinality(K \cap 1..i) # Cardinality(K \cap 1..j)
  <2>1. K \cap 1..i \in SUBSET (K \cap 1..j) /\ j \in K \cap 1..j /\ j \notin K \cap 1..i
    BY <1>3
  <2> QED
    BY <1>2, <2>1, FS_Subset
<1>4. \A i, j \in K : Cardinality(K \cap 1..i) = Cardinality(K \cap 1..j) => i = j
  <2>1. SUFFICES ASSUME NEW i \in K, NEW j \in K,
                        Cardinality(K \cap 1..i) = Cardinality(K \cap 1..j)
                 PROVE  i = j
    OBVIOUS
  <2>2. ~(i < j) /\ ~(j < i)
    BY <1>3, <2>1
  <2> QED
    BY <2>2
<1>5. f \in Injection(K, 1..Cardinality(K))
  BY <1>2, <1>4 DEF Injection, IsInjective
<1>6. IsFiniteSet(1..Cardinality(K)) /\ Cardinality(1..Cardinality(K)) = Cardinality(K)
  BY <1>1, FS_Interval
<1>7. f \in Surjection(K, 1..Cardinality(K))
  BY <1>5, <1>6, FS_Injection
<1>8. ASSUME NEW n \in 1..Cardinality(K)
      PROVE  \E i \in K : Cardinality(K \cap 1..i) = n
  BY <1>7 DEF Surjection
<1> QED
  BY <1>1, <1>2, <1>4, <1>8

------------------------------------------------------------------------------
(***************************************************************************)
(* Sequences whatever their elements are, and joining them.                *)
(***************************************************************************)
IsSeq(k) == \E S : k \in Seq(S)

LEMMA SeqMono ==
  ASSUME NEW S, NEW T, S \subseteq T, NEW s \in Seq(S)
  PROVE  s \in Seq(T)
<1>1. Len(s) \in Nat /\ s = [i \in 1..Len(s) |-> s[i]] /\ \A i \in 1..Len(s) : s[i] \in S
  BY LenProperties, ElementOfSeq
<1>2. s \in [1..Len(s) -> T]
  BY <1>1
<1> QED
  BY <1>1, <1>2, IsASeq

LEMMA OneSeq ==
  ASSUME NEW s
  PROVE  IsSeq(<<s>>)
<1>1. <<s>> \in Seq({s})
  BY Single
<1> QED
  BY <1>1 DEF IsSeq

LEMMA NoneSeq == IsSeq(<<>>)
<1>1. <<>> \in Seq({})
  BY EmptySeq
<1> QED
  BY <1>1 DEF IsSeq

LEMMA OneRange ==
  ASSUME NEW x, NEW y, IsSeq(x), IsSeq(y)
  PROVE  \E S : x \in Seq(S) /\ y \in Seq(S)
<1>1. PICK S : x \in Seq(S)
  BY DEF IsSeq
<1>2. PICK T : y \in Seq(T)
  BY DEF IsSeq
<1>3. x \in Seq(S \cup T) /\ y \in Seq(S \cup T)
  BY <1>1, <1>2, SeqMono
<1> QED
  BY <1>3

LEMMA JoinSeq ==
  ASSUME NEW x, NEW y, IsSeq(x), IsSeq(y)
  PROVE  IsSeq(x \o y)
<1>1. PICK S : x \in Seq(S) /\ y \in Seq(S)
  BY OneRange
<1>2. x \o y \in Seq(S)
  BY <1>1
<1> QED
  BY <1>2 DEF IsSeq

LEMMA Assoc ==
  ASSUME NEW x, NEW y, NEW z, IsSeq(x), IsSeq(y), IsSeq(z)
  PROVE  (x \o y) \o z = x \o (y \o z)
<1>1. PICK S : x \in Seq(S) /\ y \in Seq(S)
  BY OneRange
<1>2. PICK T : z \in Seq(T)
  BY DEF IsSeq
<1>3. x \in Seq(S \cup T) /\ y \in Seq(S \cup T) /\ z \in Seq(S \cup T)
  BY <1>1, <1>2, SeqMono
<1> QED
  BY <1>3, ConcatAssociative

\* The same by name, so that it is not used for other equations.
Joined(x, y, z) == (x \o y) \o z = x \o (y \o z)
LEMMA AssocThree ==
  ASSUME NEW x, NEW y, NEW z, IsSeq(x), IsSeq(y), IsSeq(z)
  PROVE  Joined(x, y, z)
BY Assoc DEF Joined

LEMMA NoneJoin ==
  ASSUME NEW k, IsSeq(k)
  PROVE  <<>> \o k = k /\ k \o <<>> = k
<1>1. PICK S : k \in Seq(S)
  BY DEF IsSeq
<1> QED
  BY <1>1, ConcatEmptySeq

LEMMA Split ==
  ASSUME NEW x, IsSeq(x), x # <<>>, NEW k, IsSeq(k)
  PROVE  /\ x \o k # <<>> /\ Head(x \o k) = Head(x) /\ Tail(x \o k) = Tail(x) \o k
         /\ IsSeq(Tail(x))
<1>1. PICK S : x \in Seq(S) /\ k \in Seq(S)
  BY OneRange
<1>2. /\ x \o k \in Seq(S) /\ Len(x \o k) = Len(x) + Len(k)
      /\ Len(x) \in Nat \ {0} /\ Len(k) \in Nat
      /\ \A i \in 1..Len(x) : (x \o k)[i] = x[i]
      /\ \A i \in 1..Len(k) : (x \o k)[Len(x) + i] = k[i]
  BY <1>1, HeadTail, ConcatProperties, LenProperties
<1>3. x \o k # <<>>
  BY <1>2, EmptySeq
<1>4. /\ Head(x) = x[1] /\ Head(x \o k) = (x \o k)[1]
      /\ Tail(x) \in Seq(S) /\ Tail(x \o k) \in Seq(S)
      /\ Len(Tail(x)) = Len(x) - 1 /\ Len(Tail(x \o k)) = Len(x \o k) - 1
      /\ \A i \in 1..Len(Tail(x)) : Tail(x)[i] = x[i + 1]
      /\ \A i \in 1..Len(Tail(x \o k)) : Tail(x \o k)[i] = (x \o k)[i + 1]
  BY <1>1, <1>2, <1>3, HeadTail
<1>5. /\ Tail(x) \o k \in Seq(S) /\ Len(Tail(x) \o k) = Len(Tail(x)) + Len(k)
      /\ \A i \in 1..Len(Tail(x)) : (Tail(x) \o k)[i] = Tail(x)[i]
      /\ \A i \in 1..Len(k) : (Tail(x) \o k)[Len(Tail(x)) + i] = k[i]
  BY <1>1, <1>4, ConcatProperties
<1>6. Len(Tail(x) \o k) = Len(Tail(x \o k))
  BY <1>2, <1>4, <1>5
<1>7. ASSUME NEW i \in 1..Len(Tail(x \o k))
      PROVE  Tail(x \o k)[i] = (Tail(x) \o k)[i]
  <2>1. CASE i <= Len(x) - 1
    BY <2>1, <1>2, <1>4, <1>5
  <2>2. CASE i > Len(x) - 1
    <3>1. i - (Len(x) - 1) \in 1..Len(k) /\ i + 1 = Len(x) + (i - (Len(x) - 1))
          /\ i = Len(Tail(x)) + (i - (Len(x) - 1))
      BY <2>2, <1>2, <1>4
    <3> QED
      BY <3>1, <1>2, <1>4, <1>5
  <2> QED
    BY <2>1, <2>2, <1>2, <1>4
<1>8. Tail(x \o k) = Tail(x) \o k
  BY <1>4, <1>5, <1>6, <1>7, SeqEqual
<1> QED
  BY <1>2, <1>3, <1>4, <1>8 DEF IsSeq

LEMMA Push ==
  ASSUME NEW s, NEW k, IsSeq(k)
  PROVE  /\ <<s>> \o k # <<>> /\ Head(<<s>> \o k) = s /\ Tail(<<s>> \o k) = k
         /\ IsSeq(<<s>> \o k)
<1>1. <<s>> \in Seq({s}) /\ <<s>> # <<>> /\ Len(<<s>>) = 1 /\ <<s>>[1] = s
  BY Single
<1>2. IsSeq(<<s>>)
  BY <1>1 DEF IsSeq
<1>3. Head(<<s>>) = s /\ Tail(<<s>>) = <<>>
  BY <1>1
<1>4. Tail(<<s>>) \o k = k
  BY <1>3, NoneJoin
<1>5. <<s>> \o k # <<>> /\ Head(<<s>> \o k) = s /\ Tail(<<s>> \o k) = k
  BY <1>1, <1>2, <1>3, <1>4, Split
<1>6. IsSeq(<<s>> \o k)
  BY <1>2, JoinSeq
<1> QED
  BY <1>5, <1>6

LEMMA TwoThree ==
  ASSUME NEW a, NEW b, NEW d
  PROVE  <<a>> \o <<b>> = <<a, b>> /\ <<a>> \o (<<b>> \o <<d>>) = <<a, b, d>>
<1>1. /\ <<a>> \in Seq({a, b, d}) /\ <<b>> \in Seq({a, b, d}) /\ <<d>> \in Seq({a, b, d})
      /\ <<a, b>> \in Seq({a, b, d}) /\ <<b, d>> \in Seq({a, b, d})
      /\ <<a, b, d>> \in Seq({a, b, d})
  OBVIOUS
<1>2. <<a>> \o <<b>> = <<a, b>> /\ <<b>> \o <<d>> = <<b, d>> /\ <<a>> \o <<b, d>> = <<a, b, d>>
  <2>1. /\ <<a>> \o <<b>> \in Seq({a, b, d}) /\ <<b>> \o <<d>> \in Seq({a, b, d})
        /\ <<a>> \o <<b, d>> \in Seq({a, b, d})
    BY <1>1
  <2>2. /\ Len(<<a>> \o <<b>>) = 2 /\ Len(<<b>> \o <<d>>) = 2 /\ Len(<<a>> \o <<b, d>>) = 3
        /\ Len(<<a, b>>) = 2 /\ Len(<<b, d>>) = 2 /\ Len(<<a, b, d>>) = 3
    BY <1>1
  <2>3. /\ \A i \in 1..2 : (<<a>> \o <<b>>)[i] = <<a, b>>[i] /\ (<<b>> \o <<d>>)[i] = <<b, d>>[i]
        /\ \A i \in 1..3 : (<<a>> \o <<b, d>>)[i] = <<a, b, d>>[i]
    BY <1>1
  <2>4. <<a>> \o <<b>> = <<a, b>>
    <3> DEFINE s == <<a>> \o <<b>>
               t == <<a, b>>
    <3>1. s \in Seq({a, b, d}) /\ t \in Seq({a, b, d}) /\ Len(s) = Len(t)
          /\ \A i \in 1..Len(s) : s[i] = t[i]
      BY <1>1, <2>1, <2>2, <2>3
    <3> HIDE DEF s, t
    <3>2. s = t
      BY <3>1, SeqEqual
    <3> QED
      BY <3>2 DEF s, t
  <2>5. <<b>> \o <<d>> = <<b, d>>
    <3> DEFINE s == <<b>> \o <<d>>
               t == <<b, d>>
    <3>1. s \in Seq({a, b, d}) /\ t \in Seq({a, b, d}) /\ Len(s) = Len(t)
          /\ \A i \in 1..Len(s) : s[i] = t[i]
      BY <1>1, <2>1, <2>2, <2>3
    <3> HIDE DEF s, t
    <3>2. s = t
      BY <3>1, SeqEqual
    <3> QED
      BY <3>2 DEF s, t
  <2>6. <<a>> \o <<b, d>> = <<a, b, d>>
    <3> DEFINE s == <<a>> \o <<b, d>>
               t == <<a, b, d>>
    <3>1. s \in Seq({a, b, d}) /\ t \in Seq({a, b, d}) /\ Len(s) = Len(t)
          /\ \A i \in 1..Len(s) : s[i] = t[i]
      BY <1>1, <2>1, <2>2, <2>3
    <3> HIDE DEF s, t
    <3>2. s = t
      BY <3>1, SeqEqual
    <3> QED
      BY <3>2 DEF s, t
  <2> QED
    BY <2>4, <2>5, <2>6
<1> QED
  BY <1>2
==============================================================================

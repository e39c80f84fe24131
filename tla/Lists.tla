------------------------------- MODULE Lists --------------------------------
(* Facts about lists that the proofs share. They have a module of their own *)
(* because some are stated without Cardinality and proved with it.         *)
EXTENDS Integers, Sequences, FiniteSetTheorems, TLAPS

IsSequence(s) == \E S : s \in Seq(S)

LEMMA Appended ==
  ASSUME NEW s, NEW e, IsSequence(s)
  PROVE  /\ IsSequence(Append(s, e)) /\ Len(s) \in Nat
         /\ Len(Append(s, e)) = Len(s) + 1
         /\ \A k \in 1..Len(s) : Append(s, e)[k] = s[k]
         /\ Append(s, e)[Len(s) + 1] = e
         /\ SubSeq(Append(s, e), 1, Len(s)) = s
<1>1. PICK S : s \in Seq(S)
  BY DEF IsSequence
<1>2. DEFINE T == S \union {e}
<1>3. s \in Seq(T) /\ e \in T
  BY <1>1
<1>4. /\ Append(s, e) \in Seq(T) /\ Len(s) \in Nat
      /\ Len(Append(s, e)) = Len(s) + 1
      /\ \A k \in 1..Len(s) : Append(s, e)[k] = s[k]
      /\ Append(s, e)[Len(s) + 1] = e
  BY <1>3
<1>5. SubSeq(Append(s, e), 1, Len(s)) = s
  BY <1>3
<1>6. QED
  BY <1>4, <1>5 DEF IsSequence

LEMMA WholeSubSeq ==
  ASSUME NEW s, IsSequence(s)
  PROVE  SubSeq(s, 1, Len(s)) = s
BY DEF IsSequence

LEMMA EmptyList == IsSequence(<<>>) /\ Len(<<>>) = 0
<1>1. <<>> \in Seq({})
  OBVIOUS
<1>2. QED
  BY <1>1 DEF IsSequence

LEMMA Concatenated ==
  ASSUME NEW s, NEW t, IsSequence(s), IsSequence(t)
  PROVE  /\ IsSequence(s \o t) /\ Len(s) \in Nat /\ Len(t) \in Nat
         /\ Len(s \o t) = Len(s) + Len(t)
         /\ \A k \in 1..Len(s) : (s \o t)[k] = s[k]
         /\ \A k \in 1..Len(t) : (s \o t)[Len(s) + k] = t[k]
         /\ SubSeq(s \o t, 1, Len(s)) = s
<1>1. PICK S : s \in Seq(S)
  BY DEF IsSequence
<1>2. PICK T : t \in Seq(T)
  BY DEF IsSequence
<1> DEFINE U == S \union T
<1>3. s \in Seq(U) /\ t \in Seq(U)
  BY <1>1, <1>2
<1> HIDE DEF U
<1>4. /\ s \o t \in Seq(U) /\ Len(s) \in Nat /\ Len(t) \in Nat
      /\ Len(s \o t) = Len(s) + Len(t)
      /\ \A k \in 1..Len(s) : (s \o t)[k] = s[k]
      /\ \A k \in 1..Len(t) : (s \o t)[Len(s) + k] = t[k]
  BY <1>3
<1>5. SubSeq(s \o t, 1, Len(s)) = s
  BY <1>3, <1>4
<1>6. QED
  BY <1>4, <1>5 DEF IsSequence

LEMMA FrontPart ==
  ASSUME NEW s, IsSequence(s), NEW n \in 0..Len(s)
  PROVE  /\ IsSequence(SubSeq(s, 1, n)) /\ Len(SubSeq(s, 1, n)) = n
         /\ Len(s) \in Nat
         /\ \A k \in 1..n : SubSeq(s, 1, n)[k] = s[k]
<1>1. PICK S : s \in Seq(S)
  BY DEF IsSequence
<1>2. n \in Nat /\ n <= Len(s) /\ Len(s) \in Nat
  BY <1>1
<1>3. /\ SubSeq(s, 1, n) \in Seq(S) /\ Len(SubSeq(s, 1, n)) = n
      /\ \A k \in 1..n : SubSeq(s, 1, n)[k] = s[k]
  BY <1>1, <1>2
<1>4. QED
  BY <1>2, <1>3 DEF IsSequence

IsFront(s, t) == Len(s) <= Len(t) /\ SubSeq(t, 1, Len(s)) = s

LEMMA FrontOfItself ==
  ASSUME NEW s, IsSequence(s)
  PROVE  IsFront(s, s)
<1>1. SubSeq(s, 1, Len(s)) = s /\ Len(s) \in Nat
  BY WholeSubSeq DEF IsSequence
<1>2. QED
  BY <1>1 DEF IsFront

LEMMA FrontOfAppended ==
  ASSUME NEW s, NEW t, NEW e, IsSequence(s), IsSequence(t), IsFront(s, t)
  PROVE  IsFront(s, Append(t, e))
<1>1. PICK T : t \in Seq(T)
  BY DEF IsSequence
<1>2. Len(s) \in Nat /\ Len(t) \in Nat /\ Len(s) <= Len(t)
  BY DEF IsSequence, IsFront
<1>3. /\ Len(Append(t, e)) = Len(t) + 1
      /\ \A k \in 1..Len(t) : Append(t, e)[k] = t[k]
  BY Appended
<1> DEFINE U == T \union {e}
<1>4. t \in Seq(U) /\ Append(t, e) \in Seq(U)
  BY <1>1
<1> HIDE DEF U
<1>5. SubSeq(Append(t, e), 1, Len(s)) = SubSeq(t, 1, Len(s))
  <2>1. /\ SubSeq(t, 1, Len(s)) \in Seq(U) /\ Len(SubSeq(t, 1, Len(s))) = Len(s)
        /\ \A k \in 1..Len(s) : SubSeq(t, 1, Len(s))[k] = t[k]
    BY <1>2, <1>4
  <2>2. /\ SubSeq(Append(t, e), 1, Len(s)) \in Seq(U)
        /\ Len(SubSeq(Append(t, e), 1, Len(s))) = Len(s)
        /\ \A k \in 1..Len(s) : SubSeq(Append(t, e), 1, Len(s))[k] = t[k]
    BY <1>2, <1>3, <1>4
  <2>3. QED
    BY <1>2, <2>1, <2>2
<1>6. QED
  BY <1>2, <1>3, <1>5 DEF IsFront

NoRepeats(s) == \A j, k \in 1..Len(s) : s[j] = s[k] => j = k

LEMMA AppendedNew ==
  ASSUME NEW s, NEW e, IsSequence(s), NoRepeats(s),
         \A k \in 1..Len(s) : s[k] # e
  PROVE  NoRepeats(Append(s, e))
BY Appended DEF NoRepeats

LEMMA ConcatenatedNew ==
  ASSUME NEW s, NEW t, IsSequence(s), IsSequence(t), NoRepeats(s), NoRepeats(t),
         \A j \in 1..Len(s), k \in 1..Len(t) : s[j] # t[k]
  PROVE  NoRepeats(s \o t)
<1> SUFFICES ASSUME NEW j \in 1..Len(s \o t), NEW k \in 1..Len(s \o t),
                    (s \o t)[j] = (s \o t)[k]
             PROVE  j = k
  BY DEF NoRepeats
<1>1. Len(s) \in Nat /\ Len(t) \in Nat /\ Len(s \o t) = Len(s) + Len(t)
  BY Concatenated
<1>2. \A l \in 1..Len(s \o t) :
        IF l <= Len(s) THEN l \in 1..Len(s) /\ (s \o t)[l] = s[l]
        ELSE l - Len(s) \in 1..Len(t) /\ (s \o t)[l] = t[l - Len(s)]
  <2> SUFFICES ASSUME NEW l \in 1..Len(s \o t)
               PROVE  IF l <= Len(s) THEN l \in 1..Len(s) /\ (s \o t)[l] = s[l]
                      ELSE l - Len(s) \in 1..Len(t) /\ (s \o t)[l] = t[l - Len(s)]
    OBVIOUS
  <2>1. CASE l <= Len(s)
    BY <1>1, <2>1, Concatenated
  <2>2. CASE ~(l <= Len(s))
    <3>1. l - Len(s) \in 1..Len(t) /\ Len(s) + (l - Len(s)) = l
      BY <1>1, <2>2
    <3>2. QED
      BY <2>2, <3>1, Concatenated
  <2>3. QED
    BY <2>1, <2>2
<1>3. QED
  BY <1>1, <1>2 DEF NoRepeats
-----------------------------------------------------------------------------
(* f lists the elements of S at the places 1..n, each of them once. *)
Enumerates(f, n, S) ==
  /\ f \in [1..n -> S]
  /\ \A t \in S : \E k \in 1..n : f[k] = t
  /\ \A k, l \in 1..n : f[k] = f[l] => k = l

LEMMA EnumerationCounts ==
  ASSUME NEW n \in Nat, NEW S, NEW f, Enumerates(f, n, S)
  PROVE  Cardinality(S) = n
<1>1. f \in Bijection(1..n, S)
  BY DEF Enumerates, Bijection, Injection, Surjection, IsInjective
<1>2. ExistsBijection(1..n, S)
  BY <1>1 DEF ExistsBijection
<1>3. QED
  BY <1>2, FS_CountingElements

(* Two lists of the same things, neither with a repetition, are of one     *)
(* length.                                                                 *)
LEMMA SameLength ==
  ASSUME NEW S, NEW m \in Nat, NEW n \in Nat, NEW f, NEW g,
         Enumerates(f, m, S), Enumerates(g, n, S)
  PROVE  m = n
<1>1. Cardinality(S) = m
  BY EnumerationCounts
<1>2. Cardinality(S) = n
  BY EnumerationCounts
<1>3. QED
  BY <1>1, <1>2

LEMMA ListCounts ==
  ASSUME NEW s, IsSequence(s), NoRepeats(s)
  PROVE  Cardinality({s[k] : k \in 1..Len(s)}) = Len(s)
<1> DEFINE S == {s[k] : k \in 1..Len(s)}
           f == [k \in 1..Len(s) |-> s[k]]
<1>1. Len(s) \in Nat
  BY DEF IsSequence
<1>2. f \in [1..Len(s) -> S] /\ \A t \in S : \E k \in 1..Len(s) : f[k] = t
  OBVIOUS
<1>3. \A j, k \in 1..Len(s) : f[j] = f[k] => j = k
  BY DEF NoRepeats
<1>4. Enumerates(f, Len(s), S)
  BY <1>2, <1>3 DEF Enumerates
<1> HIDE DEF f, S
<1>5. Cardinality(S) = Len(s)
  BY <1>1, <1>4, EnumerationCounts
<1>6. QED
  BY <1>5 DEF S
-----------------------------------------------------------------------------
(* Natural numbers: a set of them has a least one, by the finite intervals *)
(* below its elements.                                                     *)
LEMMA LeastElement ==
  ASSUME NEW T \in SUBSET Nat, T # {}
  PROVE  \E m \in T : \A n \in T : m <= n
<1>1. PICK t \in T : TRUE
  OBVIOUS
<1> DEFINE S == 0..t
           U == {n \in T : n <= t}
           V == {0..n : n \in U}
           R == StrictSubsetOrdering(S)
<1>2. IsWellFoundedOn(R, FiniteSubsetsOf(S))
  BY FS_StrictSubsetOrderingWellFounded
<1>3. V \subseteq FiniteSubsetsOf(S) /\ V # {}
  <2>1. \A n \in Nat : IsFiniteSet(0..n)
    BY FS_Interval
  <2>2. \A n \in U : 0..n \in SUBSET S
    BY <1>1
  <2>3. QED
    BY <1>1, <2>1, <2>2 DEF FiniteSubsetsOf
<1>4. \E x \in V : \A y \in V : ~(<<y, x>> \in R)
  <2> HIDE DEF R, V, S
  <2> QED
    BY <1>2, <1>3, WFMin
<1>5. PICK m \in U : \A n \in U : ~(<<0..n, 0..m>> \in R)
  BY <1>4
<1>6. \A n \in U : m <= n
  <2> SUFFICES ASSUME NEW n \in U, n < m PROVE FALSE
    BY <1>1
  <2>1. 0..n \in SUBSET S /\ 0..m \in SUBSET S /\ 0..n \subseteq 0..m
    BY <1>1
  <2>2. m \in 0..m /\ m \notin 0..n
    BY <1>1
  <2>3. <<0..n, 0..m>> \in R
    BY <2>1, <2>2 DEF StrictSubsetOrdering
  <2>4. QED
    BY <1>5, <2>3
<1>7. QED
  BY <1>1, <1>6

(* Induction, stated with a set so that it can be cited.                   *)
LEMMA SetInduction ==
  ASSUME NEW P, 0 \in P, \A n \in Nat : n \in P => n + 1 \in P
  PROVE  Nat \subseteq P
<1> DEFINE T == Nat \ P
<1> SUFFICES ASSUME T # {} PROVE FALSE
  OBVIOUS
<1>1. PICK m \in T : \A n \in T : m <= n
  BY LeastElement
<1>2. m - 1 \in Nat /\ m - 1 \notin T
  BY <1>1
<1>3. QED
  BY <1>2

(* A bounded set of naturals has a largest one.                            *)
LEMMA LargestElement ==
  ASSUME NEW T \in SUBSET Nat, T # {}, NEW b \in Nat, \A n \in T : n <= b
  PROVE  \E m \in T : \A n \in T : n <= m
<1> DEFINE U == {m \in Nat : \A n \in T : n <= m}
<1>1. b \in U
  OBVIOUS
<1>2. PICK m \in U : \A n \in U : m <= n
  BY <1>1, LeastElement
<1>3. m \in T
  <2> SUFFICES ASSUME m \notin T PROVE FALSE
    OBVIOUS
  <2>1. PICK t \in T : TRUE
    OBVIOUS
  <2>2. \A n \in T : n <= m - 1
    BY <1>2
  <2>3. m - 1 \in U
    BY <2>1, <2>2, <1>2
  <2>4. QED
    BY <1>2, <2>3
<1>4. QED
  BY <1>2, <1>3
=============================================================================

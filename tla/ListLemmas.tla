------------------------------ MODULE ListLemmas ------------------------------
(***************************************************************************)
(* What the linked lists of the code, modelled as sequences, look like     *)
(* after an element is put in front, inserted, taken out, or a prefix is   *)
(* cut off.                                                                *)
(***************************************************************************)
EXTENDS Integers, Sequences, SequenceTheorems, WellFoundedInduction, TLAPS

\* s without its k-th element, and s with e put before its k-th element.
Without(s, k) == SubSeq(s, 1, k - 1) \o SubSeq(s, k + 1, Len(s))

With(s, k, e) == SubSeq(s, 1, k - 1) \o <<e>> \o SubSeq(s, k, Len(s))

\* The lists of no element and of one.
LEMMA Short ==
  ASSUME NEW S, NEW s \in Seq(S), NEW x
  PROVE  (s = <<>> <=> Len(s) = 0) /\ (s = <<x>> <=> Len(s) = 1 /\ s[1] = x)
  <1>1. s = <<>> <=> Len(s) = 0
    BY EmptySeq
  <1>2. s = <<x>> => Len(s) = 1 /\ s[1] = x
    OBVIOUS
  <1>3. ASSUME Len(s) = 1, s[1] = x PROVE s = <<x>>
    <2>1. <<x>> \in Seq({x} \cup S) /\ s \in Seq({x} \cup S) /\ Len(<<x>>) = 1 /\ <<x>>[1] = x
      BY <1>3
    <2>2. \A i \in 1..Len(s) : s[i] = <<x>>[i]
      BY <1>3, <2>1
    <2> QED BY <1>3, <2>1, <2>2, SeqEqual
  <1> QED BY <1>1, <1>2, <1>3

\* A new head: the other elements move up by one.
LEMMA ConsElements ==
  ASSUME NEW S, NEW s \in Seq(S), NEW e \in S
  PROVE  /\ <<e>> \o s \in Seq(S) /\ Len(<<e>> \o s) = Len(s) + 1
         /\ (<<e>> \o s)[1] = e
         /\ \A i \in 2..Len(s) + 1 : (<<e>> \o s)[i] = s[i - 1]
  OBVIOUS

\* t is s without its k-th element: those behind it move down by one.
TakenOut(t, s, k) ==
  /\ Len(s) \in Nat /\ Len(t) = Len(s) - 1
  /\ \A i \in 1..Len(s) - 1 : t[i] = IF i < k THEN s[i] ELSE s[i + 1]

\* t is s with e before its k-th element.
PutIn(t, s, k, e) ==
  /\ Len(s) \in Nat /\ Len(t) = Len(s) + 1
  /\ \A i \in 1..Len(s) + 1 : t[i] = IF i < k THEN s[i] ELSE IF i = k THEN e ELSE s[i - 1]

\* The element at k is unlinked.
LEMMA RemoveElements ==
  ASSUME NEW S, NEW s \in Seq(S), NEW k \in 1..Len(s)
  PROVE  Without(s, k) \in Seq(S) /\ TakenOut(Without(s, k), s, k)
  <1> DEFINE a == SubSeq(s, 1, k - 1)
             b == SubSeq(s, k + 1, Len(s))
  <1>1. a \in Seq(S) /\ Len(a) = k - 1 /\ \A i \in 1..k - 1 : a[i] = s[i]
    OBVIOUS
  <1>2. b \in Seq(S) /\ Len(b) = Len(s) - k /\ \A i \in 1..Len(s) - k : b[i] = s[k + i]
    OBVIOUS
  <1> HIDE DEF a, b
  <1>3. a \o b \in Seq(S) /\ Len(a \o b) = Len(s) - 1
    <2>1. a \o b \in Seq(S) /\ Len(a \o b) = Len(a) + Len(b)
      BY <1>1, <1>2, ConcatProperties
    <2> QED BY <2>1, <1>1, <1>2
  <1>4. ASSUME NEW i \in 1..Len(s) - 1 PROVE (a \o b)[i] = IF i < k THEN s[i] ELSE s[i + 1]
    BY <1>1, <1>2
  <1>5. TakenOut(a \o b, s, k)
    <2>1. Len(s) \in Nat
      OBVIOUS
    <2> QED BY <1>3, <1>4, <2>1, Zenon DEF TakenOut
  <1>6. Without(s, k) = a \o b
    BY DEF a, b, Without
  <1> QED BY <1>3, <1>5, <1>6, Zenon

\* An element comes in before the one at k.
LEMMA InsertElements ==
  ASSUME NEW S, NEW s \in Seq(S), NEW e \in S, NEW k \in 1..Len(s) + 1
  PROVE  With(s, k, e) \in Seq(S) /\ PutIn(With(s, k, e), s, k, e)
  <1> DEFINE a == SubSeq(s, 1, k - 1)
             b == SubSeq(s, k, Len(s))
             c == a \o <<e>>
  <1>1. a \in Seq(S) /\ Len(a) = k - 1 /\ \A i \in 1..k - 1 : a[i] = s[i]
    OBVIOUS
  <1>2. b \in Seq(S) /\ Len(b) = Len(s) - k + 1 /\ \A i \in 1..Len(s) - k + 1 : b[i] = s[k + i - 1]
    OBVIOUS
  <1> HIDE DEF a, b
  <1>3. c \in Seq(S) /\ Len(c) = k /\ c[k] = e /\ \A i \in 1..k - 1 : c[i] = s[i]
    <2>1. c \in Seq(S) /\ Len(c) = k
      BY <1>1
    <2>2. c[k] = e
      BY <1>1
    <2>3. ASSUME NEW i \in 1..k - 1 PROVE c[i] = s[i]
      BY <1>1
    <2> HIDE DEF c
    <2> QED BY <2>1, <2>2, <2>3
  <1> HIDE DEF c
  <1>4. c \o b \in Seq(S) /\ Len(c \o b) = Len(s) + 1
    <2>1. c \o b \in Seq(S) /\ Len(c \o b) = Len(c) + Len(b)
      BY <1>3, <1>2, ConcatProperties
    <2> QED BY <2>1, <1>3, <1>2
  <1>5. ASSUME NEW i \in 1..Len(s) + 1
        PROVE  (c \o b)[i] = IF i < k THEN s[i] ELSE IF i = k THEN e ELSE s[i - 1]
    <2>1. (c \o b)[i] = IF i <= Len(c) THEN c[i] ELSE b[i - Len(c)]
      BY <1>2, <1>3, ConcatProperties
    <2>2. CASE i < k
      BY <2>1, <2>2, <1>3
    <2>3. CASE i = k
      BY <2>1, <2>3, <1>3
    <2>4. CASE i > k
      BY <2>1, <2>4, <1>3, <1>2
    <2>5. i < k \/ i = k \/ i > k
      OBVIOUS
    <2> QED BY <2>2, <2>3, <2>4, <2>5
  <1>6. PutIn(c \o b, s, k, e)
    <2>1. Len(s) \in Nat
      OBVIOUS
    <2> QED BY <1>4, <1>5, <2>1, Zenon DEF PutIn
  <1>7. With(s, k, e) = c \o b
    BY DEF a, b, c, With
  <1> QED BY <1>4, <1>6, <1>7, Zenon

-----------------------------------------------------------------------------
(* Lists without duplicates.                                               *)

Occurs(s, e) == \E i \in 1..Len(s) : s[i] = e

Distinct(s) == \A i, j \in 1..Len(s) : s[i] = s[j] => i = j

\* Inserting a new element.
LEMMA InsertDistinct ==
  ASSUME NEW S, NEW s \in Seq(S), NEW e \in S, NEW k \in 1..Len(s) + 1, Distinct(s), ~Occurs(s, e),
         NEW t, t = With(s, k, e)
  PROVE  t \in Seq(S) /\ Distinct(t) /\ \A x : Occurs(t, x) <=> Occurs(s, x) \/ x = e
  <1>1. /\ t \in Seq(S) /\ Len(t) = Len(s) + 1 /\ Len(s) \in Nat
        /\ \A i \in 1..Len(s) + 1 : t[i] = IF i < k THEN s[i] ELSE IF i = k THEN e ELSE s[i - 1]
    <2>1. t \in Seq(S) /\ PutIn(t, s, k, e)
      BY InsertElements, Zenon
    <2> QED BY <2>1 DEF PutIn
  <1>2. \A i \in 1..Len(s) : s[i] # e
    BY DEF Occurs
  <1>3. Distinct(t)
    <2> SUFFICES ASSUME NEW i \in 1..Len(s) + 1, NEW j \in 1..Len(s) + 1, t[i] = t[j], i < j
                 PROVE  FALSE
      BY <1>1 DEF Distinct
    <2>1. CASE j < k
      BY <2>1, <1>1 DEF Distinct
    <2>2. CASE j = k
      BY <2>2, <1>1, <1>2
    <2>3. CASE j > k /\ i = k
      BY <2>3, <1>1, <1>2
    <2>4. CASE j > k /\ i < k
      <3>1. t[i] = s[i] /\ t[j] = s[j - 1] /\ i \in 1..Len(s) /\ j - 1 \in 1..Len(s) /\ i # j - 1
        BY <2>4, <1>1
      <3> QED BY <3>1 DEF Distinct
    <2>5. CASE j > k /\ i > k
      <3>1. t[i] = s[i - 1] /\ t[j] = s[j - 1] /\ i - 1 \in 1..Len(s) /\ j - 1 \in 1..Len(s)
        BY <2>5, <1>1
      <3>2. i - 1 # j - 1
        OBVIOUS
      <3> QED BY <3>1, <3>2 DEF Distinct
    <2>6. j < k \/ j = k \/ (j > k /\ i = k) \/ (j > k /\ i < k) \/ (j > k /\ i > k)
      OBVIOUS
    <2> QED BY <2>1, <2>2, <2>3, <2>4, <2>5, <2>6
  <1>4. ASSUME NEW x, Occurs(t, x) PROVE Occurs(s, x) \/ x = e
    <2>1. PICK i \in 1..Len(s) + 1 : t[i] = x
      BY <1>1, <1>4 DEF Occurs
    <2>2. CASE i < k
      BY <2>1, <2>2, <1>1 DEF Occurs
    <2>3. CASE i = k
      BY <2>1, <2>3, <1>1
    <2>4. CASE i > k
      <3>1. i - 1 \in 1..Len(s) /\ s[i - 1] = x
        BY <2>1, <2>4, <1>1
      <3> QED BY <3>1 DEF Occurs
    <2>5. i < k \/ i = k \/ i > k
      OBVIOUS
    <2> QED BY <2>2, <2>3, <2>4, <2>5
  <1>5. ASSUME NEW x, Occurs(s, x) PROVE Occurs(t, x)
    <2>1. PICK i \in 1..Len(s) : s[i] = x
      BY <1>5 DEF Occurs
    <2>2. CASE i < k
      BY <2>1, <2>2, <1>1 DEF Occurs
    <2>3. CASE i >= k
      <3>1. i + 1 \in 1..Len(t) /\ i + 1 \in 1..Len(s) + 1 /\ i + 1 > k /\ (i + 1) - 1 = i
        BY <2>3, <1>1
      <3>2. t[i + 1] = x
        BY <3>1, <2>1, <1>1
      <3> QED BY <3>1, <3>2 DEF Occurs
    <2>4. i < k \/ i >= k
      OBVIOUS
    <2> QED BY <2>2, <2>3, <2>4
  <1>6. Occurs(t, e)
    <2>1. k \in 1..Len(t) /\ t[k] = e
      BY <1>1
    <2> QED BY <2>1 DEF Occurs
  <1> QED BY <1>1, <1>3, <1>4, <1>5, <1>6

\* Unlinking an element.
LEMMA RemoveDistinct ==
  ASSUME NEW S, NEW s \in Seq(S), NEW k \in 1..Len(s), Distinct(s),
         NEW t, t = Without(s, k)
  PROVE  t \in Seq(S) /\ Distinct(t) /\ \A x : Occurs(t, x) <=> Occurs(s, x) /\ x # s[k]
  <1>1. /\ t \in Seq(S) /\ Len(t) = Len(s) - 1 /\ Len(s) \in Nat
        /\ \A i \in 1..Len(s) - 1 : t[i] = IF i < k THEN s[i] ELSE s[i + 1]
    <2>1. t \in Seq(S) /\ TakenOut(t, s, k)
      BY RemoveElements, Zenon
    <2> QED BY <2>1 DEF TakenOut
  <1>2. ASSUME NEW i \in 1..Len(s) - 1
        PROVE  \E j \in 1..Len(s) : t[i] = s[j] /\ j # k /\ j = IF i < k THEN i ELSE i + 1
    BY <1>1
  <1>3. Distinct(t)
    <2> SUFFICES ASSUME NEW i \in 1..Len(s) - 1, NEW j \in 1..Len(s) - 1, t[i] = t[j]
                 PROVE  i = j
      BY <1>1 DEF Distinct
    <2>1. PICK a \in 1..Len(s) : t[i] = s[a] /\ a = IF i < k THEN i ELSE i + 1
      BY <1>2
    <2>2. PICK b \in 1..Len(s) : t[j] = s[b] /\ b = IF j < k THEN j ELSE j + 1
      BY <1>2
    <2>3. a = b
      BY <2>1, <2>2 DEF Distinct
    <2> QED BY <2>1, <2>2, <2>3
  <1>4. ASSUME NEW x, Occurs(t, x) PROVE Occurs(s, x) /\ x # s[k]
    <2>1. PICK i \in 1..Len(s) - 1 : t[i] = x
      BY <1>1, <1>4 DEF Occurs
    <2>2. PICK j \in 1..Len(s) : x = s[j] /\ j # k
      BY <1>2, <2>1
    <2> QED BY <2>2 DEF Occurs, Distinct
  <1>5. ASSUME NEW x, Occurs(s, x), x # s[k] PROVE Occurs(t, x)
    <2>1. PICK j \in 1..Len(s) : s[j] = x /\ j # k
      BY <1>5 DEF Occurs
    <2>2. CASE j < k
      <3>1. j \in 1..Len(t) /\ t[j] = x
        BY <2>1, <2>2, <1>1
      <3> QED BY <3>1 DEF Occurs
    <2>3. CASE j > k
      <3>1. j - 1 \in 1..Len(t) /\ j - 1 >= k /\ (j - 1) + 1 = j
        BY <2>1, <2>3, <1>1
      <3>2. t[j - 1] = x
        BY <3>1, <2>1, <1>1
      <3> QED BY <3>1, <3>2 DEF Occurs
    <2> QED BY <2>1, <2>2, <2>3
  <1> QED BY <1>1, <1>3, <1>4, <1>5

\* s behind its first n elements, and these, the last one first.
Behind(s, n) == SubSeq(s, n + 1, Len(s))

Taken(s, n) == [i \in 1..n |-> s[n + 1 - i]]

\* Taking the first n elements off, on a list of their own in the opposite order.
LEMMA CutDistinct ==
  ASSUME NEW S, NEW s \in Seq(S), NEW n \in 0..Len(s), Distinct(s)
  PROVE  /\ Behind(s, n) \in Seq(S) /\ Distinct(Behind(s, n)) /\ Len(Behind(s, n)) = Len(s) - n
         /\ Taken(s, n) \in Seq(S) /\ Distinct(Taken(s, n)) /\ Len(Taken(s, n)) = n
         /\ \A i \in 1..Len(s) - n : Behind(s, n)[i] = s[n + i]
         /\ \A x : Occurs(s, x) <=> Occurs(Behind(s, n), x) \/ Occurs(Taken(s, n), x)
         /\ \A x : ~(Occurs(Behind(s, n), x) /\ Occurs(Taken(s, n), x))
  <1> DEFINE t == Behind(s, n)
             u == Taken(s, n)
  <1> HIDE DEF t, u
  <1>1. /\ t \in Seq(S) /\ Len(t) = Len(s) - n /\ Len(s) \in Nat /\ n \in Nat
        /\ \A i \in 1..Len(s) - n : t[i] = s[n + i] /\ n + i \in 1..Len(s)
    BY DEF Behind, t
  <1>2. ASSUME NEW i \in 1..n PROVE n + 1 - i \in 1..Len(s) /\ u[i] = s[n + 1 - i] /\ u[i] \in S
    <2>1. n + 1 - i \in 1..Len(s)
      OBVIOUS
    <2> QED BY <2>1 DEF Taken, u
  <1>3. u \in Seq(S) /\ Len(u) = n
    BY <1>2 DEF Taken, u
  <1>4. Distinct(t)
    <2> SUFFICES ASSUME NEW i \in 1..Len(s) - n, NEW j \in 1..Len(s) - n, t[i] = t[j] PROVE i = j
      BY <1>1 DEF Distinct
    <2>1. n + i \in 1..Len(s) /\ n + j \in 1..Len(s) /\ s[n + i] = s[n + j]
      BY <1>1
    <2>2. n + i = n + j
      BY <2>1 DEF Distinct
    <2> QED BY <1>1, <2>2
  <1>5. Distinct(u)
    <2> SUFFICES ASSUME NEW i \in 1..n, NEW j \in 1..n, u[i] = u[j] PROVE i = j
      BY <1>3 DEF Distinct
    <2>1. n + 1 - i = n + 1 - j
      BY <1>2 DEF Distinct
    <2> QED BY <2>1
  <1>6. ASSUME NEW x, Occurs(s, x) PROVE Occurs(t, x) \/ Occurs(u, x)
    <2>1. PICK i \in 1..Len(s) : s[i] = x
      BY <1>6 DEF Occurs
    <2>2. CASE i <= n
      <3>1. n + 1 - i \in 1..Len(u) /\ n + 1 - i \in 1..n /\ n + 1 - (n + 1 - i) = i
        BY <2>2, <1>3
      <3>2. u[n + 1 - i] = x
        BY <3>1, <2>1, <1>2
      <3> QED BY <3>1, <3>2 DEF Occurs
    <2>3. CASE i > n
      <3>1. i - n \in 1..Len(t) /\ i - n \in 1..Len(s) - n /\ n + (i - n) = i
        BY <2>3, <1>1
      <3>2. t[i - n] = x
        BY <3>1, <2>1, <1>1
      <3> QED BY <3>1, <3>2 DEF Occurs
    <2> QED BY <2>2, <2>3, <1>1
  <1>7. ASSUME NEW x, Occurs(t, x) PROVE \E i \in n + 1..Len(s) : s[i] = x
    <2>1. PICK i \in 1..Len(s) - n : t[i] = x
      BY <1>7, <1>1 DEF Occurs
    <2>2. n + i \in n + 1..Len(s) /\ s[n + i] = x
      BY <2>1, <1>1
    <2> QED BY <2>2
  <1>8. ASSUME NEW x, Occurs(u, x) PROVE \E i \in 1..n : s[i] = x
    <2>1. PICK i \in 1..n : u[i] = x
      BY <1>8, <1>3 DEF Occurs
    <2>2. n + 1 - i \in 1..n /\ s[n + 1 - i] = x
      BY <2>1, <1>2
    <2> QED BY <2>2
  <1>9. ASSUME NEW x, Occurs(t, x) \/ Occurs(u, x) PROVE Occurs(s, x)
    <2>1. PICK i \in 1..Len(s) : s[i] = x
      BY <1>7, <1>8, <1>9, <1>1
    <2> QED BY <2>1 DEF Occurs
  <1>10. ASSUME NEW x, Occurs(t, x), Occurs(u, x) PROVE FALSE
    <2>1. PICK i \in n + 1..Len(s) : s[i] = x
      BY <1>7, <1>10
    <2>2. PICK j \in 1..n : s[j] = x
      BY <1>8, <1>10
    <2>3. i \in 1..Len(s) /\ j \in 1..Len(s) /\ i # j
      BY <1>1
    <2> QED BY <2>1, <2>2, <2>3 DEF Distinct
  <1> QED BY <1>1, <1>3, <1>4, <1>5, <1>6, <1>9, <1>10 DEF t, u

\* Taking the first element.
LEMMA TailDistinct ==
  ASSUME NEW S, NEW s \in Seq(S), s # <<>>, Distinct(s)
  PROVE  /\ Tail(s) \in Seq(S) /\ Head(s) \in S /\ Distinct(Tail(s)) /\ Occurs(s, Head(s))
         /\ \A x : Occurs(Tail(s), x) <=> Occurs(s, x) /\ x # Head(s)
         /\ Len(Tail(s)) = Len(s) - 1 /\ \A i \in 1..Len(s) - 1 : Tail(s)[i] = s[i + 1]
  <1>1. /\ Tail(s) \in Seq(S) /\ Head(s) \in S /\ Head(s) = s[1] /\ Len(s) \in Nat \ {0}
        /\ Len(Tail(s)) = Len(s) - 1 /\ \A i \in 1..Len(s) - 1 : Tail(s)[i] = s[i + 1]
    OBVIOUS
  <1> DEFINE t == Tail(s)
  <1> HIDE DEF t
  <1>2. Len(t) = Len(s) - 1 /\ \A i \in 1..Len(s) - 1 : t[i] = s[i + 1] /\ i + 1 \in 1..Len(s)
    BY <1>1 DEF t
  <1>3. Distinct(t)
    BY <1>1, <1>2 DEF Distinct
  <1>4. Occurs(s, Head(s))
    <2>1. 1 \in 1..Len(s)
      BY <1>1
    <2> QED BY <2>1, <1>1 DEF Occurs
  <1>5. ASSUME NEW x, Occurs(t, x) PROVE Occurs(s, x) /\ x # Head(s)
    <2>1. PICK i \in 1..Len(s) - 1 : t[i] = x
      BY <1>5, <1>2 DEF Occurs
    <2>2. i + 1 \in 1..Len(s) /\ s[i + 1] = x /\ i + 1 # 1 /\ 1 \in 1..Len(s)
      BY <2>1, <1>1, <1>2
    <2> QED BY <2>2, <1>1 DEF Occurs, Distinct
  <1>6. ASSUME NEW x, Occurs(s, x), x # Head(s) PROVE Occurs(t, x)
    <2>1. PICK i \in 1..Len(s) : s[i] = x /\ i # 1
      BY <1>6, <1>1 DEF Occurs
    <2>2. i - 1 \in 1..Len(s) - 1 /\ i - 1 \in 1..Len(t) /\ (i - 1) + 1 = i
      BY <2>1, <1>1, <1>2
    <2>3. t[i - 1] = x
      BY <2>1, <2>2, <1>2
    <2> QED BY <2>2, <2>3 DEF Occurs
  <1> QED BY <1>1, <1>3, <1>4, <1>5, <1>6 DEF t

-----------------------------------------------------------------------------
(* Where a walk along a list stops.                                        *)

\* A set of numbers that is not empty has a least one.
LEMMA Least ==
  ASSUME NEW T \in SUBSET Nat, T # {}
  PROVE  \E n \in T : \A m \in T : n <= m
  <1> DEFINE R == OpToRel(<, Nat)
  <1>1. PICK n \in T : \A m \in T : ~(<<m, n>> \in R)
    BY NatLessThanWellFounded, WFMin
  <1>2. \A m \in T : ~(m < n)
    BY <1>1 DEF OpToRel
  <1> QED BY <1>2

\* A walk over 1..n stops at the first number of T, or behind the last.
LEMMA WalkStops ==
  ASSUME NEW n \in Nat, NEW T
  PROVE  \E k \in 1..n + 1 : (k <= n => k \in T) /\ \A j \in 1..k - 1 : j \notin T
  <1> DEFINE U == {k \in 1..n + 1 : k <= n => k \in T}
  <1>1. U \in SUBSET Nat /\ n + 1 \in U
    OBVIOUS
  <1>2. PICK k \in U : \A m \in U : k <= m
    BY <1>1, Least
  <1>3. ASSUME NEW j \in 1..k - 1 PROVE j \notin T
    <2>1. j \in 1..n + 1 /\ j < k
      BY <1>2
    <2> QED BY <2>1, <1>2
  <1> QED BY <1>2, <1>3

\* A walk along n elements that carries a value from v0 on: at each element the
\* next value is what G makes of the place and the value.
StaysIn(G, n, V) == \A i \in 1..n : \A v \in V : G[<<i, v>>] \in V

Carries(f, v0, G, n) == f[0] = v0 /\ \A i \in 1..n : f[i] = G[<<i, f[i - 1]>>]

LEMMA PrimRec ==
  ASSUME NEW V, NEW v0 \in V, NEW n \in Nat, NEW G, StaysIn(G, n, V)
  PROVE  \E f \in [0..n -> V] : Carries(f, v0, G, n)
  <1> DEFINE Walked(m, f) == f[0] = v0 /\ \A i \in 1..m : f[i] = G[<<i, f[i - 1]>>]
             T == {m \in 0..n : ~\E f \in [0..m -> V] : Walked(m, f)}
  <1>1. ASSUME T # {} PROVE FALSE
    <2>1. T \in SUBSET Nat
      OBVIOUS
    <2>2. PICK m \in T : \A k \in T : m <= k
      BY <1>1, <2>1, Least
    <2>3. m \in 0..n /\ ~\E f \in [0..m -> V] : Walked(m, f)
      OBVIOUS
    <2>4. CASE m = 0
      <3> DEFINE f == [i \in 0..0 |-> v0]
      <3>1. f \in [0..m -> V] /\ f[0] = v0 /\ 1..m = {}
        BY <2>4
      <3>2. Walked(m, f)
        BY <3>1
      <3> QED BY <3>1, <3>2, <2>3
    <2>5. CASE m # 0
      <3>1. m - 1 \in 0..n /\ m - 1 \notin T
        BY <2>2, <2>3, <2>5
      <3>2. PICK f \in [0..m - 1 -> V] : Walked(m - 1, f)
        BY <3>1
      <3>3. m \in 1..n /\ f[m - 1] \in V
        BY <2>3, <2>5, <3>2
      <3>4. G[<<m, f[m - 1]>>] \in V
        BY <3>3 DEF StaysIn
      <3> DEFINE g == [i \in 0..m |-> IF i < m THEN f[i] ELSE G[<<m, f[m - 1]>>]]
      <3>5. g \in [0..m -> V]
        <4>1. \A i \in 0..m : i < m => i \in 0..m - 1
          BY <2>3
        <4> QED BY <3>4, <4>1
      <3>6. g[0] = v0
        BY <2>3, <2>5, <3>2
      <3>7. ASSUME NEW i \in 1..m PROVE g[i] = G[<<i, g[i - 1]>>]
        <4>1. i - 1 \in 0..m /\ i - 1 < m /\ i \in 0..m
          BY <2>3
        <4>2. g[i - 1] = f[i - 1]
          BY <4>1
        <4>3. CASE i < m
          <5>1. i \in 1..m - 1
            BY <4>3, <2>3
          <5>2. g[i] = f[i] /\ f[i] = G[<<i, f[i - 1]>>]
            BY <4>1, <4>3, <5>1, <3>2
          <5> QED BY <5>2, <4>2
        <4>4. CASE ~(i < m)
          <5>1. i = m
            BY <4>4, <2>3
          <5>2. g[i] = G[<<m, f[m - 1]>>]
            BY <4>1, <4>4
          <5> QED BY <5>1, <5>2, <4>2
        <4> QED BY <4>3, <4>4
      <3> HIDE DEF g
      <3>8. Walked(m, g)
        BY <3>6, <3>7
      <3> QED BY <3>5, <3>8, <2>3
    <2> QED BY <2>4, <2>5
  <1>2. n \in 0..n
    OBVIOUS
  <1>3. n \notin T
    <2> HIDE DEF T
    <2> QED BY <1>1
  <1> QED BY <1>2, <1>3 DEF Carries
=============================================================================

----------------------------- MODULE DataFacts ------------------------------
(***************************************************************************)
(* Facts about data that the proofs share.  Arithmetic of ring indices: an *)
(* index n lives in slot n % C; indices less than C apart never share a    *)
(* slot, and index n + C returns to the slot of n.  Sets of numbers have a *)
(* least and a greatest element, and what holds of zero and of each next   *)
(* number holds of all.  Texts: how they are put together and cut, what a  *)
(* text ends in, and what a sequence of texts spells (FlattenSeq), for     *)
(* every length.                                                           *)
(***************************************************************************)
EXTENDS Naturals, SequencesExt, SequenceTheorems, WellFoundedInduction, TLAPS

LEMMA ModRange == \A C \in Nat \ {0} : \A a \in Nat : a % C \in 0 .. C - 1
OBVIOUS

LEMMA ModQuotient ==
  \A C \in Nat \ {0} : \A a \in Nat : \E p \in Nat : a = (C * p) + (a % C)
<1> TAKE C \in Nat \ {0}
<1> TAKE a \in Nat
<1> WITNESS a \div C \in Nat
<1> QED OBVIOUS

LEMMA LapApart ==
  ASSUME NEW C \in Nat \ {0}, NEW p \in Nat, NEW q \in Nat, q >= p + 1
  PROVE  C * q >= (C * p) + C
OBVIOUS

LEMMA RemainderUnique ==
  ASSUME NEW C \in Nat \ {0}, NEW p \in Nat, NEW q \in Nat,
         NEW r \in 0 .. C - 1, NEW s \in 0 .. C - 1,
         (C * p) + r = (C * q) + s
  PROVE  r = s
<1> DEFINE x == C * p
           y == C * q
<1>1. x \in Nat /\ y \in Nat
  OBVIOUS
<1>2. x + r = y + s
  OBVIOUS
<1>3. CASE q >= p + 1
  <2>1. y >= x + C  BY <1>3, LapApart
  <2> HIDE DEF x, y
  <2> QED  BY <1>1, <1>2, <2>1
<1>4. CASE p >= q + 1
  <2>1. x >= y + C  BY <1>4, LapApart
  <2> HIDE DEF x, y
  <2> QED  BY <1>1, <1>2, <2>1
<1>5. CASE p = q
  BY <1>1, <1>5
<1> QED  BY <1>3, <1>4, <1>5

(* Two indices less than a lap apart use different slots.                  *)
LEMMA DistinctSlots ==
  ASSUME NEW C \in Nat \ {0}, NEW a \in Nat, NEW b \in Nat,
         a < b, b < a + C
  PROVE  a % C # b % C
<1> SUFFICES ASSUME a % C = b % C PROVE FALSE
  OBVIOUS
<1>1. PICK p \in Nat : a = (C * p) + (a % C)  BY ModQuotient
<1>2. PICK q \in Nat : b = (C * q) + (b % C)  BY ModQuotient
<1>3. C * p \in Nat /\ C * q \in Nat /\ a % C \in Nat  BY ModRange
<1>4. CASE q <= p
  <2>1. C * q <= C * p  BY <1>4
  <2> QED  BY <1>1, <1>2, <1>3, <2>1
<1>5. CASE q >= p + 1
  <2>1. C * q >= (C * p) + C  BY <1>5, LapApart
  <2> QED  BY <1>1, <1>2, <1>3, <2>1
<1> QED  BY <1>4, <1>5

(* One lap later the index is back in its slot.                            *)
LEMMA SameSlotNextLap ==
  ASSUME NEW C \in Nat \ {0}, NEW a \in Nat
  PROVE  (a + C) % C = a % C
<1> DEFINE b == a + C
           r == a % C
           s == b % C
<1>1. b \in Nat
  OBVIOUS
<1>2. PICK p \in Nat : a = (C * p) + r  BY ModQuotient
<1> HIDE DEF b
<1>3. PICK q \in Nat : b = (C * q) + s  BY <1>1, ModQuotient
<1>4. r \in 0 .. C - 1 /\ s \in 0 .. C - 1  BY <1>1, ModRange
<1>5. C * (p + 1) = (C * p) + C /\ C * p \in Nat
  OBVIOUS
<1> HIDE DEF r, s
<1>6. (C * (p + 1)) + r = (C * q) + s  BY <1>2, <1>3, <1>4, <1>5 DEF b
<1>7. r = s  BY <1>4, <1>6, RemainderUnique
<1> QED  BY <1>7 DEF r, s, b

(* An index of the first lap is its own slot.                              *)
LEMMA FirstLap ==
  ASSUME NEW C \in Nat \ {0}, NEW a \in 0 .. C - 1
  PROVE  a % C = a
OBVIOUS

\* The order of numbers, for induction.
Below == {p \in Nat \X Nat : p[1] < p[2]}

LEMMA BelowIsWellFounded == IsWellFoundedOn(Below, Nat)
BY NatLessThanWellFounded DEF OpToRel, Below

LEMMA LeastNumber ==
  ASSUME NEW S, S \subseteq Nat, S # {}
  PROVE  \E m \in S : \A n \in S : m <= n
<1>1. PICK m \in S : \A n \in S : ~(<<n, m>> \in Below)
  BY BelowIsWellFounded, WFMin, Zenon
<1>2. ASSUME NEW n \in S PROVE m <= n
  <2>1. <<n, m>> \in Nat \X Nat /\ <<n, m>>[1] = n /\ <<n, m>>[2] = m
    OBVIOUS
  <2>2. ~(n < m)  BY <1>1, <2>1 DEF Below
  <2> QED  BY <2>2
<1> QED  BY <1>2

LEMMA GreatestNumber ==
  ASSUME NEW k \in Nat, NEW S, S \subseteq 0 .. k, S # {}
  PROVE  \E m \in S : \A n \in S : n <= m
<1> DEFINE D == {d \in 0 .. k : k - d \in S}
<1>1. D # {}
  <2>1. PICK n \in S : TRUE  OBVIOUS
  <2>2. n \in 0 .. k /\ k - n \in 0 .. k /\ k - (k - n) = n  BY <2>1
  <2> QED  BY <2>2
<1>2. D \subseteq Nat  OBVIOUS
<1> HIDE DEF D
<1>3. PICK d \in D : \A e \in D : d <= e  BY <1>1, <1>2, LeastNumber
<1> USE DEF D
<1>4. ASSUME NEW n \in S PROVE n <= k - d
  <2>1. n \in 0 .. k /\ k - n \in 0 .. k /\ k - (k - n) = n  OBVIOUS
  <2>2. k - n \in D  BY <2>1
  <2> QED  BY <1>3, <2>1, <2>2
<1> QED  BY <1>3, <1>4

-----------------------------------------------------------------------------
(* Sequences, and texts put together and cut.                              *)

\* A set that has 1 and with each number up to k the next has them all.
LEMMA Induction ==
  ASSUME NEW k \in Nat, NEW S, 1 \in S, \A n \in 1 .. k - 1 : n \in S => n + 1 \in S
  PROVE  \A n \in 1 .. k : n \in S
<1> DEFINE D == {n \in 1 .. k : n \notin S}
<1> SUFFICES ASSUME D # {} PROVE FALSE
  OBVIOUS
<1>1. D \subseteq Nat  OBVIOUS
<1> HIDE DEF D
<1>2. PICK m \in D : \A n \in D : m <= n  BY <1>1, LeastNumber
<1> USE DEF D
<1>3. m \in 1 .. k /\ m \notin S /\ m # 1  OBVIOUS
<1>4. m - 1 \in 1 .. k - 1 /\ (m - 1) + 1 = m /\ ~(m <= m - 1)  BY <1>3
<1>5. m - 1 \in S  BY <1>2, <1>4
<1> QED  BY <1>3, <1>4, <1>5

\* f is FlattenSeq of the first n elements of h, one after the other.
Flattens(f, h, n) ==
  f = [i \in 1 .. n |-> IF i = 1 THEN h[i] ELSE f[i - 1] \o h[i]]

\* The recursive function behind FlattenSeq exists, whatever its length.
LEMMA FlatExists ==
  ASSUME NEW h, NEW k \in Nat
  PROVE  \A n \in 1 .. k : \E f : Flattens(f, h, n)
<1> DEFINE S == {n \in Nat : \E f : Flattens(f, h, n)}
<1>1. 1 \in S
  <2> DEFINE f == [i \in 1 .. 1 |-> h[i]]
  <2>1. Flattens(f, h, 1)  BY DEF Flattens
  <2> QED  BY <2>1
<1>2. ASSUME NEW n \in 1 .. k - 1, n \in S PROVE n + 1 \in S
  <2>1. PICK g : Flattens(g, h, n)  BY <1>2
  <2> DEFINE f == [i \in 1 .. n + 1 |-> IF i = 1 THEN h[i] ELSE g[i - 1] \o h[i]]
  <2>2. ASSUME NEW i \in 1 .. n + 1, i # 1 PROVE f[i - 1] = g[i - 1]
    <3>1. i - 1 \in 1 .. n /\ i - 1 \in 1 .. n + 1  BY <2>2
    <3>2. f[i - 1] = IF i - 1 = 1 THEN h[i - 1] ELSE g[i - 1 - 1] \o h[i - 1]  BY <3>1
    <3>3. g[i - 1] = IF i - 1 = 1 THEN h[i - 1] ELSE g[i - 1 - 1] \o h[i - 1]
      BY <2>1, <3>1 DEF Flattens
    <3> QED  BY <3>2, <3>3
  <2>3. Flattens(f, h, n + 1)
    <3>1. \A i \in 1 .. n + 1 : (IF i = 1 THEN h[i] ELSE g[i - 1] \o h[i])
                              = (IF i = 1 THEN h[i] ELSE f[i - 1] \o h[i])
      BY <2>2
    <3> QED  BY <3>1 DEF Flattens
  <2> QED  BY <2>3
<1> HIDE DEF S
<1>3. \A n \in 1 .. k : n \in S  BY <1>1, <1>2, Induction
<1> QED  BY <1>3 DEF S

\* FlattenSeq, step by step: each element is appended to what went before.
LEMMA FlatSteps ==
  ASSUME NEW S, NEW h \in Seq(Seq(S)), h # <<>>
  PROVE  \E f : /\ FlattenSeq(h) = f[Len(h)]
                /\ f[1] = h[1]
                /\ \A i \in 1 .. Len(h) - 1 : f[i + 1] = f[i] \o h[i + 1]
<1> DEFINE F == CHOOSE f : Flattens(f, h, Len(h))
<1>1. Len(h) \in Nat \ {0}  OBVIOUS
<1>2. Flattens(F, h, Len(h))
  <2>1. Len(h) \in 1 .. Len(h)  BY <1>1
  <2>2. \E f : Flattens(f, h, Len(h))  BY <1>1, <2>1, FlatExists
  <2> QED  BY <2>2, Zenon
<1>3. FlattenSeq(h) = F[Len(h)]
  BY <1>1, Zenon DEF FlattenSeq, Flattens
<1> HIDE DEF F
<1>4. F[1] = h[1]  BY <1>1, <1>2 DEF Flattens
<1>5. ASSUME NEW i \in 1 .. Len(h) - 1 PROVE F[i + 1] = F[i] \o h[i + 1]
  <2>1. i + 1 \in 1 .. Len(h) /\ i + 1 # 1 /\ (i + 1) - 1 = i  BY <1>1
  <2> QED  BY <1>2, <2>1 DEF Flattens
<1> QED  BY <1>3, <1>4, <1>5

\* Three texts put together from either end.
Regroups(x, y, z) == (x \o y) \o z = x \o (y \o z)

\* Concatenation is associative.
LEMMA Assoc == \A S : \A x, y, z \in Seq(S) : Regroups(x, y, z)
BY DEF Regroups

\* The empty sequence of texts is the empty text.
LEMMA FlatEmpty == FlattenSeq(<<>>) = <<>>
BY Zenon, Len(<<>>) = 0 DEF FlattenSeq

\* Texts put together are a text.
LEMMA FlatType ==
  ASSUME NEW S, NEW h \in Seq(Seq(S))
  PROVE  FlattenSeq(h) \in Seq(S)
<1>1. CASE h = <<>>
  BY <1>1, FlatEmpty, EmptySeq
<1>2. CASE h # <<>>
  <2>1. PICK f : /\ FlattenSeq(h) = f[Len(h)] /\ f[1] = h[1]
                 /\ \A i \in 1 .. Len(h) - 1 : f[i + 1] = f[i] \o h[i + 1]
    BY <1>2, FlatSteps
  <2> DEFINE D == {i \in Nat : f[i] \in Seq(S)}
  <2>2. Len(h) \in Nat \ {0} /\ Len(h) \in 1 .. Len(h) /\ 1 \in 1 .. Len(h)  BY <1>2
  <2>3. \A i \in 1 .. Len(h) : h[i] \in Seq(S)  OBVIOUS
  <2>4. 1 \in D  BY <2>1, <2>2, <2>3
  <2>5. ASSUME NEW i \in 1 .. Len(h) - 1, i \in D PROVE i + 1 \in D
    <3>1. i + 1 \in 1 .. Len(h) /\ i + 1 \in Nat  BY <2>2
    <3>2. f[i] \in Seq(S) /\ h[i + 1] \in Seq(S)  BY <2>3, <2>5, <3>1
    <3>3. f[i] \o h[i + 1] \in Seq(S)  BY <3>2, ConcatProperties
    <3> QED  BY <2>1, <3>1, <3>3
  <2> HIDE DEF D
  <2>6. Len(h) \in D  BY <2>2, <2>4, <2>5, Induction
  <2> QED  BY <2>1, <2>6 DEF D
<1> QED  BY <1>1, <1>2

\* One text put together is that text.
LEMMA FlatOne == ASSUME NEW S, NEW e \in Seq(S) PROVE FlattenSeq(<<e>>) = e
<1>1. <<e>> \in Seq(Seq(S)) /\ <<e>> # <<>> /\ Len(<<e>>) = 1 /\ <<e>>[1] = e  OBVIOUS
<1> QED  BY <1>1, FlatSteps, Zenon

\* Two sequences of texts, one behind the other, are their two texts.
LEMMA FlatConcat ==
  ASSUME NEW S, NEW g \in Seq(Seq(S)), NEW h \in Seq(Seq(S))
  PROVE  FlattenSeq(g \o h) = FlattenSeq(g) \o FlattenSeq(h)
<1>0. FlattenSeq(g) \in Seq(S) /\ FlattenSeq(h) \in Seq(S)  BY FlatType
<1>1. CASE g = <<>>
  <2>1. g \o h = h  BY <1>1, ConcatEmptySeq
  <2> QED  BY <1>0, <1>1, <2>1, FlatEmpty, ConcatEmptySeq
<1>2. CASE h = <<>>
  <2>1. g \o h = g  BY <1>2, ConcatEmptySeq
  <2> QED  BY <1>0, <1>2, <2>1, FlatEmpty, ConcatEmptySeq
<1>3. CASE g # <<>> /\ h # <<>>
  <2> DEFINE j == g \o h
             n == Len(g)
             m == Len(h)
  <2>1. /\ n \in Nat \ {0} /\ m \in Nat \ {0}
        /\ j \in Seq(Seq(S)) /\ Len(j) = n + m /\ j # <<>>
        /\ \A i \in 1 .. n : j[i] = g[i] /\ g[i] \in Seq(S)
        /\ \A i \in 1 .. m : j[n + i] = h[i] /\ h[i] \in Seq(S)
    <3>1. n \in Nat \ {0} /\ m \in Nat \ {0}  BY <1>3
    <3>2. j \in Seq(Seq(S)) /\ Len(j) = n + m  BY ConcatProperties
    <3>3. \A i \in 1 .. n + m : j[i] = IF i <= n THEN g[i] ELSE h[i - n]
      BY ConcatProperties
    <3>4. j # <<>>  BY <3>1, <3>2, EmptySeq
    <3>5. \A i \in 1 .. n : g[i] \in Seq(S)  OBVIOUS
    <3>6. \A i \in 1 .. m : h[i] \in Seq(S)  OBVIOUS
    <3>7. \A i \in 1 .. n : j[i] = g[i]  BY <3>1, <3>3
    <3>8. ASSUME NEW i \in 1 .. m PROVE j[n + i] = h[i]
      <4>1. n + i \in 1 .. n + m /\ ~(n + i <= n) /\ (n + i) - n = i  BY <3>1
      <4> QED  BY <3>3, <4>1
    <3> QED  BY <3>1, <3>2, <3>4, <3>5, <3>6, <3>7, <3>8
  <2> HIDE DEF j
  <2>2. PICK fj : /\ FlattenSeq(j) = fj[Len(j)] /\ fj[1] = j[1]
                  /\ \A i \in 1 .. Len(j) - 1 : fj[i + 1] = fj[i] \o j[i + 1]
    <3>1. j \in Seq(Seq(S)) /\ j # <<>>  BY <2>1
    <3> QED  BY <3>1, FlatSteps, Zenon
  <2>3. PICK fg : /\ FlattenSeq(g) = fg[n] /\ fg[1] = g[1]
                  /\ \A i \in 1 .. n - 1 : fg[i + 1] = fg[i] \o g[i + 1]
    BY <1>3, FlatSteps
  <2>4. PICK fh : /\ FlattenSeq(h) = fh[m] /\ fh[1] = h[1]
                  /\ \A i \in 1 .. m - 1 : fh[i + 1] = fh[i] \o h[i + 1]
    BY <1>3, FlatSteps
  <2> HIDE DEF n, m
  <2>5. fj[n] = fg[n]
    <3> DEFINE D == {i \in Nat : fj[i] = fg[i]}
    <3>1. 1 \in 1 .. n /\ n \in 1 .. n  BY <2>1
    <3>2. 1 \in D  BY <2>1, <2>2, <2>3, <3>1
    <3>3. ASSUME NEW i \in 1 .. n - 1, i \in D PROVE i + 1 \in D
      <4>1. i + 1 \in 1 .. n /\ i \in 1 .. Len(j) - 1  BY <2>1
      <4>2. fj[i + 1] = fj[i] \o j[i + 1] /\ fg[i + 1] = fg[i] \o g[i + 1]
        BY <2>2, <2>3, <4>1
      <4>3. j[i + 1] = g[i + 1] /\ fj[i] = fg[i] /\ i + 1 \in Nat  BY <2>1, <3>3, <4>1
      <4> QED  BY <4>2, <4>3
    <3> HIDE DEF D
    <3>4. n \in D  BY <2>1, <3>1, <3>2, <3>3, Induction
    <3> QED  BY <3>4 DEF D
  <2>6. fj[n + m] = fg[n] \o fh[m]
    <3> DEFINE D == {i \in Nat : fh[i] \in Seq(S) /\ fj[n + i] = fg[n] \o fh[i]}
    <3>0. 1 \in 1 .. m /\ m \in 1 .. m /\ fg[n] \in Seq(S)  BY <1>0, <2>1, <2>3
    <3>1. 1 \in D
      <4>1. n \in 1 .. Len(j) - 1  BY <2>1
      <4>2. fj[n + 1] = fj[n] \o j[n + 1]  BY <2>2, <4>1
      <4>3. j[n + 1] = h[1] /\ h[1] \in Seq(S)  BY <2>1, <3>0
      <4> QED  BY <2>4, <2>5, <4>2, <4>3
    <3>2. ASSUME NEW i \in 1 .. m - 1, i \in D PROVE i + 1 \in D
      <4>1. i + 1 \in 1 .. m /\ n + i \in 1 .. Len(j) - 1 /\ (n + i) + 1 = n + (i + 1)  BY <2>1
      <4>a. fj[(n + i) + 1] = fj[n + i] \o j[(n + i) + 1]  BY <2>2, <4>1
      <4>b. j[n + (i + 1)] = h[i + 1]  BY <2>1, <4>1
      <4>2. fj[n + (i + 1)] = fj[n + i] \o h[i + 1]  BY <4>1, <4>a, <4>b
      <4>3. fh[i] \in Seq(S) /\ h[i + 1] \in Seq(S) /\ fj[n + i] = fg[n] \o fh[i]
        BY <2>1, <3>2, <4>1
      <4>4. fh[i + 1] = fh[i] \o h[i + 1]  BY <2>4
      <4>5. fh[i + 1] \in Seq(S)  BY <4>3, <4>4, ConcatProperties
      <4>6. (fg[n] \o fh[i]) \o h[i + 1] = fg[n] \o (fh[i] \o h[i + 1])
        <5> DEFINE x == fg[n]
                   y == fh[i]
                   z == h[i + 1]
        <5>1. x \in Seq(S) /\ y \in Seq(S) /\ z \in Seq(S)  BY <3>0, <4>3
        <5> HIDE DEF x, y, z
        <5>2. (x \o y) \o z = x \o (y \o z)
          <6>1. Regroups(x, y, z)  BY <5>1, Assoc, Zenon
          <6> QED  BY <6>1 DEF Regroups
        <5> QED  BY <5>2 DEF x, y, z
      <4>7. fj[n + (i + 1)] = fg[n] \o fh[i + 1]  BY <4>2, <4>3, <4>4, <4>6, Zenon
      <4>8. i + 1 \in Nat  BY <4>1
      <4> QED  BY <4>5, <4>7, <4>8
    <3> HIDE DEF D
    <3>3. m \in D  BY <2>1, <3>0, <3>1, <3>2, Induction
    <3> QED  BY <3>3 DEF D
  <2> QED  BY <2>1, <2>2, <2>3, <2>4, <2>6 DEF j
<1> QED  BY <1>1, <1>2, <1>3

\* A text cut behind its k-th character, and put together again.
LEMMA Cut ==
  ASSUME NEW S, NEW s \in Seq(S), NEW k \in 0 .. Len(s)
  PROVE  /\ SubSeq(s, 1, k) \in Seq(S) /\ Len(SubSeq(s, 1, k)) = k
         /\ SubSeq(s, k + 1, Len(s)) \in Seq(S) /\ Len(SubSeq(s, k + 1, Len(s))) = Len(s) - k
         /\ s = SubSeq(s, 1, k) \o SubSeq(s, k + 1, Len(s))
<1>1. Len(s) \in Nat /\ k \in Nat /\ k <= Len(s)  OBVIOUS
<1>2. SubSeq(s, 1, k) \in Seq(S) /\ Len(SubSeq(s, 1, k)) = k  BY <1>1
<1>3. SubSeq(s, k + 1, Len(s)) \in Seq(S) /\ Len(SubSeq(s, k + 1, Len(s))) = Len(s) - k
  BY <1>1
<1>4. SubSeq(s, 1, k) \o SubSeq(s, k + 1, Len(s)) = SubSeq(s, 1, Len(s))
  <2>1. 1 \in 1 .. Len(s) + 1 /\ k \in 1 - 1 .. Len(s) /\ Len(s) \in k .. Len(s)  BY <1>1
  <2> QED  BY <2>1, ConcatAdjacentSubSeq
<1> QED  BY <1>2, <1>3, <1>4, SubSeqFull

\* Each of two texts is found again where it was put.
LEMMA FirstOfTwo ==
  ASSUME NEW S, NEW x \in Seq(S), NEW y \in Seq(S)
  PROVE  SubSeq(x \o y, 1, Len(x)) = x /\ SubSeq(x \o y, Len(x) + 1, Len(x) + Len(y)) = y
<1>1. Len(x) \in Nat /\ Len(y) \in Nat /\ x \o y \in Seq(S) /\ Len(x \o y) = Len(x) + Len(y)
  OBVIOUS
<1>2. SubSeq(x \o y, 1, Len(x)) = x
  <2> DEFINE a == SubSeq(x \o y, 1, Len(x))
  <2>1. a \in Seq(S) /\ Len(a) = Len(x) /\ \A i \in 1 .. Len(x) : a[i] = x[i]  BY <1>1
  <2> HIDE DEF a
  <2>2. a = x  BY <2>1, SeqEqual
  <2> QED  BY <2>2 DEF a
<1>3. SubSeq(x \o y, Len(x) + 1, Len(x) + Len(y)) = y
  <2> DEFINE a == SubSeq(x \o y, Len(x) + 1, Len(x) + Len(y))
  <2>1. a \in Seq(S) /\ Len(a) = Len(y)  BY <1>1
  <2>2. \A i \in 1 .. Len(y) : a[i] = y[i]  BY <1>1
  <2> HIDE DEF a
  <2>3. a = y  BY <2>1, <2>2, SeqEqual
  <2> QED  BY <2>3 DEF a
<1> QED  BY <1>2, <1>3

\* The number of pieces of length b that hold n characters.
LEMMA CountIs ==
  ASSUME NEW n \in Nat \ {0}, NEW b \in Nat \ {0}, NEW c, c = (n + b - 1) \div b
  PROVE  c \in Nat \ {0} /\ (c - 1) * b < n /\ n <= c * b
<1>1. c \in Nat /\ n + b - 1 \in Nat  OBVIOUS
<1>2. PICK r \in 0 .. b - 1 : n + b - 1 = c * b + r  OBVIOUS
<1>3. c * b \in Nat /\ (c - 1) * b = c * b - b  BY <1>1
<1>4. c # 0  BY <1>2, <1>3
<1> QED  BY <1>1, <1>2, <1>3, <1>4

\* A text ends in another when something stands before that one.
LEMMA SuffixIs ==
  ASSUME NEW S, NEW s \in Seq(S), NEW t \in Seq(S)
  PROVE  IsSuffix(s, t) <=> \E x \in Seq(S) : t = x \o s
<1> DEFINE n == Len(s)
           m == Len(t)
<1>1. n \in Nat /\ m \in Nat  OBVIOUS
<1>2. IsSuffix(s, t) <=> n <= m /\ SubSeq(Reverse(s), 1, n) = SubSeq(Reverse(t), 1, n)
  <2>1. Len(Reverse(s)) = n /\ Len(Reverse(t)) = m  BY DEF Reverse
  <2> QED  BY <2>1 DEF IsSuffix, IsPrefix
<1>3. ASSUME IsSuffix(s, t) PROVE \E x \in Seq(S) : t = x \o s
  <2>1. n <= m /\ SubSeq(Reverse(s), 1, n) = SubSeq(Reverse(t), 1, n)  BY <1>2, <1>3
  <2>2. ASSUME NEW i \in 1 .. n PROVE s[i] = t[m - n + i]
    <3>1. n - i + 1 \in 1 .. n /\ n - (n - i + 1) + 1 = i
      BY <1>1
    <3>2. n - i + 1 \in 1 .. m /\ m - (n - i + 1) + 1 = m - n + i  BY <1>1, <2>1
    <3>3. SubSeq(Reverse(s), 1, n)[n - i + 1] = s[i]  BY <1>1, <3>1 DEF Reverse
    <3>4. SubSeq(Reverse(t), 1, n)[n - i + 1] = t[m - n + i]
      BY <1>1, <2>1, <3>1, <3>2 DEF Reverse
    <3> QED  BY <2>1, <3>3, <3>4
  <2> DEFINE x == SubSeq(t, 1, m - n)
             y == SubSeq(t, m - n + 1, m)
  <2>3. m - n \in 0 .. m  BY <1>1, <2>1
  <2>4. x \in Seq(S) /\ y \in Seq(S) /\ Len(y) = m - (m - n) /\ t = x \o y
    BY <2>3, Cut
  <2>5. \A i \in 1 .. n : y[i] = t[m - n + i]  BY <1>1, <2>1
  <2> HIDE DEF x, y
  <2>6. Len(y) = n  BY <1>1, <2>4
  <2>7. y = s  BY <2>2, <2>4, <2>5, <2>6, SeqEqual
  <2> QED  BY <2>4, <2>7
<1>4. ASSUME NEW x \in Seq(S), t = x \o s PROVE IsSuffix(s, t)
  <2>1. m = Len(x) + n /\ Len(x) \in Nat  BY <1>4
  <2>2. \A i \in 1 .. n : t[m - i + 1] = s[n - i + 1]
    <3> TAKE i \in 1 .. n
    <3>1. n - i + 1 \in 1 .. n /\ m - i + 1 = Len(x) + (n - i + 1)  BY <1>1, <2>1
    <3>2. \A k \in 1 .. n : (x \o s)[Len(x) + k] = s[k]  BY <1>1, <2>1
    <3> QED  BY <1>4, <3>1, <3>2
  <2>3. n <= m  BY <1>1, <2>1
  <2> DEFINE a == SubSeq(Reverse(s), 1, n)
             b == SubSeq(Reverse(t), 1, n)
  <2>4. a \in Seq(S) /\ Len(a) = n /\ \A i \in 1 .. n : a[i] = s[n - i + 1]
    BY <1>1 DEF Reverse
  <2>5. b \in Seq(S) /\ Len(b) = n /\ \A i \in 1 .. n : b[i] = t[m - i + 1]
    BY <1>1, <2>3 DEF Reverse
  <2> HIDE DEF a, b
  <2>6. a = b  BY <2>2, <2>4, <2>5, SeqEqual
  <2> QED  BY <1>2, <2>3, <2>6 DEF a, b
<1> QED  BY <1>3, <1>4

\* The type and length of two texts put together.
LEMMA Cat == \A S : \A a, b \in Seq(S) : a \o b \in Seq(S) /\ Len(a \o b) = Len(a) + Len(b)
OBVIOUS

\* What ends in a text ends in the end of that text.
LEMMA SuffixTrans ==
  ASSUME NEW S, NEW a, NEW b, NEW c
  PROVE  /\ a \in Seq(S) /\ b \in Seq(S) /\ c \in Seq(S) /\ IsSuffix(a, b) /\ IsSuffix(b, c)
         => IsSuffix(a, c)
<1>0. SUFFICES ASSUME a \in Seq(S), b \in Seq(S), c \in Seq(S), IsSuffix(a, b), IsSuffix(b, c)
               PROVE  IsSuffix(a, c)
  OBVIOUS
<1>1. PICK x \in Seq(S) : b = x \o a  BY <1>0, SuffixIs
<1>2. PICK y \in Seq(S) : c = y \o b  BY <1>0, SuffixIs
<1>3. (y \o x) \o a = y \o (x \o a)
  <2>1. y \in Seq(S) /\ x \in Seq(S) /\ a \in Seq(S)  BY <1>0, <1>1, <1>2
  <2>9. Regroups(y, x, a)  BY <2>1, Assoc, Zenon
  <2> QED  BY <2>9 DEF Regroups
<1> DEFINE yx == y \o x
<1>4. yx \in Seq(S)  BY <1>1, <1>2, Cat
<1>5. c = yx \o a  BY <1>1, <1>2, <1>3, Zenon
<1> HIDE DEF yx
<1> QED  BY <1>0, <1>4, <1>5, SuffixIs

\* The same text typed behind both leaves one the end of the other.
LEMMA SuffixMore ==
  ASSUME NEW S, NEW a, NEW b, NEW c
  PROVE  /\ a \in Seq(S) /\ b \in Seq(S) /\ c \in Seq(S) /\ IsSuffix(a, b)
         => IsSuffix(a \o c, b \o c)
<1>0. SUFFICES ASSUME a \in Seq(S), b \in Seq(S), c \in Seq(S), IsSuffix(a, b)
               PROVE  IsSuffix(a \o c, b \o c)
  OBVIOUS
<1>1. PICK x \in Seq(S) : b = x \o a  BY <1>0, SuffixIs
<1>2. (x \o a) \o c = x \o (a \o c)
  <2>1. x \in Seq(S) /\ a \in Seq(S) /\ c \in Seq(S)  BY <1>0, <1>1
  <2>9. Regroups(x, a, c)  BY <2>1, Assoc, Zenon
  <2> QED  BY <2>9 DEF Regroups
<1> DEFINE ac == a \o c
           bc == b \o c
<1>3. ac \in Seq(S) /\ bc \in Seq(S)
  <2>1. a \in Seq(S) /\ b \in Seq(S) /\ c \in Seq(S)  BY <1>0
  <2> QED  BY <2>1, Cat
<1>4. bc = x \o ac  BY <1>1, <1>2, Zenon
<1>5. x \in Seq(S)  BY <1>1
<1> HIDE DEF ac, bc
<1>6. IsSuffix(ac, bc)  BY <1>3, <1>4, <1>5, SuffixIs
<1> QED  BY <1>6 DEF ac, bc

\* Whatever stands before it, a text is the end.
LEMMA SuffixBehind ==
  ASSUME NEW S, NEW a, NEW x
  PROVE  /\ a \in Seq(S) /\ x \in Seq(S)
         => IsSuffix(a, x \o a)
<1>0. SUFFICES ASSUME a \in Seq(S), x \in Seq(S)
               PROVE  IsSuffix(a, x \o a)
  OBVIOUS
<1> DEFINE b == x \o a
<1>1. b \in Seq(S)
  <2>1. a \in Seq(S) /\ x \in Seq(S)  BY <1>0
  <2> QED  BY <2>1, Cat
<1>2. b = x \o a  OBVIOUS
<1> HIDE DEF b
<1>3. IsSuffix(a, b)  BY <1>0, <1>1, <1>2, SuffixIs
<1> QED  BY <1>3 DEF b

\* A text ends in itself.
LEMMA SuffixSelf ==
  ASSUME NEW S, NEW a
  PROVE  a \in Seq(S) => IsSuffix(a, a)
<1>1. ASSUME a \in Seq(S) PROVE IsSuffix(a, a)
  <2>1. <<>> \in Seq(S) /\ a = <<>> \o a  BY <1>1
  <2> QED  BY <1>1, <2>1, SuffixIs
<1> QED  BY <1>1

\* The end of a text is no longer than the text.
LEMMA SuffixLen ==
  ASSUME NEW S, NEW a, NEW b
  PROVE  /\ a \in Seq(S) /\ b \in Seq(S) /\ IsSuffix(a, b)
         => Len(a) <= Len(b)
<1>0. SUFFICES ASSUME a \in Seq(S), b \in Seq(S), IsSuffix(a, b)
               PROVE  Len(a) <= Len(b)
  OBVIOUS
<1>1. PICK x \in Seq(S) : b = x \o a  BY <1>0, SuffixIs
<1>2. Len(b) = Len(x) + Len(a)
  <2>1. x \in Seq(S) /\ a \in Seq(S)  BY <1>0, <1>1
  <2>2. Len(x \o a) = Len(x) + Len(a)  BY <2>1, Cat
  <2> QED  BY <1>1, <2>2, Zenon
<1>3. Len(x) \in Nat /\ Len(a) \in Nat  BY <1>0, <1>1
<1> QED  BY <1>2, <1>3

\* Two texts begin alike.
Alike(v, w, n) == \A i \in 1 .. n : v[i] = w[i]

\* A text without its last character, and that character.
LEMMA FrontLast ==
  ASSUME NEW S, NEW o \in Seq(S), o # <<>>
  PROVE  /\ Front(o) \in Seq(S) /\ Len(Front(o)) = Len(o) - 1 /\ Len(o) \in Nat \ {0}
         /\ Last(o) \in S /\ <<Last(o)>> \in Seq(S) /\ Len(<<Last(o)>>) = 1
         /\ o = Front(o) \o <<Last(o)>>
<1>1. Len(o) \in Nat \ {0}  OBVIOUS
<1>2. Len(o) - 1 \in 0 .. Len(o) /\ (Len(o) - 1) + 1 = Len(o)  BY <1>1
<1> DEFINE a == SubSeq(o, 1, Len(o) - 1)
           b == SubSeq(o, (Len(o) - 1) + 1, Len(o))
           l == <<Last(o)>>
<1>3. a \in Seq(S) /\ Len(a) = Len(o) - 1 /\ b \in Seq(S) /\ Len(b) = Len(o) - (Len(o) - 1)
      /\ o = a \o b
  <2>1. PICK k \in 0 .. Len(o) : k = Len(o) - 1  BY <1>2, Zenon
  <2>2. /\ SubSeq(o, 1, k) \in Seq(S) /\ Len(SubSeq(o, 1, k)) = k
        /\ SubSeq(o, k + 1, Len(o)) \in Seq(S) /\ Len(SubSeq(o, k + 1, Len(o))) = Len(o) - k
        /\ o = SubSeq(o, 1, k) \o SubSeq(o, k + 1, Len(o))
    BY <2>1, Cut
  <2> QED  BY <2>1, <2>2, SMTT(30)
<1>4. Last(o) \in S /\ l \in Seq(S) /\ Len(l) = 1 /\ l[1] = o[Len(o)]  BY <1>1 DEF Last
<1>5. b[1] = o[Len(o)]  BY <1>1
<1> HIDE DEF a, b, l
<1>6. Len(b) = 1  BY <1>1, <1>3
<1>7. b = l  BY <1>3, <1>4, <1>5, <1>6, SeqEqual
<1>8. Front(o) = a  BY DEF Front, a
<1> QED  BY <1>1, <1>3, <1>4, <1>7, <1>8 DEF l

\* Between two texts the last character of the first moves to the second.
LEMMA FrontOfBoth ==
  ASSUME NEW S, NEW v \in Seq(S), NEW w \in Seq(S), w # <<>>
  PROVE  SubSeq(v \o w, 1, Len(v \o w) - 1) = v \o Front(w)
<1> DEFINE a == Front(w)
           l == <<Last(w)>>
           va == v \o a
<1>1. a \in Seq(S) /\ Len(a) = Len(w) - 1 /\ Len(w) \in Nat /\ l \in Seq(S) /\ w = a \o l
  BY FrontLast
<1> HIDE DEF a, l
<1>2. v \o (a \o l) = (v \o a) \o l
  <2>1. a \in Seq(S) /\ l \in Seq(S)  BY <1>1
  <2>9. Regroups(v, a, l)  BY <2>1, Assoc, Zenon
  <2> QED  BY <2>9 DEF Regroups
<1>3. va \in Seq(S) /\ Len(va) = Len(v) + Len(a)  BY <1>1, Cat
<1>4. Len(v \o w) = Len(v) + Len(w)  BY Cat
<1>5. Len(v \o w) - 1 = Len(va)
  <2> DEFINE m == Len(v \o w)
             n == Len(va)
  <2>1. Len(v) \in Nat  OBVIOUS
  <2>2. n = Len(v) + Len(a) /\ m = Len(v) + Len(w)  BY <1>3, <1>4
  <2>3. Len(a) = Len(w) - 1 /\ Len(w) \in Nat  BY <1>1
  <2> HIDE DEF m, n
  <2>4. m - 1 = n  BY <2>1, <2>2, <2>3
  <2> QED  BY <2>4 DEF m, n
<1> HIDE DEF va
<1>6. SubSeq(va \o l, 1, Len(va)) = va  BY <1>1, <1>3, FirstOfTwo
<1>7. v \o w = va \o l  BY <1>1, <1>2, Zenon DEF va
<1>8. SubSeq(v \o w, 1, Len(v \o w) - 1) = va
  BY <1>5, <1>6, <1>7, Zenon
<1> QED  BY <1>8 DEF va, a

\* A text T, then W, is rewritten from W's position p on: R is what W becomes.
Joined(u, v, w, x) == u \o v = w \o x

\* What is left of T and W before the position, and R from there on, is T and R.
LEMMA Respell ==
  ASSUME NEW S, NEW T, NEW W, NEW R, NEW p, NEW o, NEW k
  PROVE  /\ T \in Seq(S) /\ W \in Seq(S) /\ R \in Seq(S) /\ Len(W) = Len(R)
         /\ p \in 1 .. Len(W) + 1 /\ Alike(W, R, p - 1)
         /\ o \in Seq(S) /\ k = Len(T) + (p - 1)
         /\ SubSeq(o, 1, k) = SubSeq(T \o W, 1, k)
         => Joined(SubSeq(o, 1, k), SubSeq(R, p, Len(R)), T, R)
<1>0. SUFFICES ASSUME T \in Seq(S), W \in Seq(S), R \in Seq(S), Len(W) = Len(R),
                      p \in 1 .. Len(W) + 1, Alike(W, R, p - 1),
                      o \in Seq(S), k = Len(T) + (p - 1),
                      SubSeq(o, 1, k) = SubSeq(T \o W, 1, k)
      PROVE  SubSeq(o, 1, k) \o SubSeq(R, p, Len(R)) = T \o R
  BY Zenon DEF Joined
<1> DEFINE a == SubSeq(W, 1, p - 1)
           b == SubSeq(W, (p - 1) + 1, Len(W))
           r == SubSeq(R, p, Len(R))
           ta == T \o a
<1>1. W \in Seq(S) /\ p - 1 \in 0 .. Len(W)  BY <1>0
<1>2. /\ a \in Seq(S) /\ Len(a) = p - 1 /\ b \in Seq(S) /\ W = a \o b
  <2>1. PICK j \in 0 .. Len(W) : j = p - 1  BY <1>1
  <2>2. /\ SubSeq(W, 1, j) \in Seq(S) /\ Len(SubSeq(W, 1, j)) = j
        /\ SubSeq(W, j + 1, Len(W)) \in Seq(S)
        /\ W = SubSeq(W, 1, j) \o SubSeq(W, j + 1, Len(W))
    BY <1>1, <2>1, Cut
  <2> QED  BY <2>1, <2>2
<1>3. SubSeq(W, 1, p - 1) \o SubSeq(R, p, Len(R)) = R
  <2> DEFINE c == SubSeq(R, 1, p - 1)
  <2>0. R \in Seq(S) /\ Len(R) \in Nat /\ p \in Int /\ p - 1 \in 0 .. Len(R)  BY <1>0
  <2>1. PICK j \in 0 .. Len(R) : j = p - 1  BY <2>0
  <2>2. /\ SubSeq(R, 1, j) \in Seq(S) /\ Len(SubSeq(R, 1, j)) = j
        /\ R = SubSeq(R, 1, j) \o SubSeq(R, j + 1, Len(R))
    BY <2>0, <2>1, Cut
  <2>3. c \in Seq(S) /\ Len(c) = p - 1  BY <2>1, <2>2
  <2>4. \A i \in 1 .. p - 1 : a[i] = W[i]  BY <1>1
  <2>5. \A i \in 1 .. p - 1 : c[i] = R[i]  BY <2>0
  <2>6. \A i \in 1 .. p - 1 : W[i] = R[i]  BY <1>0 DEF Alike
  <2> HIDE DEF a, c
  <2>7. \A i \in 1 .. Len(a) : a[i] = c[i]  BY <1>2, <2>4, <2>5, <2>6
  <2>8. a = c  BY <1>2, <2>3, <2>7, SeqEqual
  <2>9. j + 1 = p  BY <2>0, <2>1
  <2> QED  BY <2>1, <2>2, <2>8, <2>9, Zenon DEF a, c
<1>4. r \in Seq(S)
  <2>1. R \in Seq(S) /\ p \in 1 .. Len(R) + 1  BY <1>0
  <2> QED  BY <2>1
<1>5. a \o r = R  BY <1>3
<1> HIDE DEF a, b, r
<1>6. T \in Seq(S)  BY <1>0
<1>7. ta \in Seq(S) /\ Len(ta) = Len(T) + Len(a)  BY <1>2, <1>6, Cat
<1>8. T \o W = ta \o b
  <2>1. a \in Seq(S) /\ b \in Seq(S)  BY <1>2
  <2>2. (T \o a) \o b = T \o (a \o b)
    <3>1. Regroups(T, a, b)  BY <1>6, <2>1, Assoc, Zenon
    <3> QED  BY <3>1 DEF Regroups
  <2> QED  BY <1>2, <2>2, Zenon
<1> HIDE DEF ta
<1>9. SubSeq(ta \o b, 1, Len(ta)) = ta  BY <1>2, <1>7, FirstOfTwo
<1>10. k = Len(ta)
  <2>1. k = Len(T) + (p - 1)  BY <1>0
  <2> QED  BY <1>2, <1>7, <2>1
<1>11. SubSeq(o, 1, k) = ta
  <2>1. SubSeq(o, 1, k) = SubSeq(T \o W, 1, k)  BY <1>0
  <2> QED  BY <1>8, <1>9, <1>10, <2>1, Zenon
<1>12. (T \o a) \o r = T \o (a \o r)
  <2>1. a \in Seq(S) /\ r \in Seq(S)  BY <1>2, <1>4
  <2>9. Regroups(T, a, r)  BY <1>6, <2>1, Assoc, Zenon
  <2> QED  BY <2>9 DEF Regroups
<1> QED  BY <1>5, <1>11, <1>12, Zenon DEF ta, r

\* A character repeated n times.
LEMMA Repeated ==
  ASSUME NEW n \in Nat, NEW S, NEW s \in S
  PROVE  /\ [k \in 1 .. n |-> s] \in Seq(S) /\ Len([k \in 1 .. n |-> s]) = n
         /\ \A i \in 1 .. n : [k \in 1 .. n |-> s][i] = s
OBVIOUS

\* The beginning of the first of two texts is the beginning of both.
LEMMA PrefixOfFirst ==
  ASSUME NEW S, NEW x \in Seq(S), NEW y \in Seq(S), NEW k \in 0 .. Len(x)
  PROVE  SubSeq(x \o y, 1, k) = SubSeq(x, 1, k)
<1> DEFINE a == SubSeq(x, 1, k)
           b == SubSeq(x, k + 1, Len(x))
           by == b \o y
<1>1. a \in Seq(S) /\ Len(a) = k /\ b \in Seq(S) /\ x = a \o b
  <2>1. /\ SubSeq(x, 1, k) \in Seq(S) /\ Len(SubSeq(x, 1, k)) = k
        /\ SubSeq(x, k + 1, Len(x)) \in Seq(S) /\ Len(SubSeq(x, k + 1, Len(x))) = Len(x) - k
        /\ x = SubSeq(x, 1, k) \o SubSeq(x, k + 1, Len(x))
    BY Cut
  <2> QED  BY <2>1, Zenon
<1> HIDE DEF a, b
<1>2. by \in Seq(S)  BY <1>1, Cat
<1>3. x \o y = a \o by
  <2>1. (a \o b) \o y = a \o (b \o y)
    <3>1. Regroups(a, b, y)  BY <1>1, Assoc, Zenon
    <3> QED  BY <3>1 DEF Regroups
  <2> QED  BY <1>1, <2>1, Zenon DEF by
<1> HIDE DEF by
<1>4. SubSeq(a \o by, 1, Len(a)) = a  BY <1>1, <1>2, FirstOfTwo
<1>5. SubSeq(x \o y, 1, k) = a  BY <1>1, <1>3, <1>4, Zenon
<1> QED  BY <1>5 DEF a

\* A part of a sum is within the sum.
LEMMA Within ==
  \A a, b, d \in Nat : \A e : e = a + b /\ d <= b => e \in Nat /\ d \in 0 .. e
OBVIOUS
=============================================================================

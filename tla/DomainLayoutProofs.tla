------------------------ MODULE DomainLayoutProofs ------------------------
(***************************************************************************)
(* Theorems about the names: for any disks of a domain, and any volumes of *)
(* any requests.  (AlwaysPicked is CloudInitProofs'.)                      *)
(***************************************************************************)
EXTENDS CloudInitProofs, SequenceTheorems, FiniteSetTheorems, WellFoundedInduction

(* A set of numbers that is not empty has a least member.                  *)
LEMMA LeastMember ==
    ASSUME NEW T \in SUBSET Nat, T # {}
    PROVE  \E x \in T : \A y \in T : x <= y
<1>1. PICK x \in T : \A y \in T : ~(<<y, x>> \in OpToRel(<, Nat))
  BY NatLessThanWellFounded, WFMin
<1>2. ASSUME NEW y \in T
      PROVE  ~(y < x)
  <2>1. y < x => <<y, x>> \in OpToRel(<, Nat)
    BY DEF OpToRel
  <2>2. QED
    BY <1>1, <2>1
<1>3. \A y \in T : x <= y
  BY <1>2
<1>4. QED
  BY <1>3

-----------------------------------------------------------------------------
(* Suffixes of device names *)

Letters == 97..122

LEMMA PrintedIs ==
    ASSUME NEW c \in Letters
    PROVE  /\ Printed(c) \in Seq(Nat)
           /\ Len(Printed(c)) = IF c < 100 THEN 2 ELSE 3
           /\ Len(Printed(c)) \in {2, 3}
           /\ Printed(c)[Len(Printed(c))] \in 48..57
           /\ Printed(c)[Len(Printed(c))] = 48 + (c % 10)
           /\ Printed(c)[Len(Printed(c)) - 1] = IF c < 100 THEN 57 ELSE 48 + ((c - 100) \div 10)
<1>1. CASE c < 100
  <2>1. Printed(c) = <<57, 48 + (c % 10)>>
    BY <1>1 DEF Printed, Digit, Letters
  <2>2. c % 10 \in 0..9
    BY DEF Letters
  <2>3. QED
    BY <1>1, <2>1, <2>2
<1>2. CASE c >= 100
  <2>1. Printed(c) = <<49, 48 + ((c - 100) \div 10), 48 + (c % 10)>>
    BY <1>2 DEF Printed, Digit, Letters
  <2>2. c % 10 \in 0..9 /\ (c - 100) \div 10 \in 0..2
    BY <1>2 DEF Letters
  <2> DEFINE u == 48 + ((c - 100) \div 10)
  <2> DEFINE v == 48 + (c % 10)
  <2>3. u \in 48..57 /\ v \in 48..57 /\ u \in Nat /\ v \in Nat
    BY <2>2
  <2>4. Printed(c) = <<49, u, v>>
    BY <2>1
  <2> HIDE DEF u, v
  <2>5. /\ Printed(c) \in Seq(Nat) /\ Len(Printed(c)) = 3
        /\ Printed(c)[1] = 49 /\ Printed(c)[2] = u /\ Printed(c)[3] = v
    BY <2>3, <2>4
  <2>6. QED
    BY <1>2, <2>3, <2>5 DEF u, v, Letters
<1>3. QED
  BY <1>1, <1>2 DEF Letters

(* The last two digits of a letter's number are its own.                   *)
LEMMA DigitsApart ==
    ASSUME NEW c \in Letters, NEW d \in Letters, 48 + (c % 10) = 48 + (d % 10),
           (IF c < 100 THEN 57 ELSE 48 + ((c - 100) \div 10)) =
               (IF d < 100 THEN 57 ELSE 48 + ((d - 100) \div 10))
    PROVE  c = d
<1>1. \A e \in 97..99 : e % 10 = e - 90
  OBVIOUS
<1>2. \A e \in 100..122 : (e - 100) \div 10 \in 0..2
  OBVIOUS
<1>3. \A e \in 100..122 : e = 100 + 10 * ((e - 100) \div 10) + (e % 10)
  OBVIOUS
<1>4. (c \in 97..99 \/ c \in 100..122) /\ (d \in 97..99 \/ d \in 100..122)
  BY DEF Letters
<1>5. CASE c \in 97..99 /\ d \in 97..99
  BY <1>1, <1>5
<1>6. CASE c \in 100..122 /\ d \in 100..122
  <2>1. (c - 100) \div 10 = (d - 100) \div 10 /\ c % 10 = d % 10
    BY <1>2, <1>6
  <2>2. QED
    BY <1>2, <1>3, <1>6, <2>1
<1>7. CASE c \in 97..99 /\ d \in 100..122
  BY <1>2, <1>7
<1>8. CASE c \in 100..122 /\ d \in 97..99
  BY <1>2, <1>8
<1>9. QED
  BY <1>4, <1>5, <1>6, <1>7, <1>8

(* The end of a concatenation is the end of its second part.               *)
LEMMA EndOfConcat ==
    ASSUME NEW S, NEW a \in Seq(S), NEW p \in Seq(S), NEW k \in Nat, k < Len(p)
    PROVE  (a \o p)[Len(a \o p) - k] = p[Len(p) - k]
<1> DEFINE m == Len(a)
<1> DEFINE n == Len(p)
<1>1. /\ Len(a \o p) = m + n
      /\ \A i \in 1..(m + n) : (a \o p)[i] = IF i <= m THEN a[i] ELSE p[i - m]
  BY ConcatProperties
<1>2. m \in Nat /\ n \in Nat /\ k < n
  OBVIOUS
<1> HIDE DEF m, n
<1> DEFINE j == m + n - k
<1>3. j \in 1..(m + n) /\ ~(j <= m) /\ j - m = n - k
  BY <1>2
<1> HIDE DEF j
<1>4. (a \o p)[j] = p[j - m]
  BY <1>1, <1>3
<1>5. QED
  BY <1>1, <1>3, <1>4 DEF n, j

(* Two suffixes that are the same end in the same letter: no number of a   *)
(* letter ends in another's.                                               *)
Ending(a, c) == a \o Printed(c)

LEMMA LastLetter ==
    ASSUME NEW a \in Seq(Nat), NEW b \in Seq(Nat), NEW c \in Letters, NEW d \in Letters,
           Ending(a, c) = Ending(b, d)
    PROVE  a = b /\ c = d
<1> DEFINE p == Printed(c)
<1> DEFINE q == Printed(d)
<1>1. /\ p \in Seq(Nat) /\ Len(p) = IF c < 100 THEN 2 ELSE 3
      /\ p[Len(p)] = 48 + (c % 10)
      /\ p[Len(p) - 1] = IF c < 100 THEN 57 ELSE 48 + ((c - 100) \div 10)
      /\ q \in Seq(Nat) /\ Len(q) = IF d < 100 THEN 2 ELSE 3
      /\ q[Len(q)] = 48 + (d % 10)
      /\ q[Len(q) - 1] = IF d < 100 THEN 57 ELSE 48 + ((d - 100) \div 10)
  BY PrintedIs
<1> HIDE DEF p, q
<1> DEFINE x == a \o p
<1> DEFINE y == b \o q
<1>2. x = y
  BY DEF p, q, Ending
<1>3. /\ /\ Len(x) = Len(a) + Len(p)
         /\ \A i \in 1..(Len(a) + Len(p)) : x[i] = IF i <= Len(a) THEN a[i] ELSE p[i - Len(a)]
      /\ /\ Len(y) = Len(b) + Len(q)
         /\ \A i \in 1..(Len(b) + Len(q)) : y[i] = IF i <= Len(b) THEN b[i] ELSE q[i - Len(b)]
  <2>1. p \in Seq(Nat) /\ q \in Seq(Nat)
    BY <1>1
  <2>2. /\ Len(x) = Len(a) + Len(p)
        /\ \A i \in 1..(Len(a) + Len(p)) : x[i] = IF i <= Len(a) THEN a[i] ELSE p[i - Len(a)]
    BY <2>1, ConcatProperties
  <2>3. /\ Len(y) = Len(b) + Len(q)
        /\ \A i \in 1..(Len(b) + Len(q)) : y[i] = IF i <= Len(b) THEN b[i] ELSE q[i - Len(b)]
    BY <2>1, ConcatProperties
  <2>4. QED
    BY <2>2, <2>3
<1>4. Len(a) \in Nat /\ Len(b) \in Nat /\ Len(p) \in {2, 3} /\ Len(q) \in {2, 3}
  BY <1>1
<1> HIDE DEF x, y
<1>5. x[Len(x)] = p[Len(p)] /\ x[Len(x) - 1] = p[Len(p) - 1]
  <2>1. p \in Seq(Nat) /\ 0 < Len(p) /\ 1 < Len(p)
    BY <1>1, <1>4
  <2>2. x[Len(x) - 0] = p[Len(p) - 0] /\ x[Len(x) - 1] = p[Len(p) - 1]
    BY <2>1, EndOfConcat DEF x
  <2>3. Len(x) - 0 = Len(x) /\ Len(p) - 0 = Len(p)
    BY <1>3, <1>4
  <2>4. QED
    BY <2>2, <2>3
<1>6. y[Len(y)] = q[Len(q)] /\ y[Len(y) - 1] = q[Len(q) - 1]
  <2>1. q \in Seq(Nat) /\ 0 < Len(q) /\ 1 < Len(q)
    BY <1>1, <1>4
  <2>2. y[Len(y) - 0] = q[Len(q) - 0] /\ y[Len(y) - 1] = q[Len(q) - 1]
    BY <2>1, EndOfConcat DEF y
  <2>3. Len(y) - 0 = Len(y) /\ Len(q) - 0 = Len(q)
    BY <1>3, <1>4
  <2>4. QED
    BY <2>2, <2>3
<1>7. p[Len(p)] = q[Len(q)] /\ p[Len(p) - 1] = q[Len(q) - 1]
  BY <1>2, <1>5, <1>6
<1>8. c = d
  <2>1. 48 + (c % 10) = 48 + (d % 10)
    BY <1>1, <1>7
  <2>2. (IF c < 100 THEN 57 ELSE 48 + ((c - 100) \div 10)) =
            (IF d < 100 THEN 57 ELSE 48 + ((d - 100) \div 10))
    BY <1>1, <1>7
  <2>3. QED
    BY <2>1, <2>2, DigitsApart
<1>9. Len(a) = Len(b)
  BY <1>1, <1>2, <1>3, <1>4, <1>8
<1>10. \A i \in 1..Len(a) : a[i] = b[i]
  <2>1. ASSUME NEW i \in 1..Len(a)
        PROVE  x[i] = a[i] /\ y[i] = b[i]
    <3>1. i \in 1..(Len(a) + Len(p)) /\ i <= Len(a)
      BY <1>4
    <3>2. i \in 1..(Len(b) + Len(q)) /\ i <= Len(b)
      BY <1>4, <1>9
    <3>3. QED
      BY <1>3, <3>1, <3>2
  <2>2. QED
    BY <1>2, <2>1
<1>11. QED
  BY <1>8, <1>9, <1>10, SeqEqual

(* The loop of Suffix: the position before, and the letter at a position.  *)
Before(i) == (i - 1) \div 26
Letter(i) == 97 + ((i - 1) % 26)

Spells(n, s) ==
    s = [i \in 0..n |-> IF i = 0 THEN <<>> ELSE s[Before(i)] \o Printed(Letter(i))]

LEMMA Digits26 ==
    ASSUME NEW i \in Nat, i # 0
    PROVE  /\ Before(i) \in 0..(i - 1)
           /\ Letter(i) \in Letters
           /\ i = 26 * Before(i) + (Letter(i) - 97) + 1
  BY DEF Letters, Before, Letter

LEMMA SpellsExists ==
    ASSUME NEW N \in Nat
    PROVE  \E s : Spells(N, s)
<1> DEFINE T == {n \in Nat : ~ \E s : Spells(n, s)}
<1>1. SUFFICES ASSUME T # {}
               PROVE  FALSE
  OBVIOUS
<1>2. PICK n \in T : \A m \in T : n <= m
  BY <1>1, LeastMember
<1>3. CASE n = 0
  <2>1. Spells(0, [i \in 0..0 |-> <<>>])
    BY DEF Spells
  <2>2. QED
    BY <1>2, <1>3, <2>1
<1>4. CASE n # 0
  <2>1. n - 1 \in Nat /\ n - 1 \notin T
    BY <1>2, <1>4
  <2>2. PICK s : Spells(n - 1, s)
    BY <2>1
  <2>3. \A i \in 0..(n - 1) :
           s[i] = IF i = 0 THEN <<>> ELSE s[Before(i)] \o Printed(Letter(i))
    BY <2>2 DEF Spells
  <2> DEFINE h == [i \in 0..n |-> IF i < n THEN s[i]
                                  ELSE s[Before(n)] \o Printed(Letter(n))]
  <2>4. \A i \in 0..(n - 1) : h[i] = s[i]
    BY <2>1
  <2>5. h[n] = s[Before(n)] \o Printed(Letter(n))
    BY <1>4
  <2>6. DOMAIN h = 0..n /\ h = [i \in DOMAIN h |-> h[i]]
    OBVIOUS
  <2> HIDE DEF h
  <2>7. ASSUME NEW i \in 0..n
        PROVE  h[i] = IF i = 0 THEN <<>> ELSE h[Before(i)] \o Printed(Letter(i))
    <3>1. i # 0 => Before(i) \in 0..(n - 1)
      BY Digits26
    <3>2. i # n => i \in 0..(n - 1)
      OBVIOUS
    <3>3. QED
      BY <1>4, <2>3, <2>4, <2>5, <3>1, <3>2
  <2>8. Spells(n, h)
    BY <2>6, <2>7 DEF Spells
  <2>9. QED
    BY <1>2, <2>8
<1>5. QED
  BY <1>3, <1>4

LEMMA SpellsIs ==
    ASSUME NEW N \in Nat, NEW s, Spells(N, s)
    PROVE  s[0] = <<>> /\ \A i \in 1..N : s[i] = s[Before(i)] \o Printed(Letter(i))
<1>1. \A i \in 0..N : s[i] = IF i = 0 THEN <<>> ELSE s[Before(i)] \o Printed(Letter(i))
  BY DEF Spells
<1>2. 0 \in 0..N /\ \A i \in 1..N : i \in 0..N /\ i # 0
  OBVIOUS
<1>3. QED
  BY <1>1, <1>2

LEMMA SuffixIs ==
    ASSUME NEW count \in Nat
    PROVE  \E s : Spells(count + 1, s) /\ Suffix(count) = s[count + 1]
<1> DEFINE s == CHOOSE s : Spells(count + 1, s)
<1>1. Spells(count + 1, s)
  BY SpellsExists
<1>2. Suffix(count) = s[count + 1]
  BY DEF Suffix, Spells, Before, Letter
<1>3. QED
  BY <1>1, <1>2

(* Suffixes are numbers, in digits; they are empty only before the first   *)
(* letter.                                                                 *)
LEMMA SpelledType ==
    ASSUME NEW N \in Nat, NEW s, Spells(N, s)
    PROVE  /\ \A i \in 0..N : s[i] \in Seq(Nat)
           /\ s[0] = <<>>
           /\ \A i \in 1..N : Len(s[i]) >= 2 /\ s[i][Len(s[i])] \in 48..57
<1>1. s[0] = <<>> /\ \A i \in 1..N : s[i] = s[Before(i)] \o Printed(Letter(i))
  BY SpellsIs
<1>2. \A i \in 0..N : s[i] \in Seq(Nat)
  <2> DEFINE T == {i \in 0..N : s[i] \notin Seq(Nat)}
  <2>1. SUFFICES ASSUME T # {}
                 PROVE  FALSE
    OBVIOUS
  <2>2. PICK i \in T : \A j \in T : i <= j
    <3>1. T \in SUBSET Nat
      OBVIOUS
    <3>2. QED
      BY <2>1, <3>1, LeastMember
  <2>3. i # 0
    <3>1. s[0] \in Seq(Nat)
      BY <1>1
    <3>2. QED
      BY <2>2, <3>1
  <2>4. /\ Before(i) \in 0..(i - 1) /\ Letter(i) \in Letters
        /\ Before(i) \notin T
    <3>1. i \in Nat
      BY <2>2
    <3>2. Before(i) \in 0..(i - 1) /\ Letter(i) \in Letters
      BY <2>3, <3>1, Digits26
    <3>3. QED
      BY <2>2, <3>1, <3>2
  <2>5. s[Before(i)] \in Seq(Nat)
    BY <2>2, <2>4
  <2>6. Printed(Letter(i)) \in Seq(Nat)
    BY <2>4, PrintedIs
  <2>7. s[i] = s[Before(i)] \o Printed(Letter(i))
    <3>1. i \in 1..N
      BY <2>2, <2>3
    <3>2. QED
      BY <1>1, <3>1
  <2>8. s[i] \in Seq(Nat)
    BY <2>5, <2>6, <2>7, ConcatProperties
  <2>9. QED
    BY <2>2, <2>8
<1>3. ASSUME NEW i \in 1..N
      PROVE  Len(s[i]) >= 2 /\ s[i][Len(s[i])] \in 48..57
  <2> DEFINE a == s[Before(i)]
  <2> DEFINE p == Printed(Letter(i))
  <2>1. /\ Before(i) \in 0..(i - 1) /\ Letter(i) \in Letters
        /\ Before(i) \in 0..N
    BY Digits26
  <2>2. a \in Seq(Nat) /\ s[i] = a \o p
    BY <1>1, <1>2, <2>1
  <2>3. p \in Seq(Nat) /\ Len(p) >= 2 /\ p[Len(p)] \in 48..57
    <3>1. PICK c \in Letters : c = Letter(i)
      BY <2>1
    <3>2. Printed(c) \in Seq(Nat) /\ Len(Printed(c)) \in {2, 3} /\ Printed(c)[Len(Printed(c))] \in 48..57
      BY PrintedIs
    <3>3. QED
      BY <3>1, <3>2
  <2> HIDE DEF a, p
  <2>4. /\ Len(a \o p) = Len(a) + Len(p) /\ Len(a) \in Nat
        /\ \A j \in 1..(Len(a) + Len(p)) : (a \o p)[j] = IF j <= Len(a) THEN a[j] ELSE p[j - Len(a)]
    BY <2>2, <2>3, ConcatProperties
  <2>5. Len(p) \in Nat
    BY <2>3
  <2>6. QED
    BY <2>2, <2>3, <2>4, <2>5
<1>4. QED
  BY <1>1, <1>2, <1>3

(* No two positions are spelled alike.                                     *)
LEMMA SpelledApart ==
    ASSUME NEW N \in Nat, NEW s, Spells(N, s), NEW M \in Nat, NEW t, Spells(M, t)
    PROVE  \A i \in 0..N, j \in 0..M : s[i] = t[j] => i = j
<1>1. /\ \A i \in 1..N : s[i] = s[Before(i)] \o Printed(Letter(i))
      /\ \A i \in 1..M : t[i] = t[Before(i)] \o Printed(Letter(i))
  BY SpellsIs
<1>2. /\ \A i \in 0..N : s[i] \in Seq(Nat)
      /\ \A i \in 0..M : t[i] \in Seq(Nat)
      /\ s[0] = <<>> /\ t[0] = <<>>
      /\ \A i \in 1..N : Len(s[i]) >= 2
      /\ \A i \in 1..M : Len(t[i]) >= 2
  BY SpelledType
<1> DEFINE T == {i \in 0..N : \E j \in 0..M : s[i] = t[j] /\ i # j}
<1>3. SUFFICES ASSUME T # {}
               PROVE  FALSE
  OBVIOUS
<1>4. PICK i \in T : \A k \in T : i <= k
  <2>1. T \in SUBSET Nat
    OBVIOUS
  <2>2. QED
    BY <1>3, <2>1, LeastMember
<1>5. PICK j \in 0..M : s[i] = t[j] /\ i # j
  BY <1>4
<1>6. Len(<<>>) = 0
  OBVIOUS
<1>7. i # 0 /\ j # 0
  BY <1>2, <1>4, <1>5, <1>6
<1> DEFINE i1 == Before(i)
<1> DEFINE j1 == Before(j)
<1> DEFINE ci == Letter(i)
<1> DEFINE cj == Letter(j)
<1>8. /\ i1 \in 0..(i - 1) /\ ci \in Letters /\ i = 26 * i1 + (ci - 97) + 1
      /\ j1 \in 0..(j - 1) /\ cj \in Letters /\ j = 26 * j1 + (cj - 97) + 1
  BY <1>4, <1>5, <1>7, Digits26
<1>9. s[i] = s[i1] \o Printed(ci) /\ t[j] = t[j1] \o Printed(cj)
  <2>1. i \in 1..N /\ j \in 1..M
    BY <1>4, <1>5, <1>7
  <2>2. QED
    BY <1>1, <2>1
<1> HIDE DEF i1, j1, ci, cj
<1>10. i1 \in 0..N /\ j1 \in 0..M /\ i1 \notin T
  BY <1>4, <1>5, <1>8
<1>11. s[i1] = t[j1] /\ ci = cj
  <2>1. s[i1] \in Seq(Nat) /\ t[j1] \in Seq(Nat)
    BY <1>2, <1>10
  <2>2. s[i1] \o Printed(ci) = t[j1] \o Printed(cj)
    BY <1>5, <1>9
  <2>3. PICK a \in Seq(Nat) : a = s[i1]
    BY <2>1
  <2>4. PICK b \in Seq(Nat) : b = t[j1]
    BY <2>1
  <2>5. PICK c \in Letters : c = ci
    BY <1>8
  <2>6. PICK d \in Letters : d = cj
    BY <1>8
  <2>7. Ending(a, c) = Ending(b, d)
    BY <2>2, <2>3, <2>4, <2>5, <2>6 DEF Ending
  <2>8. a = b /\ c = d
    BY <2>7, LastLetter
  <2>9. QED
    BY <2>3, <2>4, <2>5, <2>6, <2>8
<1>12. i1 = j1
  BY <1>10, <1>11
<1>13. QED
  BY <1>5, <1>8, <1>11, <1>12 DEF Letters

LEMMA SuffixesApart ==
    ASSUME NEW m \in Nat, NEW n \in Nat
    PROVE  /\ Suffix(m) = Suffix(n) => m = n
           /\ Len(Suffix(m)) \in Nat \ {0, 1}
<1>1. PICK s : Spells(m + 1, s) /\ Suffix(m) = s[m + 1]
  BY SuffixIs
<1>2. PICK t : Spells(n + 1, t) /\ Suffix(n) = t[n + 1]
  BY SuffixIs
<1>3. m + 1 \in 1..(m + 1) /\ n + 1 \in 0..(n + 1) /\ m + 1 \in Nat /\ n + 1 \in Nat
  OBVIOUS
<1>4. Suffix(m) = Suffix(n) => m + 1 = n + 1
  <2>1. \A i \in 0..(m + 1), j \in 0..(n + 1) : s[i] = t[j] => i = j
    BY <1>1, <1>2, <1>3, SpelledApart
  <2>2. m + 1 \in 0..(m + 1) /\ n + 1 \in 0..(n + 1)
    OBVIOUS
  <2>3. s[m + 1] = t[n + 1] => m + 1 = n + 1
    BY <2>1, <2>2
  <2>4. QED
    BY <1>1, <1>2, <2>3
<1>5. Len(Suffix(m)) \in Nat \ {0, 1}
  <2>1. s[m + 1] \in Seq(Nat) /\ Len(s[m + 1]) >= 2
    BY <1>1, <1>3, SpelledType
  <2>2. PICK z \in Seq(Nat) : z = Suffix(m) /\ Len(z) >= 2
    BY <1>1, <2>1
  <2>3. Len(z) \in Nat \ {0, 1}
    <3>1. Len(z) \in Nat
      OBVIOUS
    <3>2. \A n1 \in Nat : n1 >= 2 => n1 \in Nat \ {0, 1}
      OBVIOUS
    <3> DEFINE k == Len(z)
    <3>3. k \in Nat /\ k >= 2
      BY <2>2, <3>1
    <3> HIDE DEF k
    <3>4. k \in Nat \ {0, 1}
      BY <3>2, <3>3
    <3>5. QED
      BY <3>4 DEF k
  <2>4. QED
    BY <2>2, <2>3
<1>6. QED
  BY <1>4, <1>5

-----------------------------------------------------------------------------
(* The devices of a domain *)

(* Of two disks of a type, the later has more of its type before it.       *)
LEMMA CountsApart ==
    ASSUME NEW types \in Seq(STRING), NEW i \in DOMAIN types, NEW j \in DOMAIN types
    PROVE  /\ CountBefore(types, i, types[i]) \in Nat
           /\ i < j /\ types[i] = types[j] =>
                  CountBefore(types, i, types[i]) < CountBefore(types, j, types[j])
<1> DEFINE before(k) == {m \in 1..(k - 1) : types[m] = types[k]}
<1>1. i \in Nat /\ j \in Nat /\ i >= 1 /\ j >= 1
  OBVIOUS
<1>2. ASSUME NEW k \in Nat
      PROVE  IsFiniteSet(before(k)) /\ Cardinality(before(k)) \in Nat
  <2>1. IsFiniteSet(1..(k - 1))
    BY FS_Interval
  <2>2. IsFiniteSet(before(k))
    BY <2>1, FS_Subset
  <2>3. QED
    BY <2>2, FS_CardinalityType
<1>3. ASSUME i < j, types[i] = types[j]
      PROVE  Cardinality(before(i)) < Cardinality(before(j))
  <2>1. before(i) \in SUBSET before(j)
    BY <1>1, <1>3
  <2>2. i \in before(j) /\ i \notin before(i)
    BY <1>1, <1>3
  <2> HIDE DEF before
  <2>3. /\ Cardinality(before(i)) <= Cardinality(before(j))
        /\ Cardinality(before(j)) = Cardinality(before(i)) => before(j) = before(i)
    BY <1>1, <1>2, <2>1, FS_Subset
  <2>4. QED
    BY <1>1, <1>2, <2>2, <2>3
<1>4. QED
  BY <1>1, <1>2, <1>3 DEF CountBefore

(* The three devices every domain has, and the others.                     *)
LEMMA FixedApart ==
    /\ \A i, j \in 1..3 : FixedDevices[i] = FixedDevices[j] => i = j
    /\ \A i \in 1..3 : FixedDevices[i][1] = "sd" /\ Len(FixedDevices[i][2]) = 1
    /\ Len(FixedDevices) = 3
<1> DEFINE sdd == <<"sd", <<100>>>>
<1> DEFINE sdb == <<"sd", <<98>>>>
<1> DEFINE sdc == <<"sd", <<99>>>>
<1>1. FixedDevices = <<sdd, sdb, sdc>>
  BY DEF FixedDevices
<1>2. /\ sdd[1] = "sd" /\ sdb[1] = "sd" /\ sdc[1] = "sd"
      /\ sdd[2] = <<100>> /\ sdb[2] = <<98>> /\ sdc[2] = <<99>>
  OBVIOUS
<1>3. /\ Len(<<100>>) = 1 /\ Len(<<98>>) = 1 /\ Len(<<99>>) = 1
      /\ <<100>> # <<98>> /\ <<100>> # <<99>> /\ <<98>> # <<99>>
  <2>1. <<100>>[1] = 100 /\ <<98>>[1] = 98 /\ <<99>>[1] = 99
    OBVIOUS
  <2>2. QED
    BY <2>1
<1>4. sdd # sdb /\ sdd # sdc /\ sdb # sdc
  BY <1>2, <1>3
<1> HIDE DEF sdd, sdb, sdc
<1>5. /\ FixedDevices[1] = sdd /\ FixedDevices[2] = sdb /\ FixedDevices[3] = sdc
      /\ Len(FixedDevices) = 3
  BY <1>1
<1>6. 1..3 = {1, 2, 3}
  OBVIOUS
<1>7. QED
  BY <1>2, <1>3, <1>4, <1>5, <1>6

LEMMA AddedApart ==
    ASSUME NEW types \in Seq(STRING), \A i \in DOMAIN types : types[i] \in {"nvme", "sata"},
           NEW i \in DOMAIN types, NEW j \in DOMAIN types, Device(types, i) = Device(types, j)
    PROVE  i = j
<1> DEFINE n(k) == CountBefore(types, k, types[k])
<1>1. /\ n(i) \in Nat /\ n(j) \in Nat
      /\ i < j /\ types[i] = types[j] => n(i) < n(j)
      /\ j < i /\ types[i] = types[j] => n(j) < n(i)
  BY CountsApart
<1>2. \A k \in DOMAIN types :
         /\ types[k] = "nvme" => Device(types, k)[1] = "nvme" /\ Device(types, k)[2] = <<n(k)>>
         /\ types[k] = "sata" => Device(types, k)[1] = "sd" /\ Device(types, k)[2] = Suffix(2 + n(k))
  BY DEF Device
<1> HIDE DEF n
<1>3. types[i] = types[j]
  <2>1. "nvme" # "sd"
    OBVIOUS
  <2>2. QED
    BY <1>2, <2>1
<1>4. n(i) = n(j)
  <2>1. CASE types[i] = "nvme"
    <3>1. <<n(i)>> = <<n(j)>>
      BY <1>2, <1>3, <2>1
    <3>2. <<n(i)>>[1] = n(i) /\ <<n(j)>>[1] = n(j)
      OBVIOUS
    <3>3. QED
      BY <3>1, <3>2
  <2>2. CASE types[i] = "sata"
    <3>1. Suffix(2 + n(i)) = Suffix(2 + n(j))
      BY <1>2, <1>3, <2>2
    <3>2. 2 + n(i) \in Nat /\ 2 + n(j) \in Nat
      BY <1>1
    <3>3. 2 + n(i) = 2 + n(j)
      BY <3>1, <3>2, SuffixesApart
    <3>4. QED
      BY <1>1, <3>3
  <2>3. QED
    BY <2>1, <2>2
<1>5. i \in Nat /\ j \in Nat
  OBVIOUS
<1>6. QED
  BY <1>1, <1>3, <1>4, <1>5

LEMMA AddedNotFixed ==
    ASSUME NEW types \in Seq(STRING), \A i \in DOMAIN types : types[i] \in {"nvme", "sata"},
           NEW i \in DOMAIN types, NEW j \in 1..3
    PROVE  Device(types, i) # FixedDevices[j]
<1> DEFINE n == CountBefore(types, i, types[i])
<1>1. FixedDevices[j][1] = "sd" /\ Len(FixedDevices[j][2]) = 1
  BY FixedApart
<1>2. CASE types[i] = "nvme"
  <2>1. Device(types, i)[1] = "nvme"
    BY <1>2 DEF Device
  <2>2. QED
    BY <1>1, <2>1
<1>3. CASE types[i] = "sata"
  <2>1. Device(types, i)[2] = Suffix(2 + n)
    BY <1>3 DEF Device
  <2>2. n \in Nat
    BY CountsApart
  <2> HIDE DEF n
  <2>3. Len(Suffix(2 + n)) # 1
    <3>1. 2 + n \in Nat
      BY <2>2
    <3>2. QED
      BY <3>1, SuffixesApart
  <2>4. Len(FixedDevices[j][2]) # Len(Device(types, i)[2])
    BY <1>1, <2>1, <2>3
  <2>5. QED
    BY <2>4
<1>4. QED
  BY <1>2, <1>3

LEMMA DevicesAreApart ==
    ASSUME NEW types \in Seq(STRING)
    PROVE  DevicesApart(types)
<1> DEFINE devices == Devices(types)
<1>1. SUFFICES ASSUME devices # UnknownType
               PROVE  Cardinality({devices[i] : i \in DOMAIN devices}) = Len(devices)
  BY DEF DevicesApart
<1>2. /\ \A i \in DOMAIN types : types[i] \in {"nvme", "sata"}
      /\ devices = FixedDevices \o [i \in DOMAIN types |-> Device(types, i)]
  BY <1>1 DEF Devices
<1> DEFINE added == [i \in DOMAIN types |-> Device(types, i)]
<1> DEFINE L == Len(types)
<1> DEFINE All == {FixedDevices[i] : i \in 1..3} \cup {Device(types, i) : i \in DOMAIN types}
<1>3. L \in Nat /\ DOMAIN types = 1..L
  OBVIOUS
<1>4. /\ FixedDevices \in Seq(All) /\ Len(FixedDevices) = 3
      /\ added \in Seq(All) /\ Len(added) = L
  <2>1. FixedDevices \in Seq(All)
    <3>1. \E a, b, c : FixedDevices = <<a, b, c>>
      BY DEF FixedDevices
    <3>2. PICK a, b, c : FixedDevices = <<a, b, c>>
      BY <3>1
    <3>3. FixedDevices[1] = a /\ FixedDevices[2] = b /\ FixedDevices[3] = c
      BY <3>2
    <3>4. FixedDevices[1] \in All /\ FixedDevices[2] \in All /\ FixedDevices[3] \in All
      OBVIOUS
    <3> HIDE DEF All
    <3>5. a \in All /\ b \in All /\ c \in All
      BY <3>3, <3>4
    <3>6. <<a, b, c>> \in Seq(All)
      BY <3>5
    <3>7. QED
      BY <3>2, <3>6
  <2>2. added \in [1..L -> All]
    BY <1>3
  <2>3. QED
    BY <1>3, <2>1, <2>2, FixedApart
<1> HIDE DEF added, All, L
<1>5. /\ Len(devices) = 3 + L /\ DOMAIN devices = 1..(3 + L)
      /\ \A i \in 1..(3 + L) : devices[i] = IF i <= 3 THEN FixedDevices[i] ELSE added[i - 3]
  <2>1. /\ FixedDevices \o added \in Seq(All)
        /\ Len(FixedDevices \o added) = 3 + L
        /\ \A i \in 1..(3 + L) :
              (FixedDevices \o added)[i] = IF i <= 3 THEN FixedDevices[i] ELSE added[i - 3]
    <3>1. PICK fixed \in Seq(All) : fixed = FixedDevices
      BY <1>4
    <3>2. /\ fixed \o added \in Seq(All)
          /\ Len(fixed \o added) = Len(fixed) + Len(added)
          /\ \A i \in 1..(Len(fixed) + Len(added)) :
                (fixed \o added)[i] = IF i <= Len(fixed) THEN fixed[i] ELSE added[i - Len(fixed)]
      BY <1>4, ConcatProperties
    <3>3. Len(fixed) = 3 /\ Len(added) = L
      BY <1>4, <3>1
    <3>4. QED
      BY <3>1, <3>2, <3>3
  <2>2. devices = FixedDevices \o added
    BY <1>2 DEF added
  <2>3. devices \in Seq(All) /\ Len(devices) = 3 + L
    BY <2>1, <2>2
  <2> HIDE DEF devices
  <2>4. DOMAIN devices = 1..(3 + L)
    BY <2>3
  <2>5. QED
    BY <2>1, <2>2, <2>3, <2>4
<1>6. \A i \in 1..L : added[i] = Device(types, i)
  BY <1>3 DEF added
<1> HIDE DEF devices
<1>7. ASSUME NEW i \in 1..(3 + L), NEW j \in 1..(3 + L), devices[i] = devices[j]
      PROVE  i = j
  <2>1. CASE i <= 3 /\ j <= 3
    BY <1>5, <1>7, <2>1, FixedApart
  <2>2. CASE i > 3 /\ j > 3
    <3>1. i - 3 \in 1..L /\ j - 3 \in 1..L
      BY <1>3, <2>2
    <3>2. Device(types, i - 3) = Device(types, j - 3)
      BY <1>3, <1>5, <1>6, <1>7, <2>2, <3>1
    <3>3. i - 3 = j - 3
      BY <1>2, <1>3, <3>1, <3>2, AddedApart
    <3>4. QED
      BY <1>3, <3>3
  <2>3. CASE i <= 3 /\ j > 3
    <3>1. i \in 1..3 /\ j - 3 \in 1..L
      BY <1>3, <2>3
    <3>2. FixedDevices[i] = Device(types, j - 3)
      BY <1>3, <1>5, <1>6, <1>7, <2>3, <3>1
    <3>3. QED
      BY <1>2, <1>3, <3>1, <3>2, AddedNotFixed
  <2>4. CASE i > 3 /\ j <= 3
    <3>1. j \in 1..3 /\ i - 3 \in 1..L
      BY <1>3, <2>4
    <3>2. FixedDevices[j] = Device(types, i - 3)
      BY <1>3, <1>5, <1>6, <1>7, <2>4, <3>1
    <3>3. QED
      BY <1>2, <1>3, <3>1, <3>2, AddedNotFixed
  <2>5. QED
    BY <1>3, <2>1, <2>2, <2>3, <2>4
<1> DEFINE names == {devices[i] : i \in 1..(3 + L)}
<1> DEFINE f == [i \in 1..(3 + L) |-> devices[i]]
<1>8. f \in Bijection(1..(3 + L), names)
  <2>1. f \in [1..(3 + L) -> names]
    OBVIOUS
  <2>2. \A i, j \in 1..(3 + L) : f[i] = f[j] => i = j
    BY <1>7
  <2>3. \A name \in names : \E i \in 1..(3 + L) : f[i] = name
    OBVIOUS
  <2> HIDE DEF f, names
  <2>4. f \in Injection(1..(3 + L), names)
    BY <2>1, <2>2 DEF Injection, IsInjective
  <2>5. f \in Surjection(1..(3 + L), names)
    BY <2>1, <2>3 DEF Surjection
  <2>6. QED
    BY <2>4, <2>5 DEF Bijection
<1>9. IsFiniteSet(1..(3 + L)) /\ Cardinality(1..(3 + L)) = 3 + L
  BY <1>3, FS_Interval
<1>10. ExistsBijection(1..(3 + L), names)
  BY <1>8 DEF ExistsBijection
<1>11. Cardinality(names) = 3 + L
  BY <1>9, <1>10, FS_Bijection
<1>12. QED
  BY <1>5, <1>11

(* No domain has two disks with one device name.                           *)
THEOREM DisksAreApart == Spec => []DiskDevicesApart
<1>1. Picked => DiskDevicesApart
  <2>1. SUFFICES ASSUME Picked, in.kind = "disks"
                 PROVE  DevicesApart(in.x)
    BY DEF DiskDevicesApart
  <2>2. in.x \in DiskLists
    BY <2>1 DEF Picked
  <2>3. in.x \in Seq(STRING)
    BY <2>2, DisksAssumption
  <2>4. QED
    BY <2>3, DevicesAreApart
<1>2. QED
  BY <1>1, AlwaysPicked, PTL

-----------------------------------------------------------------------------
(* The names of volumes *)

Main  == <<"-", "v", "o", "l", "u", "m", "e">>
Amd64 == <<"-", "n", "o", "c", "l", "o", "u", "d", "-", "a", "m", "d", "6", "4">>
Vars  == <<"_", "V", "A", "R", "S", ".", "f", "d">>

(* The words of the names are made of characters.                          *)
LEMMA Literals ==
    /\ Dash \in Seq(Char) /\ Iso \in Seq(Char) /\ Main \in Seq(Char) /\ Amd64 \in Seq(Char)
    /\ Vars \in Seq(Char) /\ UserData \in Seq(Char)
    /\ TypeEnding["nvme"] \in Seq(Char) /\ TypeEnding["sata"] \in Seq(Char)
<1>1. Dash \in Seq(Char)
  <2>1. "-" \in Char
    BY CharAssumption
  <2>2. QED
    BY <2>1 DEF Dash
<1>2. Iso \in Seq(Char)
  <2>1. "." \in Char /\ "i" \in Char /\ "s" \in Char /\ "o" \in Char
    BY CharAssumption
  <2>2. QED
    BY <2>1 DEF Iso
<1>3. Main \in Seq(Char)
  <2>1. /\ "-" \in Char /\ "v" \in Char /\ "o" \in Char /\ "l" \in Char /\ "u" \in Char
        /\ "m" \in Char /\ "e" \in Char
    BY CharAssumption
  <2>2. QED
    BY <2>1 DEF Main
<1>4. Amd64 \in Seq(Char)
  <2>1. /\ "-" \in Char /\ "n" \in Char /\ "o" \in Char /\ "c" \in Char /\ "l" \in Char
        /\ "u" \in Char /\ "d" \in Char /\ "a" \in Char /\ "m" \in Char /\ "6" \in Char /\ "4" \in Char
    BY CharAssumption
  <2>2. QED
    BY <2>1 DEF Amd64
<1>5. Vars \in Seq(Char)
  <2>1. /\ "V" \in Char /\ "A" \in Char /\ "R" \in Char /\ "S" \in Char
        /\ "." \in Char /\ "f" \in Char /\ "d" \in Char
    BY CharAssumption
  <2>2. PICK u \in Char : u = "_"
    BY CharAssumption
  <2>3. <<u, "V", "A", "R", "S", ".", "f", "d">> \in Seq(Char)
    BY <2>1
  <2>4. QED
    BY <2>2, <2>3, Zenon DEF Vars
<1>6. UserData \in Seq(Char)
  <2>1. /\ "u" \in Char /\ "s" \in Char /\ "e" \in Char /\ "r" \in Char /\ "-" \in Char
        /\ "d" \in Char /\ "a" \in Char /\ "t" \in Char
    BY CharAssumption
  <2>2. QED
    BY <2>1 DEF UserData
<1>7. TypeEnding["nvme"] \in Seq(Char)
  <2>1. "-" \in Char /\ "n" \in Char /\ "v" \in Char /\ "m" \in Char /\ "e" \in Char
    BY CharAssumption
  <2>2. QED
    BY <2>1 DEF TypeEnding
<1>8. TypeEnding["sata"] \in Seq(Char)
  <2>1. "-" \in Char /\ "s" \in Char /\ "a" \in Char /\ "t" \in Char
    BY CharAssumption
  <2>2. QED
    BY <2>1 DEF TypeEnding
<1>9. QED
  BY <1>1, <1>2, <1>3, <1>4, <1>5, <1>6, <1>7, <1>8

LEMMA Concat ==
    \A a, b \in Seq(Char) :
        /\ a \o b \in Seq(Char) /\ Len(a \o b) = Len(a) + Len(b)
        /\ \A i \in 1..Len(a) + Len(b) : (a \o b)[i] = IF i <= Len(a) THEN a[i] ELSE b[i - Len(a)]
  BY ConcatProperties

(* The character k before a name's last one.                               *)
End(name, k) == name[Len(name) - k]

EndsAs(a, p) ==
    \A n \in Nat : Len(p) = n =>
        /\ n > 0 => End(a \o p, 0) = p[n]
        /\ n > 2 => End(a \o p, 2) = p[n - 2]

LEMMA Ends == \A a, p \in Seq(Char) : EndsAs(a, p)
<1> SUFFICES ASSUME NEW a \in Seq(Char), NEW p \in Seq(Char)
             PROVE  /\ Len(p) > 0 => End(a \o p, 0) = p[Len(p)]
                    /\ Len(p) > 2 => End(a \o p, 2) = p[Len(p) - 2]
  BY DEF EndsAs
<1>1. Len(p) \in Nat
  OBVIOUS
<1>2. ASSUME Len(p) > 0
      PROVE  End(a \o p, 0) = p[Len(p)]
  <2>1. (a \o p)[Len(a \o p) - 0] = p[Len(p) - 0]
    BY <1>2, EndOfConcat
  <2>2. QED
    BY <1>1, <2>1 DEF End
<1>3. ASSUME Len(p) > 2
      PROVE  End(a \o p, 2) = p[Len(p) - 2]
  <2>1. (a \o p)[Len(a \o p) - 2] = p[Len(p) - 2]
    BY <1>3, EndOfConcat
  <2>2. QED
    BY <2>1 DEF End
<1>4. QED
  BY <1>2, <1>3

(* What tells the kinds of volumes apart: a pool, or the end of the name.  *)
LEMMA MainEnds ==
    ASSUME NEW vm \in Seq(Char)
    PROVE  End(vm \o Main, 0) = "e" /\ End(vm \o Main, 2) = "u"
<1>1. Main \in Seq(Char) /\ Len(Main) = 7 /\ Main[7] = "e" /\ Main[5] = "u"
  BY Literals DEF Main
<1>2. EndsAs(vm, Main)
  BY <1>1, Ends
<1>3. QED
  BY <1>1, <1>2 DEF EndsAs

LEMMA DiskEnds ==
    ASSUME NEW a \in Seq(Char)
    PROVE  /\ End(a \o TypeEnding["nvme"], 0) = "e" /\ End(a \o TypeEnding["nvme"], 2) = "v"
           /\ End(a \o TypeEnding["sata"], 0) = "a"
<1> DEFINE nvme == TypeEnding["nvme"]
<1> DEFINE sata == TypeEnding["sata"]
<1>1. /\ nvme \in Seq(Char) /\ Len(nvme) = 5 /\ nvme[5] = "e" /\ nvme[3] = "v"
      /\ sata \in Seq(Char) /\ Len(sata) = 5 /\ sata[5] = "a"
  BY Literals DEF TypeEnding
<1> HIDE DEF nvme, sata
<1>2. EndsAs(a, nvme) /\ EndsAs(a, sata)
  BY <1>1, Ends
<1>3. /\ End(a \o nvme, 0) = "e" /\ End(a \o nvme, 2) = "v"
      /\ End(a \o sata, 0) = "a"
  BY <1>1, <1>2 DEF EndsAs
<1>4. QED
  BY <1>3 DEF nvme, sata

LEMMA IsoEnds ==
    ASSUME NEW a \in Seq(Char)
    PROVE  End(a \o Iso, 0) = "o"
<1>1. Iso \in Seq(Char) /\ Len(Iso) = 4 /\ Iso[4] = "o"
  BY Literals DEF Iso
<1>2. EndsAs(a, Iso)
  BY <1>1, Ends
<1>3. QED
  BY <1>1, <1>2 DEF EndsAs

LEMMA VarsEnds ==
    ASSUME NEW vm \in Seq(Char)
    PROVE  End(vm \o Vars, 0) = "d"
<1>1. Vars \in Seq(Char) /\ Len(Vars) = 8 /\ Vars[8] = "d"
  BY Literals DEF Vars
<1>2. EndsAs(vm, Vars)
  BY <1>1, Ends
<1>3. QED
  BY <1>1, <1>2 DEF EndsAs

(* A word without a dash, behind a dash, starts at the last dash: names    *)
(* that are made of an id and such a word have one id if they are equal.   *)
Dashed(vm, word) == vm \o Dash \o word

LEMMA LastDash ==
    ASSUME NEW vm \in Seq(Char), NEW word \in Undashed
    PROVE  /\ Dashed(vm, word) \in Seq(Char)
           /\ Len(Dashed(vm, word)) = Len(vm) + 1 + Len(word)
           /\ End(Dashed(vm, word), Len(word)) = "-"
           /\ \A k \in Nat : k < Len(word) => End(Dashed(vm, word), k) # "-"
           /\ \A i \in 1..Len(vm) : Dashed(vm, word)[i] = vm[i]
           /\ \A i \in 1..Len(word) : Dashed(vm, word)[Len(vm) + 1 + i] = word[i]
<1> DEFINE m == Len(vm)
<1> DEFINE n == Len(word)
<1> DEFINE front == vm \o Dash
<1> DEFINE s == front \o word
<1>1. /\ word \in Seq(Char) /\ m \in Nat /\ n \in Nat
      /\ \A i \in 1..n : word[i] # "-"
  BY DEF Undashed
<1>2. Dash \in Seq(Char) /\ Len(Dash) = 1 /\ Dash[1] = "-"
  BY Literals DEF Dash
<1>3. /\ front \in Seq(Char) /\ Len(front) = m + 1
      /\ \A i \in 1..(m + 1) : front[i] = IF i <= m THEN vm[i] ELSE Dash[i - m]
  <2>1. /\ vm \o Dash \in Seq(Char) /\ Len(vm \o Dash) = Len(vm) + Len(Dash)
        /\ \A i \in 1..Len(vm) + Len(Dash) :
              (vm \o Dash)[i] = IF i <= Len(vm) THEN vm[i] ELSE Dash[i - Len(vm)]
    BY <1>2, Concat
  <2>2. QED
    BY <1>2, <2>1
<1> HIDE DEF front
<1>4. /\ s \in Seq(Char) /\ Len(s) = Len(front) + n
      /\ \A i \in 1..Len(front) + n : s[i] = IF i <= Len(front) THEN front[i] ELSE word[i - Len(front)]
  BY <1>1, <1>3, Concat
<1>5. Dashed(vm, word) = s
  BY DEF Dashed, front
<1> HIDE DEF s, m, n
<1>6. Len(s) = m + 1 + n
  BY <1>1, <1>3, <1>4
<1>7. ASSUME NEW i \in 1..m
      PROVE  s[i] = vm[i]
  BY <1>1, <1>3, <1>4, <1>7
<1>8. ASSUME NEW i \in 1..n
      PROVE  s[m + 1 + i] = word[i]
  <2>1. m + 1 + i \in 1..(m + 1 + n) /\ ~(m + 1 + i <= m + 1) /\ (m + 1 + i) - (m + 1) = i
    BY <1>1
  <2>2. QED
    BY <1>3, <1>4, <2>1
<1>9. s[m + 1] = "-"
  <2>1. m + 1 \in 1..(m + 1) /\ m + 1 \in 1..(m + 1 + n) /\ ~(m + 1 <= m) /\ (m + 1) - m = 1
    BY <1>1
  <2>2. QED
    BY <1>2, <1>3, <1>4, <2>1
<1>10. End(s, n) = "-"
  <2>1. (m + 1 + n) - n = m + 1
    BY <1>1
  <2>2. QED
    BY <1>6, <1>9, <2>1 DEF End
<1>11. ASSUME NEW k \in Nat, k < n
       PROVE  End(s, k) # "-"
  <2>1. n - k \in 1..n /\ (m + 1 + n) - k = m + 1 + (n - k)
    BY <1>1, <1>11
  <2>2. QED
    BY <1>1, <1>6, <1>8, <2>1 DEF End
<1>12. QED
  BY <1>4, <1>5, <1>6, <1>7, <1>8, <1>10, <1>11 DEF m, n

LEMMA DashedApart ==
    ASSUME NEW vm1 \in Seq(Char), NEW vm2 \in Seq(Char), NEW word1 \in Undashed, NEW word2 \in Undashed,
           Dashed(vm1, word1) = Dashed(vm2, word2)
    PROVE  vm1 = vm2 /\ word1 = word2
<1> DEFINE s == Dashed(vm1, word1)
<1>1. /\ Len(word1) \in Nat /\ Len(word2) \in Nat /\ Len(vm1) \in Nat /\ Len(vm2) \in Nat
      /\ word1 \in Seq(Char) /\ word2 \in Seq(Char)
  BY DEF Undashed
<1>2. /\ Len(s) = Len(vm1) + 1 + Len(word1) /\ End(s, Len(word1)) = "-"
      /\ \A k \in Nat : k < Len(word1) => End(s, k) # "-"
      /\ \A i \in 1..Len(vm1) : s[i] = vm1[i]
      /\ \A i \in 1..Len(word1) : s[Len(vm1) + 1 + i] = word1[i]
  BY LastDash
<1>3. s = Dashed(vm2, word2)
  OBVIOUS
<1> HIDE DEF s
<1>4. /\ Len(s) = Len(vm2) + 1 + Len(word2) /\ End(s, Len(word2)) = "-"
      /\ \A k \in Nat : k < Len(word2) => End(s, k) # "-"
      /\ \A i \in 1..Len(vm2) : s[i] = vm2[i]
      /\ \A i \in 1..Len(word2) : s[Len(vm2) + 1 + i] = word2[i]
  BY <1>3, LastDash
<1>5. Len(word1) = Len(word2)
  <2>1. ~(Len(word1) < Len(word2)) /\ ~(Len(word2) < Len(word1))
    BY <1>1, <1>2, <1>4
  <2>2. QED
    BY <1>1, <2>1
<1>6. Len(vm1) = Len(vm2)
  BY <1>1, <1>2, <1>4, <1>5
<1>7. vm1 = vm2
  BY <1>2, <1>4, <1>6, SeqEqual
<1>8. word1 = word2
  BY <1>1, <1>2, <1>4, <1>5, <1>6, SeqEqual
<1>9. QED
  BY <1>7, <1>8

(* A request's volumes: what they are found by, and what tells their kind. *)
IsVolume(k, types) ==
    k \in {"main", "iso", "cidata", "nvram"} \X {0} \/ k \in {"disk"} \X DOMAIN types

MainName(vm) == vm \o Main
DiskName(vm, idx, type) == Dashed(vm, Decimal(idx)) \o TypeEnding[type]
IsoName(vm, schematic) == Dashed(vm, schematic) \o Amd64 \o Iso
CidataName(vm) == UserData \o vm \o Iso
NvramName(vm) == vm \o Vars

FoundBy(k, v, vm, schematic, types, pool) ==
    /\ k[1] = "main" => v[1] = pool /\ v[2] = MainName(vm)
    /\ k[1] = "disk" => v[1] = pool /\ v[2] = DiskName(vm, k[2] - 1, types[k[2]])
    /\ k[1] = "iso" => v[1] = "isos" /\ v[2] = IsoName(vm, schematic)
    /\ k[1] = "cidata" => v[1] = "config" /\ v[2] = CidataName(vm)
    /\ k[1] = "nvram" => v[1] = "nvram" /\ v[2] = NvramName(vm)

LEMMA VolumeIs ==
    ASSUME NEW vm, NEW schematic, NEW types, NEW pool, NEW k, IsVolume(k, types)
    PROVE  FoundBy(k, Volumes(vm, schematic, types, pool)[k], vm, schematic, types, pool)
<1>1. k \in ({"main", "iso", "cidata", "nvram"} \X {0}) \cup ({"disk"} \X DOMAIN types)
  BY DEF IsVolume
<1>2. Volumes(vm, schematic, types, pool)[k] =
        CASE k[1] = "main" -> MainVolume(pool, vm)
          [] k[1] = "iso" -> IsoVolume(vm, schematic)
          [] k[1] = "cidata" -> CidataVolume(vm)
          [] k[1] = "nvram" -> NvramVolume(vm)
          [] OTHER -> DiskVolume(pool, vm, k[2] - 1, types[k[2]])
  BY <1>1 DEF Volumes
<1>3. /\ MainVolume(pool, vm) = <<pool, MainName(vm)>>
      /\ \A idx, type : DiskVolume(pool, vm, idx, type) = <<pool, DiskName(vm, idx, type)>>
      /\ IsoVolume(vm, schematic) = <<"isos", IsoName(vm, schematic)>>
      /\ CidataVolume(vm) = <<"config", CidataName(vm)>>
      /\ NvramVolume(vm) = <<"nvram", NvramName(vm)>>
  BY Zenon DEF MainVolume, MainName, Main, DiskVolume, DiskName, Dashed, IsoVolume, IsoName, Amd64,
               CidataVolume, CidataName, NvramVolume, NvramName, Vars
<1>4. QED
  BY <1>2, <1>3 DEF FoundBy

Tells(k, v, types) ==
    /\ k[1] = "main" => End(v[2], 0) = "e" /\ End(v[2], 2) = "u"
    /\ k[1] = "disk" /\ types[k[2]] = "nvme" => End(v[2], 0) = "e" /\ End(v[2], 2) = "v"
    /\ k[1] = "disk" /\ types[k[2]] # "nvme" => End(v[2], 0) = "a" /\ types[k[2]] = "sata"
    /\ k[1] \in {"iso", "cidata"} => End(v[2], 0) = "o"
    /\ k[1] = "iso" => v[1] = "isos"
    /\ k[1] = "cidata" => v[1] = "config"
    /\ k[1] = "nvram" => End(v[2], 0) = "d"

LEMMA EndsTell ==
    ASSUME NEW vm \in Seq(Char), NEW schematic \in Undashed, NEW types \in Seq({"nvme", "sata"}),
           NEW pool, NEW k, NEW v, IsVolume(k, types),
           \A i \in DOMAIN types : Decimal(i - 1) \in Undashed,
           FoundBy(k, v, vm, schematic, types, pool)
    PROVE  Tells(k, v, types)
<1>1. CASE k[1] = "main"
  BY <1>1, MainEnds DEF FoundBy, Tells, MainName
<1>2. CASE k[1] = "disk"
  <2>1. k[2] \in DOMAIN types
    BY <1>2 DEF IsVolume
  <2>2. types[k[2]] \in {"nvme", "sata"} /\ Decimal(k[2] - 1) \in Undashed
    BY <2>1
  <2>3. PICK a \in Seq(Char) : a = Dashed(vm, Decimal(k[2] - 1))
    BY <2>2, LastDash
  <2>4. v[2] = DiskName(vm, k[2] - 1, types[k[2]])
    BY <1>2 DEF FoundBy
  <2>5. v[2] = a \o TypeEnding[types[k[2]]]
    BY <2>3, <2>4, Zenon DEF DiskName
  <2>6. CASE types[k[2]] = "nvme"
    <3>1. v[2] = a \o TypeEnding["nvme"]
      BY <2>5, <2>6
    <3>2. End(v[2], 0) = "e" /\ End(v[2], 2) = "v"
      BY <3>1, DiskEnds
    <3>3. QED
      BY <1>2, <2>6, <3>2 DEF Tells
  <2>7. CASE types[k[2]] = "sata"
    <3>1. v[2] = a \o TypeEnding["sata"]
      BY <2>5, <2>7
    <3>2. End(v[2], 0) = "a"
      BY <3>1, DiskEnds
    <3>3. QED
      BY <1>2, <2>7, <3>2 DEF Tells
  <2>8. QED
    BY <2>2, <2>6, <2>7
<1>3. CASE k[1] = "iso"
  <2>1. PICK a \in Seq(Char) : a = Dashed(vm, schematic) \o Amd64
    BY LastDash, Literals, Concat
  <2>2. v[1] = "isos" /\ v[2] = a \o Iso
    BY <1>3, <2>1 DEF FoundBy, IsoName
  <2>3. QED
    BY <1>3, <2>2, IsoEnds DEF Tells
<1>4. CASE k[1] = "cidata"
  <2>1. PICK a \in Seq(Char) : a = UserData \o vm
    BY Literals, Concat
  <2>2. v[1] = "config" /\ v[2] = a \o Iso
    BY <1>4, <2>1 DEF FoundBy, CidataName
  <2>3. QED
    BY <1>4, <2>2, IsoEnds DEF Tells
<1>5. CASE k[1] = "nvram"
  BY <1>5, VarsEnds DEF FoundBy, Tells, NvramName
<1>6. QED
  BY <1>1, <1>2, <1>3, <1>4, <1>5 DEF IsVolume

CutRight(a, b, c) == a \o c = b \o c => a = b
CutLeft(a, b, c) == a \o b = a \o c => b = c

LEMMA Cut == \A a, b, c \in Seq(Char) : CutRight(a, b, c) /\ CutLeft(a, b, c)
  BY ConcatSimplifications DEF CutRight, CutLeft

(* Two volumes found alike are of one kind and one id.                     *)
LEMMA NamesTell ==
    ASSUME NEW vm1 \in Seq(Char), NEW schematic1 \in Undashed, NEW types1 \in Seq({"nvme", "sata"}),
           NEW vm2 \in Seq(Char), NEW schematic2 \in Undashed, NEW types2 \in Seq({"nvme", "sata"}),
           NEW pool1, NEW pool2, NEW k1, NEW k2, NEW v,
           IsVolume(k1, types1), FoundBy(k1, v, vm1, schematic1, types1, pool1),
           IsVolume(k2, types2), FoundBy(k2, v, vm2, schematic2, types2, pool2),
           \A i \in DOMAIN types1 : Decimal(i - 1) \in Undashed,
           \A i \in DOMAIN types2 : Decimal(i - 1) \in Undashed
    PROVE  /\ k1[1] = k2[1] /\ vm1 = vm2
           /\ k1[1] = "disk" => Decimal(k1[2] - 1) = Decimal(k2[2] - 1)
<1>1. Tells(k1, v, types1) /\ Tells(k2, v, types2)
  BY EndsTell
<1>2. /\ k1[1] \in {"main", "disk", "iso", "cidata", "nvram"}
      /\ k2[1] \in {"main", "disk", "iso", "cidata", "nvram"}
  BY DEF IsVolume
<1>3. k1[1] = k2[1]
  BY <1>1, <1>2 DEF Tells
<1>4. CASE k1[1] = "main"
  <2>1. MainName(vm1) = MainName(vm2)
    BY <1>3, <1>4 DEF FoundBy
  <2>2. CutRight(vm1, vm2, Main)
    BY Literals, Cut
  <2>3. QED
    BY <1>3, <1>4, <2>1, <2>2 DEF CutRight, MainName
<1>5. CASE k1[1] = "disk"
  <2>1. k1[2] \in DOMAIN types1 /\ k2[2] \in DOMAIN types2
    BY <1>3, <1>5 DEF IsVolume
  <2>2. types1[k1[2]] \in {"nvme", "sata"} /\ types2[k2[2]] \in {"nvme", "sata"}
    BY <2>1
  <2>3. types1[k1[2]] = types2[k2[2]]
    BY <1>1, <1>3, <1>5, <2>2 DEF Tells
  <2>4. PICK word1 \in Undashed, word2 \in Undashed :
           word1 = Decimal(k1[2] - 1) /\ word2 = Decimal(k2[2] - 1)
    BY <2>1
  <2>5. PICK ending \in Seq(Char) : ending = TypeEnding[types1[k1[2]]]
    BY <2>2, Literals
  <2>6. DiskName(vm1, k1[2] - 1, types1[k1[2]]) = DiskName(vm2, k2[2] - 1, types2[k2[2]])
    BY <1>3, <1>5 DEF FoundBy
  <2>7. PICK s1 \in Seq(Char), s2 \in Seq(Char) :
           s1 = Dashed(vm1, word1) /\ s2 = Dashed(vm2, word2)
    BY LastDash
  <2>8. DiskName(vm1, k1[2] - 1, types1[k1[2]]) = s1 \o ending
    BY <2>4, <2>5, <2>7, Zenon DEF DiskName
  <2>9. DiskName(vm2, k2[2] - 1, types2[k2[2]]) = s2 \o ending
    BY <2>3, <2>4, <2>5, <2>7, Zenon DEF DiskName
  <2>10. CutRight(s1, s2, ending)
    BY Cut
  <2>11. s1 = s2
    BY <2>6, <2>8, <2>9, <2>10, Zenon DEF CutRight
  <2>12. Dashed(vm1, word1) = Dashed(vm2, word2)
    BY <2>7, <2>11
  <2>13. vm1 = vm2 /\ word1 = word2
    BY <2>12, DashedApart
  <2>14. QED
    BY <1>3, <2>4, <2>13
<1>6. CASE k1[1] = "iso"
  <2>1. PICK s1 \in Seq(Char), s2 \in Seq(Char) :
           s1 = Dashed(vm1, schematic1) /\ s2 = Dashed(vm2, schematic2)
    BY LastDash
  <2>2. PICK t1 \in Seq(Char), t2 \in Seq(Char) : t1 = s1 \o Amd64 /\ t2 = s2 \o Amd64
    BY Literals, Concat
  <2>3. IsoName(vm1, schematic1) = IsoName(vm2, schematic2)
    BY <1>3, <1>6 DEF FoundBy
  <2>4. t1 \o Iso = t2 \o Iso
    BY <2>1, <2>2, <2>3, Zenon DEF IsoName
  <2>5. CutRight(t1, t2, Iso) /\ CutRight(s1, s2, Amd64)
    BY Literals, Cut
  <2>6. s1 = s2
    BY <2>2, <2>4, <2>5, Zenon DEF CutRight
  <2>7. vm1 = vm2
    BY <2>1, <2>6, DashedApart
  <2>8. QED
    BY <1>3, <1>6, <2>7
<1>7. CASE k1[1] = "cidata"
  <2>1. PICK t1 \in Seq(Char), t2 \in Seq(Char) : t1 = UserData \o vm1 /\ t2 = UserData \o vm2
    BY Literals, Concat
  <2>2. CidataName(vm1) = CidataName(vm2)
    BY <1>3, <1>7 DEF FoundBy
  <2>3. t1 \o Iso = t2 \o Iso
    BY <2>1, <2>2, Zenon DEF CidataName
  <2>4. CutRight(t1, t2, Iso) /\ CutLeft(UserData, vm1, vm2)
    BY Literals, Cut
  <2>5. vm1 = vm2
    BY <2>1, <2>3, <2>4, Zenon DEF CutRight, CutLeft
  <2>6. QED
    BY <1>3, <1>7, <2>5
<1>8. CASE k1[1] = "nvram"
  <2>1. NvramName(vm1) = NvramName(vm2)
    BY <1>3, <1>8 DEF FoundBy
  <2>2. CutRight(vm1, vm2, Vars)
    BY Literals, Cut
  <2>3. QED
    BY <1>3, <1>8, <2>1, <2>2 DEF CutRight, NvramName
<1>9. QED
  BY <1>2, <1>4, <1>5, <1>6, <1>7, <1>8

(* No two volumes, of a request or of two, are found by one pool and name. *)
THEOREM VolumesAreApart == Spec => []VolumeNamesApart
<1>1. Picked => VolumeNamesApart
  <2>1. SUFFICES ASSUME Picked, in.kind = "requests"
                 PROVE  NamesApart(in.x[1], in.x[2])
    BY DEF VolumeNamesApart
  <2>2. PICK r1 \in Requests, r2 \in Requests :
           (r1.id = r2.id => r1 = r2) /\ in.x[1] = r1 /\ in.x[2] = r2
    BY <2>1 DEF Picked
  <2>3. /\ r1.id \in Seq(Char) /\ r1.schematic \in Undashed /\ r1.types \in Seq({"nvme", "sata"})
        /\ r2.id \in Seq(Char) /\ r2.schematic \in Undashed /\ r2.types \in Seq({"nvme", "sata"})
        /\ \A i \in DOMAIN r1.types : Decimal(i - 1) \in Undashed
        /\ \A i \in DOMAIN r2.types : Decimal(i - 1) \in Undashed
    BY RequestsAssumption, DecimalAssumption
  <2> DEFINE v1 == Volumes(r1.id, r1.schematic, r1.types, r1.pool)
  <2> DEFINE v2 == Volumes(r2.id, r2.schematic, r2.types, r2.pool)
  <2>4. /\ \A k : k \in DOMAIN v1 <=> IsVolume(k, r1.types)
        /\ \A k : k \in DOMAIN v2 <=> IsVolume(k, r2.types)
    BY DEF Volumes, IsVolume
  <2>5. ASSUME NEW k1 \in DOMAIN v1, NEW k2 \in DOMAIN v2, v1[k1] = v2[k2]
        PROVE  r1.id = r2.id /\ k1 = k2
    <3>1. IsVolume(k1, r1.types) /\ IsVolume(k2, r2.types)
      BY <2>4
    <3>2. PICK v : v = v1[k1] /\ v = v2[k2]
      BY <2>5
    <3>3. /\ FoundBy(k1, v, r1.id, r1.schematic, r1.types, r1.pool)
          /\ FoundBy(k2, v, r2.id, r2.schematic, r2.types, r2.pool)
      BY <3>1, <3>2, VolumeIs
    <3>4. /\ k1[1] = k2[1] /\ r1.id = r2.id
          /\ k1[1] = "disk" => Decimal(k1[2] - 1) = Decimal(k2[2] - 1)
      BY <2>3, <3>1, <3>3, NamesTell
    <3>5. r1 = r2
      BY <2>2, <3>4
    <3>6. /\ k1 = <<k1[1], k1[2]>> /\ k2 = <<k2[1], k2[2]>>
          /\ k1[1] = "disk" => k1[2] \in DOMAIN r1.types /\ k2[2] \in DOMAIN r1.types
          /\ k1[1] # "disk" => k1[2] = 0 /\ k2[2] = 0
      BY <3>1, <3>4, <3>5 DEF IsVolume
    <3>7. k1[2] = k2[2]
      BY <3>4, <3>6, DecimalAssumption
    <3>8. QED
      BY <3>4, <3>6, <3>7
  <2>6. QED
    BY <2>2, <2>5 DEF NamesApart
<1>2. QED
  BY <1>1, AlwaysPicked, PTL
=============================================================================

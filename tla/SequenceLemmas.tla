---------------------------- MODULE SequenceLemmas ----------------------------
(***************************************************************************)
(* Lemmas on sequences, and on induction over the natural numbers, that    *)
(* the proofs about the components share.                                  *)
(***************************************************************************)
EXTENDS Integers, Sequences, SequencesExt, SequenceTheorems, WellFoundedInduction, TLAPS

\* A function on an initial segment is a sequence.
LEMMA FunctionIsSeq ==
  ASSUME NEW S, NEW n \in Nat, NEW f \in [1..n -> S]
  PROVE  f \in Seq(S) /\ Len(f) = n
<1>1. f \in Seq(S)
  BY SeqDef
<1> QED
  BY <1>1, LenProperties

\* Consecutive positions form a sequence.
LEMMA PositionsSeq ==
  ASSUME NEW base \in Nat, NEW n \in Nat
  PROVE  /\ [k \in 1..n |-> base + k] \in Seq(Nat \ {0})
         /\ Len([k \in 1..n |-> base + k]) = n
<1>1. [k \in 1..n |-> base + k] \in [1..n -> Nat \ {0}]
  OBVIOUS
<1> QED
  BY <1>1, FunctionIsSeq

\* A set of natural numbers has a least member.
LEMMA HasLeast ==
  ASSUME NEW S, S \subseteq Nat, S # {}
  PROVE  \E m \in S : \A i \in S : m <= i
<1>1. PICK m \in S : \A i \in S : ~(<<i, m>> \in OpToRel(<, Nat))
  BY NatLessThanWellFounded, WFMin
<1>2. ASSUME NEW i \in S PROVE m <= i
  <2>1. i \in Nat /\ m \in Nat
    OBVIOUS
  <2>2. ~(<<i, m>> \in OpToRel(<, Nat))
    BY <1>1
  <2>3. i < m => <<i, m>> \in OpToRel(<, Nat)
    BY <2>1 DEF OpToRel
  <2>4. ~(i < m)
    BY <2>2, <2>3
  <2> QED
    BY <2>1, <2>4
<1> QED
  BY <1>2

\* Induction, for the members of a set: a least number outside it would have a
\* predecessor inside.
LEMMA SetInduction ==
  ASSUME NEW S, 0 \in S, \A n \in Nat : n \in S => n + 1 \in S
  PROVE  \A n \in Nat : n \in S
<1> DEFINE Outside == Nat \ S
<1>1. SUFFICES ASSUME Outside # {} PROVE FALSE
  OBVIOUS
<1>2. PICK n \in Outside : \A i \in Outside : ~(<<i, n>> \in OpToRel(<, Nat))
  <2>1. Outside \subseteq Nat
    OBVIOUS
  <2> HIDE DEF Outside
  <2> QED
    BY <1>1, <2>1, NatLessThanWellFounded, WFMin
<1>3. n - 1 \in Nat /\ n - 1 \in Outside
  OBVIOUS
<1>4. <<n - 1, n>> \in OpToRel(<, Nat)
  BY <1>3 DEF OpToRel
<1> QED
  BY <1>2, <1>3, <1>4

\* A sequence is a prefix of what it is continued to.
LEMMA PrefixOfConcat ==
  ASSUME NEW S, NEW s \in Seq(S), NEW t \in Seq(S)
  PROVE  IsPrefix(s, s \o t)
<1>1. Len(s) \in Nat /\ Len(s) <= Len(s \o t)
  BY ConcatProperties, LenProperties
<1>2. CASE Len(s) = 0
  BY <1>1, <1>2, SubSeqEmpty DEF IsPrefix
<1>3. CASE Len(s) # 0
  <2>1. 1 \in 1..Len(s) /\ Len(s) \in 1..Len(s)
    BY <1>1, <1>3
  <2> QED
    BY <1>1, <2>1, SubSeqOfConcat1 DEF IsPrefix
<1> QED
  BY <1>2, <1>3

\* A function defined by recursion exists: each value a step from the one before.
Steps(g, T, base, step, n) ==
  /\ g \in [0..n -> T] /\ g[0] = base
  /\ \A i \in 1..n : g[i] = step[<<i, g[i - 1]>>]

LEMMA StepsExist ==
  ASSUME NEW T, NEW base \in T, NEW step \in [(Nat \ {0}) \X T -> T]
  PROVE  \A n \in Nat : \E g : Steps(g, T, base, step, n)
<1> DEFINE S == {n \in Nat : \E g : Steps(g, T, base, step, n)}
<1>1. 0 \in S
  <2> DEFINE g0 == [i \in 0..0 |-> base]
  <2>1. g0 \in [0..0 -> T] /\ g0[0] = base
    OBVIOUS
  <2>2. Steps(g0, T, base, step, 0)
    BY <2>1 DEF Steps
  <2> QED
    BY <2>2
<1>2. ASSUME NEW n \in Nat, n \in S
      PROVE  n + 1 \in S
  <2>1. PICK g : Steps(g, T, base, step, n)
    BY <1>2
  <2> DEFINE last == step[<<n + 1, g[n]>>]
             g1 == [i \in 0..(n + 1) |-> IF i = n + 1 THEN last ELSE g[i]]
  <2>2. last \in T
    <3>1. g[n] \in T /\ n + 1 \in Nat \ {0}
      BY <2>1 DEF Steps
    <3> QED
      BY <3>1
  <2>3. g1 \in [0..(n + 1) -> T] /\ g1[0] = base
    <3> HIDE DEF last
    <3> QED
      BY <2>1, <2>2 DEF Steps
  <2>4. ASSUME NEW i \in 1..(n + 1)
        PROVE  g1[i] = step[<<i, g1[i - 1]>>]
    <3>1. CASE i = n + 1
      <4>1. i - 1 = n /\ n # n + 1 /\ n \in 0..(n + 1)
        BY <3>1
      <4> QED
        BY <3>1, <4>1
    <3>2. CASE i # n + 1
      <4>1. i \in 1..n /\ i - 1 # n + 1 /\ i - 1 \in 0..(n + 1)
        BY <3>2
      <4>2. g1[i] = g[i] /\ g1[i - 1] = g[i - 1]
        BY <3>2, <4>1
      <4> HIDE DEF g1
      <4> QED
        BY <2>1, <4>1, <4>2 DEF Steps
    <3> QED
      BY <3>1, <3>2
  <2>5. Steps(g1, T, base, step, n + 1)
    <3> HIDE DEF g1
    <3> QED
      BY <2>3, <2>4 DEF Steps
  <2> QED
    BY <2>5
<1>3. \A n \in Nat : n \in S
  <2> HIDE DEF S
  <2> QED
    BY <1>1, <1>2, SetInduction
<1> QED
  BY <1>3

\* Concatenation of sequences of numbers.
LEMMA ConcatOfNumbers ==
  /\ <<>> \in Seq(Nat)
  /\ \A s, t \in Seq(Nat) : s \o t \in Seq(Nat)
  /\ \A s \in Seq(Nat) : s \o <<>> = s /\ <<>> \o s = s
<1>1. <<>> \in Seq(Nat)
  BY EmptySeq
<1>2. \A s, t \in Seq(Nat) : s \o t \in Seq(Nat)
  BY ConcatProperties
<1>3. \A s \in Seq(Nat) : s \o <<>> = s /\ <<>> \o s = s
  BY ConcatEmptySeq
<1> QED
  BY <1>1, <1>2, <1>3

LEMMA NumbersAssociate ==
  \A s, t, u \in Seq(Nat) : (s \o t) \o u = s \o (t \o u)
<1> DEFINE T == Nat
<1> HIDE DEF T
<1>1. \A s, t, u \in Seq(T) : (s \o t) \o u = s \o (t \o u)
  BY ConcatAssociative
<1> QED
  BY <1>1 DEF T

\* A sequence is its head and its tail.
LEMMA HeadAndTail ==
  ASSUME NEW s \in Seq(Nat), s # <<>>
  PROVE  <<Head(s)>> \in Seq(Nat) /\ Tail(s) \in Seq(Nat) /\ s = <<Head(s)>> \o Tail(s)
<1>1. /\ Head(s) \in Nat /\ Tail(s) \in Seq(Nat) /\ Len(Tail(s)) = Len(s) - 1
      /\ \A i \in 1..Len(Tail(s)) : Tail(s)[i] = s[i + 1]
      /\ Head(s) = s[1] /\ Len(s) \in Nat \ {0}
  BY HeadTailProperties, EmptySeq
<1> DEFINE first == <<Head(s)>>
           rest == Tail(s)
<1>2. first \in Seq(Nat) /\ Len(first) = 1 /\ first[1] = s[1]
  BY <1>1
<1>3. rest \in Seq(Nat) /\ Len(rest) = Len(s) - 1 /\ \A i \in 1..Len(rest) : rest[i] = s[i + 1]
  BY <1>1
<1> HIDE DEF first, rest
<1>4. /\ first \o rest \in Seq(Nat) /\ Len(first \o rest) = Len(first) + Len(rest)
      /\ \A i \in 1..(Len(first) + Len(rest)) :
           (first \o rest)[i] = IF i <= Len(first) THEN first[i] ELSE rest[i - Len(first)]
  <2> DEFINE T == Nat
  <2>1. first \in Seq(T) /\ rest \in Seq(T)
    BY <1>2, <1>3
  <2> HIDE DEF T
  <2>2. /\ first \o rest \in Seq(T) /\ Len(first \o rest) = Len(first) + Len(rest)
        /\ \A i \in 1..(Len(first) + Len(rest)) :
             (first \o rest)[i] = IF i <= Len(first) THEN first[i] ELSE rest[i - Len(first)]
    BY <2>1, ConcatProperties
  <2> QED
    BY <2>2 DEF T
<1>5. Len(first \o rest) = Len(s)
  BY <1>1, <1>2, <1>3, <1>4
<1>6. ASSUME NEW i \in 1..Len(s) PROVE (first \o rest)[i] = s[i]
  <2>1. CASE i = 1
    BY <1>1, <1>2, <1>3, <1>4, <2>1
  <2>2. CASE i # 1
    <3>1. i - 1 \in 1..Len(rest) /\ (i - 1) + 1 = i /\ ~(i <= 1)
      BY <1>1, <1>3, <2>2
    <3>2. (first \o rest)[i] = rest[i - 1]
      <4>1. i \in 1..(Len(first) + Len(rest)) /\ Len(first) = 1
        BY <1>1, <1>2, <1>3
      <4> QED
        BY <1>4, <3>1, <4>1
    <3> QED
      BY <1>3, <3>1, <3>2
  <2> QED
    BY <2>1, <2>2
<1>7. first \o rest = s
  BY <1>4, <1>5, <1>6, SeqEqual
<1> QED
  BY <1>2, <1>3, <1>7 DEF first, rest

\* Queues in a row, and what is handed on between them: the last is handed to the
\* one before,
LEMMA LastHandedOn ==
  ASSUME NEW p \in Seq(Nat), NEW r \in Seq(Nat), NEW q \in Seq(Nat)
  PROVE  p \o (r \o q) \o <<>> = p \o r \o q
<1>1. p \o (r \o q) \in Seq(Nat)
  <2>1. r \o q \in Seq(Nat)
    BY ConcatOfNumbers
  <2> QED
    BY <2>1, ConcatOfNumbers
<1>2. (p \o r) \o q = p \o (r \o q)
  BY NumbersAssociate
<1>3. (p \o (r \o q)) \o <<>> = p \o (r \o q)
  BY <1>1, ConcatOfNumbers
<1> QED
  BY <1>2, <1>3

\* the last but one is handed to the one before, which is empty,
LEMMA NextHandedOn ==
  ASSUME NEW p \in Seq(Nat), NEW r \in Seq(Nat), NEW q \in Seq(Nat)
  PROVE  p \o r \o <<>> \o q = p \o <<>> \o r \o q
<1>1. p \o r \in Seq(Nat)
  BY ConcatOfNumbers
<1>2. p \o r \o <<>> = p \o r /\ p \o <<>> = p
  BY <1>1, ConcatOfNumbers
<1> QED
  BY <1>2

\* the second is handed to the first,
LEMMA FirstTakes ==
  ASSUME NEW p \in Seq(Nat), NEW g \in Seq(Nat), NEW r \in Seq(Nat), NEW q \in Seq(Nat)
  PROVE  (p \o g) \o <<>> \o r \o q = p \o g \o r \o q
<1>1. p \o g \in Seq(Nat)
  BY ConcatOfNumbers
<1>2. (p \o g) \o <<>> = p \o g
  BY <1>1, ConcatOfNumbers
<1> QED
  BY <1>2

\* and the head of the last goes to the second.
LEMMA HeadHandedOn ==
  ASSUME NEW p \in Seq(Nat), NEW g \in Seq(Nat), NEW q \in Seq(Nat), q # <<>>
  PROVE  p \o Append(g, Head(q)) \o <<>> \o Tail(q) = p \o g \o <<>> \o q
<1> DEFINE pg == p \o g
<1>1. PICK h \in Seq(Nat), t \in Seq(Nat) : h = <<Head(q)>> /\ t = Tail(q) /\ q = h \o t
  BY HeadAndTail
<1>2. Append(g, Head(q)) = g \o h
  <2>1. Head(q) \in Nat
    BY HeadTailProperties
  <2> QED
    BY <1>1, <2>1, AppendIsConcat
<1>3. pg \in Seq(Nat)
  BY ConcatOfNumbers
<1>4. p \o (g \o h) = pg \o h
  <2>1. \A x \in Seq(Nat) : (p \o g) \o x = p \o (g \o x)
    BY NumbersAssociate
  <2>2. (p \o g) \o h = p \o (g \o h)
    BY <2>1
  <2> QED
    BY <2>2 DEF pg
<1>5. pg \o h \in Seq(Nat) /\ (pg \o h) \o <<>> = pg \o h
  <2> HIDE DEF pg
  <2>1. pg \o h \in Seq(Nat)
    BY <1>3, ConcatOfNumbers
  <2> QED
    BY <2>1, ConcatOfNumbers
<1>6. (pg \o h) \o t = pg \o (h \o t)
  <2> HIDE DEF pg
  <2>1. \A x, y \in Seq(Nat) : (pg \o x) \o y = pg \o (x \o y)
    BY <1>3, NumbersAssociate
  <2> QED
    BY <2>1
<1>7. p \o Append(g, Head(q)) \o <<>> \o Tail(q) = ((pg \o h) \o <<>>) \o t
  BY <1>1, <1>2, <1>4
<1>8. pg \o <<>> = pg
  <2> HIDE DEF pg
  <2> QED
    BY <1>3, ConcatOfNumbers
<1>9. p \o g \o <<>> \o q = pg \o (h \o t)
  BY <1>1, <1>8
<1> QED
  BY <1>5, <1>6, <1>7, <1>9

\* What FlattenSeq is built up from, one sequence after the other.
FlattenUpTo(s, g, n) ==
  g = [i \in 1..n |-> IF i = 1 THEN s[i] ELSE g[i - 1] \o s[i]]

LEMMA FlattenSteps ==
  ASSUME NEW T, NEW n \in Nat \ {0}, NEW s \in [1..n -> Seq(T)]
  PROVE  \E g : FlattenUpTo(s, g, n) /\ g \in [1..n -> Seq(T)]
<1> DEFINE step == [p \in (Nat \ {0}) \X Seq(T) |-> IF p[1] \in 1..n THEN p[2] \o s[p[1]] ELSE p[2]]
           base == <<>>
<1>1. base \in Seq(T)
  BY EmptySeq
<1>2. step \in [(Nat \ {0}) \X Seq(T) -> Seq(T)]
  <2>1. ASSUME NEW p \in (Nat \ {0}) \X Seq(T)
        PROVE  (IF p[1] \in 1..n THEN p[2] \o s[p[1]] ELSE p[2]) \in Seq(T)
    <3>1. p[2] \in Seq(T)
      OBVIOUS
    <3>2. CASE p[1] \in 1..n
      <4>1. s[p[1]] \in Seq(T)
        BY <3>2
      <4> QED
        BY <3>1, <3>2, <4>1, ConcatProperties
    <3> QED
      BY <3>1, <3>2
  <2> QED
    BY <2>1
<1>3. ASSUME NEW i \in 1..n, NEW v \in Seq(T)
      PROVE  step[<<i, v>>] = v \o s[i]
  <2>1. <<i, v>> \in (Nat \ {0}) \X Seq(T) /\ <<i, v>>[1] = i /\ <<i, v>>[2] = v
    OBVIOUS
  <2> QED
    BY <2>1
<1> HIDE DEF step, base
<1>4. PICK g : Steps(g, Seq(T), base, step, n)
  BY <1>1, <1>2, StepsExist
<1>5. /\ g \in [0..n -> Seq(T)] /\ g[0] = base
      /\ \A i \in 1..n : g[i] = step[<<i, g[i - 1]>>]
  BY <1>4 DEF Steps
<1> DEFINE f == [i \in 1..n |-> g[i]]
<1>6. ASSUME NEW i \in 1..n
      PROVE  f[i] = IF i = 1 THEN s[i] ELSE f[i - 1] \o s[i]
  <2>1. g[i - 1] \in Seq(T) /\ s[i] \in Seq(T)
    BY <1>5
  <2>2. g[i] = g[i - 1] \o s[i]
    BY <1>3, <1>5, <2>1
  <2>3. CASE i = 1
    <3>1. g[i - 1] = <<>>
      BY <1>5, <2>3 DEF base
    <3>2. <<>> \o s[i] = s[i]
      BY <2>1, ConcatEmptySeq
    <3> QED
      BY <2>2, <2>3, <3>1, <3>2
  <2>4. CASE i # 1
    <3>1. i - 1 \in 1..n
      BY <2>4
    <3> QED
      BY <2>2, <2>4, <3>1
  <2> QED
    BY <2>3, <2>4
<1>7. FlattenUpTo(s, f, n)
  <2>1. f = [i \in 1..n |-> f[i]]
    OBVIOUS
  <2> HIDE DEF f
  <2> QED
    BY <1>6, <2>1 DEF FlattenUpTo
<1>8. f \in [1..n -> Seq(T)]
  BY <1>5
<1> QED
  BY <1>7, <1>8

\* FlattenSeq concatenates.
Flattens(T, n, s, g) ==
  /\ g \in [0..n -> Seq(T)] /\ g[0] = <<>> /\ FlattenSeq(s) = g[n]
  /\ \A i \in 1..n : g[i] = g[i - 1] \o s[i]

LEMMA FlattenIs ==
  ASSUME NEW T, NEW n \in Nat, NEW s \in [1..n -> Seq(T)]
  PROVE  \E g : Flattens(T, n, s, g)
<1>1. s \in Seq(Seq(T)) /\ Len(s) = n
  BY FunctionIsSeq
<1>2. CASE n = 0
  <2> DEFINE g == [i \in 0..0 |-> <<>>]
  <2>1. FlattenSeq(s) = s /\ s = <<>>
    BY <1>1, <1>2, EmptySeq DEF FlattenSeq
  <2>2. g \in [0..n -> Seq(T)] /\ g[0] = <<>> /\ g[n] = <<>> /\ 1..n = {}
    BY <1>2, EmptySeq
  <2> HIDE DEF g
  <2>3. Flattens(T, n, s, g)
    BY <1>2, <2>1, <2>2 DEF Flattens
  <2> QED
    BY <2>3
<1>3. CASE n # 0
  <2> DEFINE Rule(g) == [i \in 1..n |-> IF i = 1 THEN s[i] ELSE g[i - 1] \o s[i]]
             flatten == CHOOSE g : g = Rule(g)
  <2>1. FlattenSeq(s) = flatten[n]
    BY <1>1, <1>3 DEF FlattenSeq
  <2>2. flatten = Rule(flatten)
    <3>1. PICK g : FlattenUpTo(s, g, n)
      BY <1>3, FlattenSteps
    <3>2. g = Rule(g)
      BY <3>1, Zenon DEF FlattenUpTo
    <3> QED
      BY <3>2
  <2> HIDE DEF flatten
  <2>3. \A i \in 1..n : flatten[i] = IF i = 1 THEN s[i] ELSE flatten[i - 1] \o s[i]
    BY <2>2
  <2>4. \A i \in 1..n : flatten[i] \in Seq(T)
    <3> DEFINE S == {i \in Nat : i \in 1..n => flatten[i] \in Seq(T)}
    <3>1. 0 \in S
      OBVIOUS
    <3>2. ASSUME NEW i \in Nat, i \in S PROVE i + 1 \in S
      <4>1. SUFFICES ASSUME i + 1 \in 1..n PROVE flatten[i + 1] \in Seq(T)
        OBVIOUS
      <4>2. s[i + 1] \in Seq(T)
        BY <4>1
      <4>3. CASE i = 0
        BY <2>3, <4>1, <4>2, <4>3
      <4>4. CASE i # 0
        <5>1. i \in 1..n /\ i + 1 # 1 /\ (i + 1) - 1 = i
          BY <4>1, <4>4
        <5>2. flatten[i] \in Seq(T)
          BY <3>2, <5>1
        <5>3. flatten[i + 1] = flatten[i] \o s[i + 1]
          BY <2>3, <4>1, <5>1
        <5> QED
          BY <4>2, <5>2, <5>3, ConcatProperties
      <4> QED
        BY <4>3, <4>4
    <3>3. \A i \in Nat : i \in S
      <4> HIDE DEF S
      <4> QED
        BY <3>1, <3>2, SetInduction
    <3> QED
      BY <3>3
  <2> DEFINE g == [i \in 0..n |-> IF i = 0 THEN <<>> ELSE flatten[i]]
  <2>5. g \in [0..n -> Seq(T)] /\ g[0] = <<>> /\ g[n] = flatten[n]
    BY <1>3, <2>4, EmptySeq
  <2>6. ASSUME NEW i \in 1..n PROVE g[i] = g[i - 1] \o s[i]
    <3>1. g[i] = flatten[i] /\ s[i] \in Seq(T)
      OBVIOUS
    <3>2. CASE i = 1
      <4>1. g[i - 1] = <<>>
        BY <3>2
      <4> HIDE DEF g
      <4> QED
        BY <2>3, <3>1, <3>2, <4>1, ConcatEmptySeq
    <3>3. CASE i # 1
      <4>1. g[i - 1] = flatten[i - 1]
        BY <3>3
      <4> HIDE DEF g
      <4> QED
        BY <2>3, <3>1, <3>3, <4>1
    <3> QED
      BY <3>2, <3>3
  <2> HIDE DEF g
  <2>7. Flattens(T, n, s, g)
    BY <2>1, <2>5, <2>6 DEF Flattens
  <2> QED
    BY <2>7
<1> QED
  BY <1>2, <1>3

\* The members of a sequence of sequences of one member at most, in a row: where
\* each of them comes from.
Chosen(s, n) == {k \in 1..n : s[k] # <<>>}
ComesFrom(s, n, t, f) ==
  /\ f \in [1..Len(t) -> Chosen(s, n)]
  /\ \A j \in 1..Len(t) : t[j] = s[f[j]][1]
  /\ \A i, j \in 1..Len(t) : f[i] = f[j] => i = j
  /\ \A k \in Chosen(s, n) : \E j \in 1..Len(t) : f[j] = k

LEMMA OneOrNone ==
  ASSUME NEW T, NEW u \in Seq(T), Len(u) <= 1, u # <<>>
  PROVE  Len(u) = 1
<1>1. Len(u) \in Nat /\ Len(u) # 0
  BY EmptySeq, LenProperties
<1> QED
  BY <1>1

LEMMA ChoiceExtended ==
  ASSUME NEW T, NEW n \in Nat, NEW s \in [1..n -> Seq(T)], \A k \in 1..n : Len(s[k]) <= 1,
         NEW m \in Nat, m + 1 \in 1..n, NEW v \in Seq(T), NEW f, ComesFrom(s, m, v, f)
  PROVE  \E h : ComesFrom(s, m + 1, v \o s[m + 1], h)
<1> DEFINE u == s[m + 1]
<1>1. u \in Seq(T) /\ Len(u) <= 1
  OBVIOUS
<1>2. CASE u = <<>>
  <2>1. v \o u = v
    BY <1>2, ConcatEmptySeq
  <2>2. Chosen(s, m + 1) = Chosen(s, m)
    BY <1>2 DEF Chosen
  <2>3. ComesFrom(s, m + 1, v, f)
    BY <2>2 DEF ComesFrom
  <2> QED
    BY <2>1, <2>3
<1>3. CASE u # <<>>
  <2> HIDE DEF u
  <2>1. Len(u) = 1
    BY <1>1, <1>3, OneOrNone
  <2> DEFINE L == Len(v)
             t == v \o u
             h == [j \in 1..(L + 1) |-> IF j = L + 1 THEN m + 1 ELSE f[j]]
  <2>2. L \in Nat
    BY LenProperties
  <2>3. Len(t) = L + 1 /\ (\A j \in 1..L : t[j] = v[j]) /\ t[L + 1] = u[1]
    <3>1. /\ Len(t) = L + 1
          /\ \A j \in 1..(L + 1) : t[j] = IF j <= L THEN v[j] ELSE u[j - L]
      <4>1. /\ Len(v \o u) = Len(v) + Len(u)
            /\ \A j \in 1..(Len(v) + Len(u)) : (v \o u)[j] = IF j <= Len(v) THEN v[j] ELSE u[j - Len(v)]
        BY <1>1, ConcatProperties
      <4> QED
        BY <2>1, <4>1
    <3> HIDE DEF L, t
    <3>2. L + 1 \in 1..(L + 1) /\ (L + 1) - L = 1 /\ ~(L + 1 <= L)
          /\ \A j \in 1..L : j \in 1..(L + 1) /\ j <= L
      BY <2>2
    <3>3. \A j \in 1..L : t[j] = v[j]
      BY <3>1, <3>2
    <3>4. t[L + 1] = u[1]
      BY <3>1, <3>2
    <3> QED
      BY <3>1, <3>3, <3>4
  <2>4. /\ f \in [1..L -> Chosen(s, m)]
        /\ \A j \in 1..L : v[j] = s[f[j]][1]
        /\ \A i, j \in 1..L : f[i] = f[j] => i = j
        /\ \A k \in Chosen(s, m) : \E j \in 1..L : f[j] = k
    BY DEF ComesFrom
  <2>5. Chosen(s, m + 1) = Chosen(s, m) \cup {m + 1} /\ \A k \in Chosen(s, m) : k # m + 1
    BY <1>3 DEF Chosen, u
  <2> HIDE DEF L, t
  <2>6. /\ h[L + 1] = m + 1 /\ \A j \in 1..L : h[j] = f[j]
        /\ h \in [1..(L + 1) -> Chosen(s, m + 1)]
        /\ \A j \in 1..(L + 1) : j \in 1..L \/ j = L + 1
        /\ L + 1 \in 1..(L + 1) /\ \A j \in 1..L : j \in 1..(L + 1)
    BY <2>2, <2>4, <2>5
  <2> HIDE DEF h
  <2>7. \A j \in 1..(L + 1) : t[j] = s[h[j]][1]
    BY <2>3, <2>4, <2>6 DEF u
  <2>8. \A i, j \in 1..(L + 1) : h[i] = h[j] => i = j
    <3>1. \A j \in 1..L : h[j] = f[j] /\ h[j] # m + 1
      BY <2>4, <2>5, <2>6
    <3> QED
      BY <2>4, <2>6, <3>1
  <2>9. \A k \in Chosen(s, m + 1) : \E j \in 1..(L + 1) : h[j] = k
    BY <2>4, <2>5, <2>6
  <2>10. ComesFrom(s, m + 1, t, h)
    BY <2>3, <2>6, <2>7, <2>8, <2>9 DEF ComesFrom
  <2> QED
    BY <2>10 DEF t, u
<1> QED
  BY <1>2, <1>3

LEMMA FlattenChoice ==
  ASSUME NEW T, NEW n \in Nat, NEW s \in [1..n -> Seq(T)], \A k \in 1..n : Len(s[k]) <= 1
  PROVE  FlattenSeq(s) \in Seq(T) /\ \E f : ComesFrom(s, n, FlattenSeq(s), f)
<1>0. PICK g : Flattens(T, n, s, g)
  BY FlattenIs
<1>1. /\ g \in [0..n -> Seq(T)] /\ g[0] = <<>> /\ FlattenSeq(s) = g[n]
      /\ \A i \in 1..n : g[i] = g[i - 1] \o s[i]
  BY <1>0 DEF Flattens
<1> DEFINE P(m) == m <= n => \E f : ComesFrom(s, m, g[m], f)
           S == {m \in Nat : P(m)}
<1>2. P(0)
  <2> DEFINE f0 == [j \in 1..0 |-> 0]
             v == g[0]
  <2>1. Len(v) = 0 /\ Chosen(s, 0) = {} /\ 1..0 = {}
    BY <1>1, EmptySeq DEF Chosen
  <2>2. f0 \in [1..0 -> {}]
    OBVIOUS
  <2> HIDE DEF f0, v
  <2>3. ComesFrom(s, 0, v, f0)
    BY <2>1, <2>2 DEF ComesFrom
  <2> QED
    BY <2>3 DEF v
<1>3. ASSUME NEW m \in Nat, P(m) PROVE P(m + 1)
  <2>1. SUFFICES ASSUME m + 1 <= n PROVE \E f : ComesFrom(s, m + 1, g[m + 1], f)
    OBVIOUS
  <2>2. m + 1 \in 1..n /\ m \in 0..n /\ (m + 1) - 1 = m
    BY <2>1
  <2>3. PICK f : ComesFrom(s, m, g[m], f)
    BY <1>3, <2>2
  <2>4. g[m + 1] = g[m] \o s[m + 1] /\ g[m] \in Seq(T)
    BY <1>1, <2>2
  <2> DEFINE v == g[m]
  <2>5. v \in Seq(T) /\ ComesFrom(s, m, v, f) /\ g[m + 1] = v \o s[m + 1]
    BY <2>3, <2>4
  <2> HIDE DEF v
  <2>6. \E h : ComesFrom(s, m + 1, v \o s[m + 1], h)
    BY <2>2, <2>5, ChoiceExtended
  <2> QED
    BY <2>5, <2>6
<1>4. \A m \in Nat : m \in S
  <2>1. 0 \in S /\ \A m \in Nat : m \in S => m + 1 \in S
    <3> HIDE DEF P
    <3> QED
      BY <1>2, <1>3
  <2> HIDE DEF S
  <2> QED
    BY <2>1, SetInduction
<1>5. g[n] \in Seq(T) /\ \E f : ComesFrom(s, n, g[n], f)
  BY <1>1, <1>4
<1> QED
  BY <1>1, <1>5
=============================================================================

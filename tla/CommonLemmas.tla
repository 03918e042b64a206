---------------------------- MODULE CommonLemmas ----------------------------
(* Facts about numbers and sequences that the proofs of several components    *)
(* use.                                                                       *)
EXTENDS Integers, Sequences, FiniteSets, SequencesExt, SequenceTheorems, FiniteSetTheorems, TLAPS

(* A set of natural numbers that is not empty has a smallest element.  (The   *)
(* intervals up to its elements are finite sets, and those are well-founded.) *)
LEMMA SmallestOf ==
  ASSUME NEW S \in SUBSET Nat, S # {}
  PROVE  \E m \in S : \A n \in S : m <= n
<1> DEFINE upto(n) == 1 .. n
           T == {upto(n) : n \in S}
<1>1. T \subseteq FiniteSubsetsOf(Nat)
  BY FS_Interval DEF FiniteSubsetsOf
<1>2. T # {}
  OBVIOUS
<1>3. IsWellFoundedOn(StrictSubsetOrdering(Nat), FiniteSubsetsOf(Nat))
  BY FS_StrictSubsetOrderingWellFounded
<1>4. PICK x \in T : \A y \in T : ~(<<y, x>> \in StrictSubsetOrdering(Nat))
  <2> HIDE DEF T
  <2> QED
    BY <1>1, <1>2, <1>3, WFMin
<1>5. PICK m \in S : x = upto(m)
  BY <1>4
<1>6. ASSUME NEW n \in S, n < m
      PROVE  FALSE
  <2>1. upto(n) \subseteq upto(m) /\ upto(n) # upto(m) /\ upto(m) \subseteq Nat
    <3>1. m \in upto(m) /\ m \notin upto(n)
      BY <1>6
    <3> QED
      BY <1>6, <3>1
  <2>2. <<upto(n), upto(m)>> \in StrictSubsetOrdering(Nat)
    BY <2>1 DEF StrictSubsetOrdering
  <2> QED
    BY <1>4, <1>5, <2>2
<1> QED
  BY <1>6

(* So has a set of numbers up to a bound a largest.                           *)
LEMMA LargestOf ==
  ASSUME NEW n \in Nat, NEW S \in SUBSET (0 .. n), S # {}
  PROVE  \E m \in S : \A k \in S : k <= m
<1> DEFINE T == {n - k : k \in S}
<1>1. T \in SUBSET Nat /\ T # {}
  <2>1. \A k \in S : n - k \in Nat
    OBVIOUS
  <2> QED
    BY <2>1
<1>2. PICK t \in T : \A u \in T : t <= u
  <2> HIDE DEF T
  <2> QED
    BY <1>1, SmallestOf
<1>3. PICK m \in S : t = n - m
  BY <1>2
<1>4. \A k \in S : n - m <= n - k
  BY <1>2, <1>3
<1> QED
  BY <1>4

(* Induction over the numbers up to n: a set that has 0 and, with each        *)
(* number, the next one.                                                      *)
LEMMA UpTo ==
  ASSUME NEW n \in Nat, NEW P, 0 \in P, \A i \in 1 .. n : i - 1 \in P => i \in P
  PROVE  \A i \in 0 .. n : i \in P
<1> DEFINE T == {i \in 0 .. n : i \notin P}
<1>1. SUFFICES ASSUME T # {} PROVE FALSE
  OBVIOUS
<1>2. T \in SUBSET Nat
  OBVIOUS
<1>3. PICK m \in T : \A i \in T : m <= i
  <2> HIDE DEF T
  <2> QED
    BY <1>1, <1>2, SmallestOf
<1>4. m \in 1 .. n /\ m - 1 \in 0 .. n /\ ~(m <= m - 1)
  BY <1>3
<1>5. m - 1 \in P
  BY <1>3, <1>4
<1> QED
  BY <1>3, <1>4, <1>5

(* A recursion over the numbers up to n has its function.                     *)
Runs(n, S, a, step) ==
  {v \in [0 .. n -> S] : v[0] = a /\ \A i \in 1 .. n : v[i] = step[i][v[i - 1]]}

LEMMA RunExists ==
  ASSUME NEW n \in Nat, NEW S, NEW a \in S, NEW step \in [1 .. n -> [S -> S]]
  PROVE  Runs(n, S, a, step) # {}
<1> DEFINE Run(v, k) == v[0] = a /\ \A i \in 1 .. k : v[i] = step[i][v[i - 1]]
           P == {k \in 0 .. n : \E v \in [0 .. k -> S] : Run(v, k)}
<1>1. 0 \in P
  <2> DEFINE v == [i \in 0 .. 0 |-> a]
  <2>1. v \in [0 .. 0 -> S] /\ Run(v, 0)
    OBVIOUS
  <2> HIDE DEF v, Run
  <2>2. \E u \in [0 .. 0 -> S] : Run(u, 0)
    BY <2>1
  <2> QED
    BY <2>2
<1>2. ASSUME NEW k \in 1 .. n, k - 1 \in P PROVE k \in P
  <2>1. PICK v \in [0 .. k - 1 -> S] : Run(v, k - 1)
    BY <1>2
  <2> DEFINE w == [i \in 0 .. k |-> IF i = k THEN step[k][v[k - 1]] ELSE v[i]]
  <2>2. w \in [0 .. k -> S]
    <3>1. v[k - 1] \in S /\ step[k] \in [S -> S]
      OBVIOUS
    <3>2. step[k][v[k - 1]] \in S
      BY <3>1
    <3>3. \A i \in 0 .. k : i # k => i \in 0 .. k - 1
      OBVIOUS
    <3> QED
      BY <3>2, <3>3
  <2>3. Run(w, k)
    <3>1. w[k] = step[k][v[k - 1]] /\ \A i \in 0 .. k - 1 : w[i] = v[i]
      OBVIOUS
    <3> HIDE DEF w
    <3>2. 0 \in 0 .. k - 1 /\ k - 1 \in 0 .. k - 1
      OBVIOUS
    <3>3. ASSUME NEW i \in 1 .. k, i # k PROVE w[i] = step[i][w[i - 1]]
      <4>1. i \in 1 .. k - 1 /\ i \in 0 .. k - 1 /\ i - 1 \in 0 .. k - 1
        BY <3>3
      <4> QED
        BY <2>1, <3>1, <4>1
    <3> QED
      BY <2>1, <3>1, <3>2, <3>3
  <2> HIDE DEF w, Run
  <2> QED
    BY <2>2, <2>3
<1>3. \A k \in 0 .. n : k \in P
  <2> HIDE DEF P
  <2> QED
    BY <1>1, <1>2, UpTo
<1>4. PICK v \in [0 .. n -> S] : Run(v, n)
  BY <1>3
<1> QED
  BY <1>4 DEF Runs

LEMMA FunctionIsSeq ==
  ASSUME NEW S, NEW n \in Nat, NEW f \in [1 .. n -> S]
  PROVE  f \in Seq(S) /\ Len(f) = n
<1>1. f \in Seq(S)
  BY SeqDef
<1>2. DOMAIN f = 1 .. n /\ DOMAIN f = 1 .. Len(f) /\ Len(f) \in Nat
  BY <1>1, LenProperties
<1> QED
  BY <1>1, <1>2

(* A part of a sequence, or all of it but nothing of it left.                 *)
LEMMA PartOfSeq ==
  ASSUME NEW S, NEW s \in Seq(S), NEW a \in Nat \ {0}, NEW b \in Int, b <= Len(s), a <= b + 1
  PROVE  /\ SubSeq(s, a, b) \in Seq(S) /\ Len(SubSeq(s, a, b)) = b + 1 - a
         /\ \A i \in 1 .. Len(SubSeq(s, a, b)) : SubSeq(s, a, b)[i] = s[a + i - 1]
<1>1. Len(s) \in Nat /\ \A i \in 1 .. Len(s) : s[i] \in S
  BY LenProperties, ElementOfSeq
<1>2. \A i \in a .. b : s[i] \in S
  BY <1>1
<1> QED
  BY <1>2, SubSeqProperties

(* The first of two sequences that are put together, and what follows it.     *)
LEMMA FirstPart ==
  ASSUME NEW S, NEW s \in Seq(S), NEW t \in Seq(S), NEW u, u = s \o t
  PROVE  /\ u \in Seq(S) /\ Len(u) = Len(s) + Len(t)
         /\ \A i \in 1 .. Len(s) : u[i] = s[i]
<1>1. Len(s) \in Nat /\ Len(t) \in Nat
  BY LenProperties
<1> QED
  BY <1>1, ConcatProperties

LEMMA SecondPart ==
  ASSUME NEW S, NEW s \in Seq(S), NEW t \in Seq(S), NEW u, u = s \o t
  PROVE  SubSeq(u, Len(s) + 1, Len(u)) = t
<1>1. u \in Seq(S) /\ Len(u) = Len(s) + Len(t) /\ Len(s) \in Nat /\ Len(t) \in Nat
  BY ConcatProperties, LenProperties
<1>2. \A i \in 1 .. Len(t) : u[Len(s) + i] = t[i]
  BY <1>1, ConcatProperties
<1> DEFINE v == SubSeq(u, Len(s) + 1, Len(u))
<1>3. /\ v \in Seq(S) /\ Len(v) = Len(t)
      /\ \A i \in 1 .. Len(t) : v[i] = u[Len(s) + i]
  <2>1. Len(s) + 1 \in Nat \ {0} /\ Len(u) \in Int /\ Len(s) + 1 <= Len(u) + 1
    BY <1>1
  <2> QED
    BY <1>1, <2>1, PartOfSeq
<1> HIDE DEF v
<1>4. \A i \in 1 .. Len(v) : v[i] = t[i]
  BY <1>2, <1>3
<1>5. v = t
  BY <1>3, <1>4, SeqEqual
<1> QED
  BY <1>5 DEF v

LEMMA SecondAndThird ==
  ASSUME NEW S, NEW x \in Seq(S), NEW y \in Seq(S), NEW t \in Seq(S), NEW u, u = (x \o y) \o t
  PROVE  SubSeq(u, Len(x) + 1, Len(u)) = y \o t
<1>1. (x \o y) \o t = x \o (y \o t)
  BY ConcatAssociative, SMTT(60)
<1>2. PICK c \in Seq(S) : c = y \o t
  BY ConcatProperties
<1>3. u = x \o c
  BY <1>1, <1>2
<1>4. SubSeq(u, Len(x) + 1, Len(u)) = c
  BY <1>3, SecondPart
<1> QED
  BY <1>2, <1>4

(* Taking from two sequences that are put together what is in the first.      *)
LEMMA TakenFromFirst ==
  ASSUME NEW S, NEW s \in Seq(S), NEW t \in Seq(S), NEW k \in 1 .. Len(s)
  PROVE  /\ SubSeq(s \o t, 1, k) = SubSeq(s, 1, k)
         /\ SubSeq(s \o t, k + 1, Len(s \o t)) = SubSeq(s, k + 1, Len(s)) \o t
<1>1. Len(s) \in Nat /\ Len(t) \in Nat /\ 1 \in 1 .. Len(s)
  BY LenProperties
<1>2. SubSeq(s \o t, 1, k) = SubSeq(s, 1, k)
  BY <1>1, SubSeqOfConcat1
<1> DEFINE a == SubSeq(s, 1, k)
           b == SubSeq(s, k + 1, Len(s))
<1>3. a \in Seq(S) /\ Len(a) = k
  <2>1. 1 \in Nat \ {0} /\ k \in Int /\ k <= Len(s) /\ 1 <= k + 1
    BY <1>1
  <2>2. Len(a) = k + 1 - 1 /\ a \in Seq(S)
    BY <2>1, PartOfSeq
  <2> QED
    BY <2>2
<1>4. b \in Seq(S)
  <2>1. k + 1 \in Nat \ {0} /\ Len(s) \in Int /\ Len(s) <= Len(s) /\ k + 1 <= Len(s) + 1
    BY <1>1
  <2> QED
    BY <2>1, PartOfSeq
<1>5. a \o b = s
  <2>1. 1 \in 1 .. Len(s) + 1 /\ k \in 1 - 1 .. Len(s) /\ Len(s) \in k .. Len(s)
    BY <1>1
  <2>2. a \o b = SubSeq(s, 1, Len(s))
    BY <2>1, ConcatAdjacentSubSeq
  <2> QED
    BY <2>2, SubSeqFull
<1> HIDE DEF a, b
<1>6. PICK u : u = s \o t
  OBVIOUS
<1>7. PICK x \in Seq(S), y \in Seq(S) : x = a /\ y = b
  BY <1>3, <1>4
<1>8. u = (x \o y) \o t
  BY <1>5, <1>6, <1>7
<1>9. SubSeq(u, Len(x) + 1, Len(u)) = y \o t
  BY <1>8, SecondAndThird, SMTT(60)
<1>10. SubSeq(s \o t, k + 1, Len(s \o t)) = b \o t
  BY <1>3, <1>6, <1>7, <1>9
<1> QED
  BY <1>2, <1>10 DEF b

(* The parts of a sequence over S are sequences over S.                       *)
LEMMA PartsOfSeq ==
  ASSUME NEW S, NEW T, NEW x \in Seq(T), NEW y \in Seq(T), NEW z \in Seq(S), z = x \o y
  PROVE  /\ x \in Seq(S) /\ y \in Seq(S)
<1>1. /\ Len(x) \in Nat /\ Len(y) \in Nat /\ Len(z) = Len(x) + Len(y)
      /\ \A i \in 1 .. Len(x) : z[i] = x[i]
      /\ \A i \in 1 .. Len(y) : z[Len(x) + i] = y[i]
  BY ConcatProperties, LenProperties
<1>2. \A i \in 1 .. Len(x) + Len(y) : z[i] \in S
  BY <1>1, ElementOfSeq
<1>3. ASSUME NEW i \in 1 .. Len(x) PROVE x[i] \in S
  <2>1. i \in 1 .. Len(x) + Len(y)
    BY <1>1
  <2> QED
    BY <1>1, <1>2, <2>1
<1>4. ASSUME NEW i \in 1 .. Len(y) PROVE y[i] \in S
  <2>1. Len(x) + i \in 1 .. Len(x) + Len(y)
    BY <1>1
  <2> QED
    BY <1>1, <1>2, <2>1
<1>5. x \in [1 .. Len(x) -> S]
  <2>1. x = [i \in 1 .. Len(x) |-> x[i]]
    BY LenProperties
  <2> QED
    BY <1>3, <2>1
<1>6. y \in [1 .. Len(y) -> S]
  <2>1. y = [i \in 1 .. Len(y) |-> y[i]]
    BY LenProperties
  <2> QED
    BY <1>4, <2>1
<1> QED
  BY <1>1, <1>5, <1>6, FunctionIsSeq

(* A sequence whose first k elements have moved to the end of another.        *)
LEMMA Rejoined ==
  ASSUME NEW S, NEW b \in Seq(S), NEW u \in Seq(S), NEW k \in 1 .. Len(u)
  PROVE  (b \o SubSeq(u, 1, k)) \o SubSeq(u, k + 1, Len(u)) = b \o u
<1>1. Len(u) \in Nat /\ k \in Nat /\ 1 \in 1 .. Len(u) + 1 /\ k \in 1 - 1 .. Len(u) /\ Len(u) \in k .. Len(u)
  BY LenProperties
<1>2. PICK x, y : x = SubSeq(u, 1, k) /\ y = SubSeq(u, k + 1, Len(u))
  OBVIOUS
<1>3. x \in Seq(S) /\ y \in Seq(S)
  BY <1>1, <1>2, PartOfSeq
<1>4. x \o y = u
  <2>1. SubSeq(u, 1, k) \o SubSeq(u, k + 1, Len(u)) = SubSeq(u, 1, Len(u))
    BY <1>1, ConcatAdjacentSubSeq
  <2> QED
    BY <1>2, <2>1, SubSeqFull
<1>5. (b \o x) \o y = b \o (x \o y)
  BY <1>3, ConcatAssociative, SMTT(60)
<1> QED
  BY <1>2, <1>4, <1>5

(* The first n of N sequences one after the other.                            *)
Flattened(N, S, seqs) ==
  {flat \in [0 .. N -> Seq(S)] :
     /\ flat[0] = <<>> /\ flat[N] = FlattenSeq(seqs)
     /\ \A i \in 1 .. N : flat[i] = flat[i - 1] \o seqs[i]}

LEMMA FlattenedUpto ==
  ASSUME NEW N \in Nat \ {0}, NEW S, NEW seqs \in [1 .. N -> Seq(S)]
  PROVE  Flattened(N, S, seqs) # {}
<1>1. seqs \in Seq(Seq(S)) /\ Len(seqs) = N /\ Len(seqs) # 0 /\ N \in Nat
  BY FunctionIsSeq
<1> DEFINE Is(v) == v = [i \in 1 .. Len(seqs) |-> IF i = 1 THEN seqs[i] ELSE v[i - 1] \o seqs[i]]
           v == CHOOSE v : Is(v)
<1>2. \E w : Is(w)
  <2> DEFINE step == [i \in 1 .. N |-> [x \in Seq(S) |-> x \o seqs[i]]]
  <2>1. step \in [1 .. N -> [Seq(S) -> Seq(S)]]
    <3>1. ASSUME NEW i \in 1 .. N, NEW x \in Seq(S) PROVE x \o seqs[i] \in Seq(S)
      <4>1. seqs[i] \in Seq(S)
        OBVIOUS
      <4> QED
        BY <4>1, FirstPart
    <3> QED
      BY <3>1
  <2> HIDE DEF step
  <2>2. PICK w : /\ w \in [0 .. N -> Seq(S)] /\ w[0] = <<>>
                 /\ \A i \in 1 .. N : w[i] = step[i][w[i - 1]]
    <3>1. <<>> \in Seq(S)
      OBVIOUS
    <3>2. Runs(N, Seq(S), <<>>, step) # {}
      BY <1>1, <2>1, <3>1, RunExists
    <3> QED
      BY <3>2 DEF Runs
  <2>3. ASSUME NEW i \in 1 .. N PROVE w[i] = w[i - 1] \o seqs[i]
    <3>1. i - 1 \in 0 .. N
      OBVIOUS
    <3>2. PICK x \in Seq(S) : x = w[i - 1]
      BY <2>2, <3>1
    <3>3. w[i] = step[i][x]
      BY <2>2, <3>2
    <3>4. step[i][x] = x \o seqs[i]
      BY DEF step
    <3> QED
      BY <3>2, <3>3, <3>4
  <2> DEFINE u == [i \in 1 .. N |-> w[i]]
             next == [i \in 1 .. N |-> IF i = 1 THEN seqs[i] ELSE u[i - 1] \o seqs[i]]
  <2>4. \A i \in 1 .. N : u[i] = w[i]
    OBVIOUS
  <2> HIDE DEF u
  <2>5. ASSUME NEW i \in 1 .. N PROVE u[i] = IF i = 1 THEN seqs[i] ELSE u[i - 1] \o seqs[i]
    <3>1. CASE i = 1
      <4>1. 1 \in 1 .. N /\ 1 - 1 = 0 /\ seqs[1] \in Seq(S)
        OBVIOUS
      <4>2. w[1] = <<>> \o seqs[1]
        BY <2>2, <2>3, <4>1
      <4>3. <<>> \o seqs[1] = seqs[1]
        BY <4>1, ConcatEmptySeq
      <4> QED
        BY <2>4, <3>1, <4>1, <4>2, <4>3
    <3>2. CASE i # 1
      <4>1. i - 1 \in 1 .. N
        BY <3>2
      <4> QED
        BY <2>3, <2>4, <3>2, <4>1
    <3> QED
      BY <3>1, <3>2
  <2>6. u = next
    <3>1. u = [i \in 1 .. N |-> u[i]]
      BY DEF u
    <3>2. \A i \in 1 .. N : u[i] = next[i]
      BY <2>5
    <3> QED
      BY <2>5, <3>1
  <2>7. Is(u)
    BY <1>1, <2>6
  <2> HIDE DEF Is
  <2> QED
    BY <2>7
<1>3. Is(v)
  <2> HIDE DEF Is
  <2> QED
    BY <1>2
<1>4. FlattenSeq(seqs) = v[N]
  BY <1>1, Zenon DEF FlattenSeq
<1> HIDE DEF v
<1>5. \A i \in 1 .. N : v[i] = IF i = 1 THEN seqs[i] ELSE v[i - 1] \o seqs[i]
  BY <1>1, <1>3
<1> HIDE DEF Is
<1> DEFINE flat == [i \in 0 .. N |-> IF i = 0 THEN <<>> ELSE v[i]]
<1>6. flat[0] = <<>> /\ \A i \in 1 .. N : flat[i] = v[i] /\ (i # 1 => flat[i - 1] = v[i - 1])
  <2>1. 0 \in 0 .. N /\ \A i \in 1 .. N : i \in 0 .. N /\ i # 0 /\ (i # 1 => i - 1 \in 0 .. N /\ i - 1 # 0)
    OBVIOUS
  <2> QED
    BY <2>1
<1>7. flat = [i \in 0 .. N |-> flat[i]]
  OBVIOUS
<1> HIDE DEF flat
<1>8. \A i \in 1 .. N : seqs[i] \in Seq(S)
  OBVIOUS
<1>9. ASSUME NEW i \in 1 .. N PROVE flat[i] = flat[i - 1] \o seqs[i]
  <2>1. CASE i = 1
    <3>1. 1 \in 1 .. N /\ 1 - 1 = 0 /\ <<>> \o seqs[1] = seqs[1]
      BY <1>8, ConcatEmptySeq
    <3>2. flat[1] = seqs[1]
      BY <1>5, <1>6, <3>1
    <3> QED
      BY <1>6, <2>1, <3>1, <3>2
  <2>2. CASE i # 1
    BY <1>5, <1>6, <2>2
  <2> QED
    BY <2>1, <2>2
<1> DEFINE P == {i \in 0 .. N : flat[i] \in Seq(S)}
<1>10. 0 \in P
  <2>1. <<>> \in Seq(S) /\ 0 \in 0 .. N
    OBVIOUS
  <2> QED
    BY <1>6, <2>1
<1>11. ASSUME NEW i \in 1 .. N, i - 1 \in P PROVE i \in P
  <2>1. PICK x \in Seq(S), y \in Seq(S) : x = flat[i - 1] /\ y = seqs[i]
    BY <1>8, <1>11
  <2>2. x \o y \in Seq(S) /\ i \in 0 .. N
    BY FirstPart
  <2>3. flat[i] = x \o y
    BY <1>9, <2>1
  <2> QED
    BY <2>2, <2>3
<1>12. \A i \in 0 .. N : i \in P
  <2> HIDE DEF P
  <2> QED
    BY <1>1, <1>10, <1>11, UpTo
<1>13. flat \in [0 .. N -> Seq(S)]
  BY <1>7, <1>12
<1>14. flat[N] = FlattenSeq(seqs)
  <2>1. N \in 1 .. N
    BY <1>1
  <2> QED
    BY <1>4, <1>6, <2>1
<1>15. flat \in Flattened(N, S, seqs)
  BY <1>6, <1>9, <1>13, <1>14 DEF Flattened
<1> QED
  BY <1>15
=============================================================================

------------------------------ MODULE FileProof ------------------------------
(* The query of the backend file answers as its documentation says.           *)
EXTENDS BackendFile, CommonLemmas

LEMMA LargestIn ==
  ASSUME NEW n \in Nat, NEW S \in SUBSET (0 .. n), S # {}
  PROVE  Max(S) \in S /\ \A k \in S : k <= Max(S)
<1>1. PICK m \in S : \A k \in S : k <= m
  BY LargestOf
<1>2. \A k \in S : m >= k
  BY <1>1
<1>3. Max(S) \in S /\ \A k \in S : Max(S) >= k
  BY <1>2 DEF Max
<1> QED
  BY <1>3

LEMMA SmallestIn ==
  ASSUME NEW S \in SUBSET Nat, S # {}
  PROVE  Min(S) \in S /\ \A k \in S : Min(S) <= k
<1>1. PICK m \in S : \A k \in S : m <= k
  BY SmallestOf
<1> QED
  BY <1>1 DEF Min

-----------------------------------------------------------------------------
(* Texts: sequences of whatever is in them.                                   *)
LEMMA SeqIn ==
  ASSUME NEW s, IsSeq(s), NEW S, Range(s) \subseteq S
  PROVE  s \in Seq(S)
<1>1. s \in Seq(Range(s))
  BY DEF IsSeq
<1>2. Len(s) \in Nat /\ DOMAIN s = 1 .. Len(s) /\ \A i \in 1 .. Len(s) : s[i] \in Range(s)
  BY <1>1, LenProperties DEF Range
<1>3. s = [i \in 1 .. Len(s) |-> s[i]]
  BY <1>1, <1>2, LenProperties
<1>4. s \in [1 .. Len(s) -> S]
  BY <1>2, <1>3
<1> QED
  BY <1>2, <1>4, FunctionIsSeq

LEMMA SeqOfSet ==
  ASSUME NEW S, NEW s \in Seq(S)
  PROVE  IsSeq(s) /\ Range(s) \subseteq S /\ Len(s) \in Nat /\ DOMAIN s = 1 .. Len(s)
<1>1. Len(s) \in Nat /\ DOMAIN s = 1 .. Len(s) /\ \A i \in 1 .. Len(s) : s[i] \in S
  BY LenProperties, ElementOfSeq
<1>2. \A i \in 1 .. Len(s) : s[i] \in Range(s)
  BY <1>1 DEF Range
<1>3. s = [i \in 1 .. Len(s) |-> s[i]]
  BY <1>1, LenProperties
<1>4. s \in [1 .. Len(s) -> Range(s)]
  BY <1>2, <1>3
<1>5. s \in Seq(Range(s))
  BY <1>1, <1>4, FunctionIsSeq
<1> QED
  BY <1>1, <1>5 DEF IsSeq, Range

LEMMA SeqIs ==
  ASSUME NEW s, IsSeq(s)
  PROVE  Len(s) \in Nat /\ DOMAIN s = 1 .. Len(s)
BY LenProperties DEF IsSeq

LEMMA SeqsJoin ==
  ASSUME NEW s, NEW t, IsSeq(s), IsSeq(t)
  PROVE  IsSeq(s \o t) /\ Len(s \o t) = Len(s) + Len(t)
<1>1. PICK S : S = Range(s) \cup Range(t)
  OBVIOUS
<1>2. s \in Seq(S) /\ t \in Seq(S)
  BY <1>1, SeqIn
<1>3. s \o t \in Seq(S) /\ Len(s \o t) = Len(s) + Len(t)
  BY <1>2, ConcatProperties
<1> QED
  BY <1>3, SeqOfSet

LEMMA SeqsAssociate ==
  ASSUME NEW s, NEW t, NEW u, IsSeq(s), IsSeq(t), IsSeq(u)
  PROVE  (s \o t) \o u = s \o (t \o u)
<1>1. PICK S : S = Range(s) \cup Range(t) \cup Range(u)
  OBVIOUS
<1>2. s \in Seq(S) /\ t \in Seq(S) /\ u \in Seq(S)
  BY <1>1, SeqIn
<1> QED
  BY <1>2, ConcatAssociative, SMTT(60)

LEMMA SanitizedIs ==
  ASSUME NEW s, IsSeq(s)
  PROVE  IsSeq(Sanitized(s)) /\ Len(Sanitized(s)) = Len(s)
<1>1. Len(s) \in Nat
  BY SeqIs
<1> DEFINE f == [i \in 1 .. Len(s) |-> IF s[i] = Slash THEN "_" ELSE s[i]]
<1>2. Sanitized(s) = f
  BY DEF Sanitized, ReplaceAll
<1>3. PICK S : S = {f[i] : i \in 1 .. Len(s)}
  OBVIOUS
<1>4. f \in [1 .. Len(s) -> S]
  BY <1>3
<1> HIDE DEF f
<1>5. f \in Seq(S) /\ Len(f) = Len(s)
  BY <1>1, <1>4, FunctionIsSeq
<1> QED
  BY <1>2, <1>5, SeqOfSet

(* Sequences one after the other: the last is added to those before it.       *)
AreSeqs(seqs) == IsSeq(seqs) /\ \A i \in DOMAIN seqs : IsSeq(seqs[i])

LEMMA FlattenedNone == FlattenSeq(<<>>) = <<>>
<1>1. Len(<<>>) = 0
  OBVIOUS
<1> QED
  BY <1>1 DEF FlattenSeq

LEMMA FlattenedStep ==
  ASSUME NEW seqs, AreSeqs(seqs), NEW n \in Nat \ {0}, n = Len(seqs)
  PROVE  /\ IsSeq(FlattenSeq(seqs))
         /\ FlattenSeq(seqs) = FlattenSeq(SubSeq(seqs, 1, n - 1)) \o seqs[n]
<1>1. PICK S : S = UNION {Range(seqs[i]) : i \in DOMAIN seqs}
  OBVIOUS
<1>2. DOMAIN seqs = 1 .. n
  BY SeqIs DEF AreSeqs
<1>3. ASSUME NEW i \in 1 .. n PROVE seqs[i] \in Seq(S)
  <2>1. IsSeq(seqs[i]) /\ Range(seqs[i]) \subseteq S
    BY <1>1, <1>2 DEF AreSeqs
  <2> QED
    BY <2>1, SeqIn
<1>4. seqs = [i \in 1 .. n |-> seqs[i]]
  <2>1. seqs \in Seq(Range(seqs))
    BY DEF AreSeqs, IsSeq
  <2> QED
    BY <1>2, <2>1, LenProperties
<1>5. seqs \in [1 .. n -> Seq(S)]
  BY <1>3, <1>4
<1>6. PICK flat \in Flattened(n, S, seqs) : TRUE
  BY <1>5, FlattenedUpto
<1>7. /\ flat \in [0 .. n -> Seq(S)] /\ flat[0] = <<>> /\ flat[n] = FlattenSeq(seqs)
      /\ \A i \in 1 .. n : flat[i] = flat[i - 1] \o seqs[i]
  BY <1>6 DEF Flattened
<1>8. n \in 1 .. n /\ n \in 0 .. n /\ n - 1 \in 0 .. n
  OBVIOUS
<1>9. IsSeq(FlattenSeq(seqs))
  BY <1>7, <1>8, SeqOfSet
<1>10. FlattenSeq(SubSeq(seqs, 1, n - 1)) = flat[n - 1]
  <2> DEFINE m == n - 1
             part == SubSeq(seqs, 1, m)
  <2>1. part \in Seq(Seq(S)) /\ Len(part) = m /\ \A i \in 1 .. m : part[i] = seqs[i]
    <3>1. seqs \in Seq(Seq(S)) /\ m \in Nat /\ m <= Len(seqs) /\ 1 <= m + 1
      BY <1>5, FunctionIsSeq
    <3>2. /\ part \in Seq(Seq(S)) /\ Len(part) = m + 1 - 1
          /\ \A i \in 1 .. Len(part) : part[i] = seqs[1 + i - 1]
      BY <3>1, PartOfSeq
    <3>3. Len(part) = m /\ \A i \in 1 .. m : 1 + i - 1 = i
      BY <3>1, <3>2
    <3> QED
      BY <3>2, <3>3
  <2>2. m \in Nat
    OBVIOUS
  <2> HIDE DEF part
  <2>3. CASE m = 0
    <3>1. part = <<>>
      BY <2>1, <2>3, EmptySeq
    <3> QED
      BY <1>7, <2>3, <3>1, FlattenedNone DEF part
  <2>4. CASE m # 0
    <3>1. part \in [1 .. m -> Seq(S)] /\ m \in Nat \ {0}
      BY <2>1, <2>2, <2>4, LenProperties, ElementOfSeq
    <3>2. PICK f \in Flattened(m, S, part) : TRUE
      BY <3>1, FlattenedUpto
    <3>3. /\ f \in [0 .. m -> Seq(S)] /\ f[0] = <<>> /\ f[m] = FlattenSeq(part)
          /\ \A i \in 1 .. m : f[i] = f[i - 1] \o part[i]
      BY <3>2 DEF Flattened
    <3> DEFINE P == {i \in 0 .. m : f[i] = flat[i]}
    <3>4. 0 \in P
      BY <1>7, <2>2, <3>3
    <3>5. ASSUME NEW i \in 1 .. m, i - 1 \in P PROVE i \in P
      <4>1. i \in 1 .. n /\ i \in 0 .. m
        OBVIOUS
      <4>2. flat[i] = flat[i - 1] \o seqs[i] /\ f[i] = f[i - 1] \o part[i] /\ part[i] = seqs[i]
        BY <1>7, <2>1, <3>3, <4>1
      <4> QED
        BY <3>5, <4>1, <4>2
    <3>6. m \in P
      <4> HIDE DEF P, m
      <4>1. \A i \in 0 .. m : i \in P
        BY <2>2, <3>4, <3>5, UpTo
      <4> QED
        BY <2>2, <4>1
    <3> QED
      BY <3>3, <3>6 DEF part
  <2> QED
    BY <2>3, <2>4
<1> QED
  BY <1>7, <1>8, <1>9, <1>10

-----------------------------------------------------------------------------
(* The endpoint: what the templates before have left of it does not matter.   *)
Endpoints(request) == {request.endpoint, Trimmed(request.endpoint)}

LEMMA Between ==
  ASSUME NEW s, IsSeq(s), NEW a \in Nat \ {0}, NEW b \in Int, b <= Len(s), a <= b + 1
  PROVE  /\ IsSeq(SubSeq(s, a, b)) /\ Len(SubSeq(s, a, b)) = b + 1 - a
         /\ \A i \in 1 .. b + 1 - a : SubSeq(s, a, b)[i] = s[a + i - 1]
<1>1. s \in Seq(Range(s))
  BY DEF IsSeq
<1>2. PICK t : t = SubSeq(s, a, b)
  OBVIOUS
<1>3. t \in Seq(Range(s)) /\ Len(t) = b + 1 - a /\ \A i \in 1 .. Len(t) : t[i] = s[a + i - 1]
  BY <1>1, <1>2, PartOfSeq
<1>4. IsSeq(t)
  BY <1>3, SeqOfSet
<1> QED
  BY <1>2, <1>3, <1>4

LEMMA SameSeq ==
  ASSUME NEW s, NEW t, IsSeq(s), IsSeq(t), Len(s) = Len(t), \A i \in 1 .. Len(s) : s[i] = t[i]
  PROVE  s = t
<1>1. Len(s) \in Nat /\ DOMAIN s = 1 .. Len(s) /\ DOMAIN t = 1 .. Len(s)
  BY SeqIs
<1>2. s = [i \in DOMAIN s |-> s[i]] /\ t = [i \in DOMAIN t |-> t[i]]
  BY LenProperties DEF IsSeq
<1> QED
  BY <1>1, <1>2

LEMMA EndpointIs ==
  ASSUME NEW request, IsEndpoint(request.endpoint), NEW e \in Endpoints(request)
  PROVE  /\ Trimmed(e) = Trimmed(request.endpoint) /\ e # <<>>
         /\ Tail(Trimmed(e)) = Bare(request.endpoint) /\ IsSeq(Bare(request.endpoint))
<1> DEFINE r == request.endpoint
           n == Len(r)
           T == Trimmed(r)
           m == Len(T)
<1>1. IsSeq(r) /\ n \in Nat /\ n >= 1 /\ DOMAIN r = 1 .. n /\ r[1] = Slash
  <2>1. IsSeq(r) /\ r # <<>> /\ r[1] = Slash
    BY DEF IsEndpoint
  <2>2. n \in Nat /\ DOMAIN r = 1 .. n
    BY <2>1, SeqIs
  <2>3. n # 0
    BY <2>1, EmptySeq DEF IsSeq
  <2> QED
    BY <2>1, <2>2, <2>3
<1>2. n > 1 => r[2] # Slash /\ (r[n] = Slash => r[n - 1] # Slash)
  BY DEF IsEndpoint
<1>3. /\ IsSeq(T) /\ m \in 1 .. n /\ \A i \in 1 .. m : T[i] = r[i]
      /\ m > 1 => r[2] # Slash /\ r[m] # Slash
      /\ m < n => m = n - 1 /\ r[n] = Slash /\ m > 1
      /\ n > 1 => m > 1
  <2>1. CASE n >= 2 /\ r[n] = Slash
    <3>1. n # 2
      BY <1>2, <2>1
    <3>0. n \in Nat /\ n >= 2
      BY <1>1, <2>1
    <3>2. T = SubSeq(r, 1, n - 1) /\ n > 2 /\ n - 1 \in Int /\ n - 1 <= n
      <4>1. T = SubSeq(r, 1, n - 1)
        BY <2>1 DEF Trimmed
      <4> HIDE DEF n
      <4> QED
        BY <3>0, <3>1, <4>1
    <3>3. IsSeq(T) /\ m = n - 1 + 1 - 1 /\ \A i \in 1 .. n - 1 + 1 - 1 : T[i] = r[1 + i - 1]
      BY <1>1, <3>2, Between
    <3>4. m = n - 1 /\ \A i \in 1 .. m : 1 + i - 1 = i
      BY <1>1, <3>3
    <3> HIDE DEF T, m, n
    <3> QED
      BY <1>1, <1>2, <2>1, <3>2, <3>3, <3>4
  <2>2. CASE ~(n >= 2 /\ r[n] = Slash)
    <3>1. T = r
      BY <2>2 DEF Trimmed
    <3> QED
      BY <1>1, <1>2, <2>2, <3>1
  <2> QED
    BY <2>1, <2>2
<1> HIDE DEF T, m, n, r
<1>4. Trimmed(T) = T
  <2>1. ~(m >= 2 /\ T[m] = Slash)
    BY <1>1, <1>3
  <2> QED
    BY <2>1 DEF Trimmed, m
<1>5. e \in {r, T} /\ Trimmed(e) = T
  BY <1>4 DEF Endpoints, r, T
<1>6. e # <<>>
  <2>1. Len(r) # 0 /\ Len(T) # 0
    <3>1. m # 0 /\ n # 0
      BY <1>1, <1>3
    <3> QED
      BY <3>1 DEF m, n
  <2>2. r # <<>> /\ T # <<>>
    <3> HIDE DEF r, T
    <3>1. Len(<<>>) = 0
      OBVIOUS
    <3> QED
      BY <2>1, <3>1, Zenon
  <2> QED
    BY <1>5, <2>2
<1>7. IsSeq(Tail(T)) /\ Len(Tail(T)) = m - 1 /\ \A i \in 1 .. m - 1 : Tail(T)[i] = r[i + 1]
  <2>1. T \in Seq(Range(T)) /\ T # <<>>
    <3>1. Len(T) # 0
      BY <1>1, <1>3 DEF m
    <3> QED
      BY <1>3, <3>1 DEF IsSeq
  <2>2. Tail(T) \in Seq(Range(T)) /\ Len(Tail(T)) = m - 1 /\ \A i \in 1 .. m - 1 : Tail(T)[i] = T[i + 1]
    BY <2>1, HeadTailProperties DEF m
  <2>3. \A i \in 1 .. m - 1 : i + 1 \in 1 .. m
    BY <1>1, <1>3
  <2> QED
    BY <1>3, <2>2, <2>3, SeqOfSet
<1> DEFINE inner == {i \in DOMAIN r : r[i] # Slash}
<1>8. CASE m = 1
  <2>1. n = 1 /\ inner = {}
    BY <1>1, <1>3, <1>8
  <2>2. Bare(r) = <<>>
    BY <2>1 DEF Bare
  <2>3. Tail(T) = <<>>
    <3>1. PICK t : t = Tail(T)
      OBVIOUS
    <3>2. t \in Seq(Range(t)) /\ Len(t) = 0
      BY <1>7, <1>8, <3>1 DEF IsSeq
    <3>3. t = <<>>
      BY <3>2, EmptySeq
    <3> QED
      BY <3>1, <3>3
  <2> QED
    BY <1>5, <1>6, <1>7, <2>2, <2>3 DEF r, T
<1>9. CASE m > 1
  <2>1. inner \in SUBSET (0 .. n) /\ inner # {} /\ 2 \in inner /\ m \in inner /\ inner \in SUBSET Nat
    BY <1>1, <1>3, <1>9
  <2>2. \A i \in inner : 2 <= i /\ i <= m
    <3>1. \A i \in 1 .. n : i # 1 => 2 <= i
      BY <1>1
    <3>2. \A i \in 1 .. n : i > m => i = n /\ m < n
      BY <1>1, <1>3
    <3>3. \A i \in inner : i # 1 /\ i \in 1 .. n /\ ~(m < n /\ i = n)
      BY <1>1, <1>3
    <3>4. \A i \in 1 .. n : ~(i > m) => i <= m
      BY <1>1, <1>3
    <3> HIDE DEF inner
    <3> QED
      BY <3>1, <3>2, <3>3, <3>4
  <2> HIDE DEF inner
  <2>3. Min(inner) = 2
    <3>1. Min(inner) \in inner /\ \A k \in inner : Min(inner) <= k
      BY <2>1, SmallestIn
    <3>2. PICK a : a = Min(inner)
      OBVIOUS
    <3>3. a \in Nat /\ a <= 2 /\ 2 <= a
      BY <2>1, <2>2, <3>1, <3>2
    <3> QED
      BY <3>2, <3>3
  <2>4. Max(inner) = m
    <3>1. Max(inner) \in inner /\ \A k \in inner : k <= Max(inner)
      BY <1>1, <2>1, LargestIn
    <3>2. PICK a : a = Max(inner)
      OBVIOUS
    <3>3. a \in Nat /\ a <= m /\ m <= a /\ m \in Nat
      BY <1>1, <1>3, <2>1, <2>2, <3>1, <3>2
    <3> QED
      BY <3>2, <3>3
  <2>5. Bare(r) = SubSeq(r, 2, m)
    BY <2>1, <2>3, <2>4 DEF Bare, inner
  <2>6. /\ IsSeq(SubSeq(r, 2, m)) /\ Len(SubSeq(r, 2, m)) = m - 1
        /\ \A i \in 1 .. m - 1 : SubSeq(r, 2, m)[i] = r[i + 1]
    <3>1. 2 \in Nat \ {0} /\ m \in Int /\ m <= Len(r) /\ 2 <= m + 1 /\ m + 1 - 2 = m - 1
      <4>1. m \in 1 .. n /\ n \in Nat
        BY <1>1, <1>3
      <4>2. m \in Int /\ m <= n /\ 2 <= m + 1 /\ m + 1 - 2 = m - 1
        BY <1>9, <4>1
      <4> QED
        BY <4>2 DEF n
    <3>2. \A i \in 1 .. m - 1 : 2 + i - 1 = i + 1
      OBVIOUS
    <3>3. /\ IsSeq(SubSeq(r, 2, m)) /\ Len(SubSeq(r, 2, m)) = m + 1 - 2
          /\ \A i \in 1 .. m + 1 - 2 : SubSeq(r, 2, m)[i] = r[2 + i - 1]
      BY <1>1, <3>1, Between
    <3> QED
      BY <3>1, <3>2, <3>3
  <2>7. Tail(T) = SubSeq(r, 2, m)
    <3>1. PICK a, b : a = Tail(T) /\ b = SubSeq(r, 2, m)
      OBVIOUS
    <3>2. IsSeq(a) /\ IsSeq(b) /\ Len(a) = Len(b) /\ \A i \in 1 .. Len(a) : a[i] = b[i]
      BY <1>7, <2>6, <3>1
    <3> QED
      BY <3>1, <3>2, SameSeq
  <2> QED
    BY <1>5, <1>6, <1>7, <2>5, <2>7 DEF r, T
<1> QED
  BY <1>1, <1>3, <1>8, <1>9

(* The value of a variable is the one its documentation has.                  *)
LEMMA NamedOnce ==
  ASSUME NEW pairs, IsList(pairs), NEW name
  PROVE  \/ Named(pairs, name) = {}
         \/ \E i \in 1 .. Len(pairs) : Named(pairs, name) = {i} /\ Min({i}) = i /\ IsSeq(pairs[i].value)
<1>1. Len(pairs) \in Nat /\ DOMAIN pairs = 1 .. Len(pairs)
  BY SeqIs DEF IsList
<1>2. SUFFICES ASSUME Named(pairs, name) # {}
               PROVE  \E i \in 1 .. Len(pairs) :
                        Named(pairs, name) = {i} /\ Min({i}) = i /\ IsSeq(pairs[i].value)
  OBVIOUS
<1>3. PICK i \in Named(pairs, name) : TRUE
  BY <1>2
<1>4. i \in 1 .. Len(pairs) /\ IsSeq(pairs[i].value)
  BY <1>1 DEF IsList, Named
<1>5. Named(pairs, name) = {i}
  BY DEF IsList, Named
<1>6. Min({i}) \in {i}
  <2>1. {i} \in SUBSET Nat /\ {i} # {}
    BY <1>1, <1>4
  <2> QED
    BY <2>1, SmallestIn
<1> QED
  BY <1>4, <1>5, <1>6

Kinds == {"endpoint", "cookie", "header", "open"}

LEMMA ValueIs ==
  ASSUME NEW request, PlainRequest(request), NEW e \in Endpoints(request),
         NEW part, part.kind \in Kinds
  PROVE  \/ Value(part, e, request) = {} /\ DocValues(part, request) = {}
         \/ \E v : /\ IsSeq(v) /\ Value(part, e, request) = {v}
                    /\ DocValues(part, request) = {Sanitized(v)}
<1>1. CASE part.kind = "endpoint"
  <2>1. e # <<>> /\ Tail(Trimmed(e)) = Bare(request.endpoint) /\ IsSeq(Bare(request.endpoint))
    BY EndpointIs DEF PlainRequest
  <2>2. Value(part, e, request) = {Bare(request.endpoint)}
    BY <1>1, <2>1 DEF Value
  <2>3. DocValues(part, request) = {Sanitized(Bare(request.endpoint))}
    BY <1>1 DEF DocValues
  <2> QED
    BY <2>1, <2>2, <2>3
<1>2. CASE part.kind = "cookie"
  <2> DEFINE pairs == request.cookies
             name == part.text
  <2>1. IsList(pairs) /\ (pairs # <<>> => Last(pairs).value # <<>>)
    BY DEF PlainRequest
  <2>2. Value(part, e, request) = Cookie(pairs, name)
    BY <1>2 DEF Value
  <2>3. DocValues(part, request) = {Sanitized(pairs[i].value) : i \in Named(pairs, name)}
    BY <1>2 DEF DocValues
  <2> HIDE DEF pairs, name
  <2>4. CASE Named(pairs, name) = {}
    <3>1. Cookie(pairs, name) = {}
      BY <2>4 DEF Cookie
    <3> QED
      BY <2>2, <2>3, <2>4, <3>1
  <2>5. CASE Named(pairs, name) # {}
    <3>1. PICK i \in 1 .. Len(pairs) : Named(pairs, name) = {i} /\ Min({i}) = i /\ IsSeq(pairs[i].value)
      BY <2>1, <2>5, NamedOnce
    <3>2. ~(pairs[i].value = <<>> /\ i = Len(pairs))
      <4>1. pairs # <<>>
        <5>1. Len(pairs) # 0
          <6>1. Len(pairs) \in Nat
            BY <2>1, SeqIs DEF IsList
          <6> QED
            BY <6>1
        <5> QED
          BY <5>1
      <4> QED
        BY <2>1, <4>1 DEF Last
    <3>3. Cookie(pairs, name) = {pairs[i].value}
      BY <3>1, <3>2 DEF Cookie
    <3> QED
      BY <2>2, <2>3, <3>1, <3>3
  <2> QED
    BY <2>4, <2>5
<1>3. CASE part.kind = "header"
  <2> DEFINE pairs == request.headers
             name == part.text
  <2>1. IsList(pairs)
    BY DEF PlainRequest
  <2>2. Value(part, e, request) = Header(pairs, name)
    BY <1>3 DEF Value
  <2>3. DocValues(part, request) = {Sanitized(pairs[i].value) : i \in Named(pairs, name)}
    BY <1>3 DEF DocValues
  <2> HIDE DEF pairs, name
  <2>4. CASE Named(pairs, name) = {}
    <3>1. Header(pairs, name) = {}
      BY <2>4 DEF Header
    <3> QED
      BY <2>2, <2>3, <2>4, <3>1
  <2>5. CASE Named(pairs, name) # {}
    <3>1. PICK i \in 1 .. Len(pairs) : Named(pairs, name) = {i} /\ Min({i}) = i /\ IsSeq(pairs[i].value)
      BY <2>1, <2>5, NamedOnce
    <3>3. Header(pairs, name) = {pairs[i].value}
      BY <3>1 DEF Header
    <3> QED
      BY <2>2, <2>3, <3>1, <3>3
  <2> QED
    BY <2>4, <2>5
<1>4. CASE part.kind = "open"
  BY <1>4 DEF Value, DocValues
<1> QED
  BY <1>1, <1>2, <1>3, <1>4 DEF Kinds

-----------------------------------------------------------------------------
(* The path of the documentation, part by part.                               *)
LEMMA DocValueIs ==
  ASSUME NEW request, PlainRequest(request), NEW part, part.kind \in Kinds \cup {"char"}, IsSeq(part.text)
  PROVE  DocValues(part, request) = {} \/ \E v : DocValues(part, request) = {v} /\ IsSeq(v)
<1>1. CASE part.kind = "char"
  BY <1>1 DEF DocValues
<1>2. CASE part.kind \in Kinds
  <2>1. request.endpoint \in Endpoints(request)
    BY DEF Endpoints
  <2> QED
    BY <1>2, <2>1, ValueIs, SanitizedIs
<1> QED
  BY <1>1, <1>2

Begun(path, template, request, k) == DocPath(path, SubSeq(template, 1, k), request)
Chosen_of(part, request) == CHOOSE v \in DocValues(part, request) : TRUE
ChosenUpto(template, request, k) == [j \in 1 .. k |-> Chosen_of(template[j], request)]
Valued(template, request, k) == \A j \in 1 .. k : DocValues(template[j], request) # {}

LEMMA PlainParts ==
  ASSUME NEW template, PlainTemplate(template)
  PROVE  /\ Len(template) \in Nat /\ DOMAIN template = 1 .. Len(template)
         /\ \A k \in 1 .. Len(template) : template[k].kind \in Kinds \cup {"char"} /\ IsSeq(template[k].text)
<1>1. Len(template) \in Nat /\ DOMAIN template = 1 .. Len(template)
  BY SeqIs DEF PlainTemplate
<1> QED
  BY <1>1 DEF PlainTemplate, Kinds

LEMMA BegunIs ==
  ASSUME NEW path, NEW request, NEW template, PlainTemplate(template), NEW k \in 0 .. Len(template)
  PROVE  Begun(path, template, request, k) = path \o <<Slash>> \o FlattenSeq(ChosenUpto(template, request, k))
<1> DEFINE part == SubSeq(template, 1, k)
           values == [j \in DOMAIN part |-> CHOOSE v \in DocValues(part[j], request) : TRUE]
<1>1. Len(template) \in Nat /\ IsSeq(template)
  BY PlainParts DEF PlainTemplate
<1>2. IsSeq(part) /\ Len(part) = k /\ \A i \in 1 .. k : part[i] = template[i]
  <2>1. k \in Int /\ k <= Len(template) /\ 1 <= k + 1 /\ k + 1 - 1 = k /\ \A i \in 1 .. k : 1 + i - 1 = i
    BY <1>1
  <2>2. /\ IsSeq(part) /\ Len(part) = k + 1 - 1
        /\ \A i \in 1 .. k + 1 - 1 : part[i] = template[1 + i - 1]
    BY <1>1, <2>1, Between
  <2> HIDE DEF part
  <2> QED
    BY <2>1, <2>2
<1>3. Begun(path, template, request, k) = path \o <<Slash>> \o FlattenSeq(values)
  BY DEF Begun, DocPath
<1> HIDE DEF part
<1>4. DOMAIN part = 1 .. k
  BY <1>2, SeqIs
<1>5. values = ChosenUpto(template, request, k)
  BY <1>2, <1>4 DEF ChosenUpto, Chosen_of
<1> QED
  BY <1>3, <1>5

LEMMA DocPathIs ==
  ASSUME NEW path, NEW request, NEW template, PlainTemplate(template)
  PROVE  Begun(path, template, request, Len(template)) = DocPath(path, template, request)
<1>1. template \in Seq(Range(template))
  BY DEF PlainTemplate, IsSeq
<1>2. SubSeq(template, 1, Len(template)) = template
  BY <1>1, SubSeqFull
<1> QED
  BY <1>2 DEF Begun

LEMMA ChosenIs ==
  ASSUME NEW request, PlainRequest(request), NEW template, PlainTemplate(template),
         NEW k \in 0 .. Len(template), Valued(template, request, k)
  PROVE  AreSeqs(ChosenUpto(template, request, k)) /\ Len(ChosenUpto(template, request, k)) = k
<1> DEFINE c == ChosenUpto(template, request, k)
<1>1. k \in Nat /\ \A j \in 1 .. k : j \in 1 .. Len(template)
  BY PlainParts
<1>2. ASSUME NEW j \in 1 .. k PROVE IsSeq(Chosen_of(template[j], request))
  <2>1. PICK part : part = template[j]
    OBVIOUS
  <2>2. part.kind \in Kinds \cup {"char"} /\ IsSeq(part.text) /\ DocValues(part, request) # {}
    BY <1>1, <2>1, PlainParts DEF Valued
  <2>3. PICK v : DocValues(part, request) = {v} /\ IsSeq(v)
    BY <2>2, DocValueIs
  <2> QED
    BY <2>1, <2>3 DEF Chosen_of
<1>3. PICK S : S = {Chosen_of(template[j], request) : j \in 1 .. k}
  OBVIOUS
<1>4. c \in [1 .. k -> S] /\ DOMAIN c = 1 .. k /\ \A j \in 1 .. k : c[j] = Chosen_of(template[j], request)
  BY <1>3 DEF ChosenUpto
<1> HIDE DEF c
<1>5. c \in Seq(S) /\ Len(c) = k
  BY <1>1, <1>4, FunctionIsSeq
<1>6. IsSeq(c) /\ \A j \in DOMAIN c : IsSeq(c[j])
  BY <1>2, <1>4, <1>5, SeqOfSet
<1> QED
  BY <1>5, <1>6 DEF AreSeqs, c

LEMMA BegunStep ==
  ASSUME NEW path, IsSeq(path), NEW request, PlainRequest(request), NEW template, PlainTemplate(template),
         NEW k \in 1 .. Len(template), Valued(template, request, k)
  PROVE  /\ IsSeq(Begun(path, template, request, k - 1))
         /\ IsSeq(Chosen_of(template[k], request))
         /\ Begun(path, template, request, k)
              = Begun(path, template, request, k - 1) \o Chosen_of(template[k], request)
<1>1. /\ Len(template) \in Nat /\ k \in Nat \ {0} /\ k \in 0 .. Len(template)
      /\ k - 1 \in 0 .. Len(template) /\ k \in 1 .. k /\ \A j \in 1 .. k - 1 : j \in 1 .. k
  BY PlainParts
<1>2. Valued(template, request, k - 1)
  BY <1>1 DEF Valued
<1>3. PICK c, d, v : c = ChosenUpto(template, request, k) /\ d = ChosenUpto(template, request, k - 1)
                     /\ v = Chosen_of(template[k], request)
  OBVIOUS
<1>4. AreSeqs(c) /\ Len(c) = k /\ AreSeqs(d) /\ Len(d) = k - 1
  BY <1>1, <1>2, <1>3, ChosenIs
<1>5. c[k] = v /\ \A j \in 1 .. k - 1 : c[j] = d[j]
  BY <1>1, <1>3 DEF ChosenUpto
<1>6. IsSeq(c) /\ IsSeq(d) /\ IsSeq(v) /\ DOMAIN c = 1 .. k
  BY <1>1, <1>4, <1>5, SeqIs DEF AreSeqs
<1>7. SubSeq(c, 1, k - 1) = d
  <2>1. k - 1 \in Int /\ k - 1 <= Len(c) /\ 1 <= k - 1 + 1 /\ k - 1 + 1 - 1 = k - 1
    BY <1>1, <1>4
  <2>2. \A i \in 1 .. k - 1 : 1 + i - 1 = i
    BY <1>1
  <2>3. PICK s : s = SubSeq(c, 1, k - 1)
    OBVIOUS
  <2>4. IsSeq(s) /\ Len(s) = k - 1 + 1 - 1 /\ \A i \in 1 .. k - 1 + 1 - 1 : s[i] = c[1 + i - 1]
    BY <1>6, <2>1, <2>3, Between
  <2>5. Len(s) = Len(d) /\ \A i \in 1 .. Len(s) : s[i] = d[i]
    BY <1>4, <1>5, <2>1, <2>2, <2>4
  <2> QED
    BY <1>6, <2>3, <2>4, <2>5, SameSeq
<1>8. IsSeq(FlattenSeq(c)) /\ FlattenSeq(c) = FlattenSeq(d) \o v
  BY <1>1, <1>4, <1>5, <1>7, FlattenedStep
<1>9. IsSeq(FlattenSeq(d))
  <2>1. CASE k - 1 = 0
    <3>1. d \in Seq(Range(d)) /\ Len(d) = 0
      BY <1>4, <1>6, <2>1 DEF IsSeq
    <3>2. d = <<>>
      BY <3>1, EmptySeq
    <3>3. <<>> \in Seq({})
      OBVIOUS
    <3> QED
      BY <3>2, <3>3, FlattenedNone, SeqOfSet
  <2>2. CASE k - 1 # 0
    <3>1. k - 1 \in Nat \ {0}
      BY <1>1, <2>2
    <3> QED
      BY <1>4, <3>1, FlattenedStep
  <2> QED
    BY <2>1, <2>2
<1>10. PICK base : base = path \o <<Slash>>
  OBVIOUS
<1>11. IsSeq(base)
  <2>1. <<Slash>> \in Seq({Slash})
    OBVIOUS
  <2> QED
    BY <1>10, <2>1, SeqOfSet, SeqsJoin
<1>12. Begun(path, template, request, k) = base \o FlattenSeq(c)
  BY <1>1, <1>3, <1>10, BegunIs
<1>13. Begun(path, template, request, k - 1) = base \o FlattenSeq(d)
  BY <1>1, <1>3, <1>10, BegunIs
<1>14. (base \o FlattenSeq(d)) \o v = base \o (FlattenSeq(d) \o v)
  <2>1. PICK f : f = FlattenSeq(d)
    OBVIOUS
  <2>2. IsSeq(base) /\ IsSeq(f) /\ IsSeq(v)
    BY <1>6, <1>9, <1>11, <2>1
  <2>3. (base \o f) \o v = base \o (f \o v)
    BY <2>2, SeqsAssociate
  <2> QED
    BY <2>1, <2>3
<1>15. IsSeq(base \o FlattenSeq(d))
  BY <1>9, <1>11, SeqsJoin
<1> QED
  BY <1>3, <1>6, <1>8, <1>12, <1>13, <1>14, <1>15

-----------------------------------------------------------------------------
(* The path the code makes, part by part: its recursive function exists.      *)
Resolved(template, k, before, request) ==
  LET part == template[k]
      values == Value(part, before.endpoint, request)
      path == CHOOSE p \in before.paths : TRUE
  IN IF before.paths = {} THEN before
     ELSE IF part.kind = "char" THEN [before EXCEPT !.paths = {path \o part.text}]
     ELSE [paths |-> UNION {expression_replace(path, Width(part), v, WidthFrom(template, k + 1)) : v \in values},
           endpoint |-> IF part.kind = "endpoint" THEN Trimmed(before.endpoint) ELSE before.endpoint]

ResolvedBy(made, base, template, endpoint, request) ==
  /\ expression_resolve(base, template, endpoint, request) = made[Len(template)]
  /\ made[0] = [paths |-> {base \o <<Slash>>}, endpoint |-> endpoint]
  /\ \A k \in 1 .. Len(template) : made[k] = Resolved(template, k, made[k - 1], request)

LEMMA ResolvedSteps ==
  ASSUME NEW base, NEW template, NEW endpoint, NEW request, Len(template) \in Nat
  PROVE  \E made : ResolvedBy(made, base, template, endpoint, request)
<1> DEFINE N == Len(template)
           first == [paths |-> {base \o <<Slash>>}, endpoint |-> endpoint]
           next(k, before) ==
             LET part == template[k]
                 values == Value(part, before.endpoint, request)
                 path == CHOOSE p \in before.paths : TRUE
             IN IF before.paths = {} THEN before
                ELSE IF part.kind = "char" THEN [before EXCEPT !.paths = {path \o part.text}]
                ELSE [paths |-> UNION {expression_replace(path, Width(part), v, WidthFrom(template, k + 1)) :
                                         v \in values},
                      endpoint |-> IF part.kind = "endpoint" THEN Trimmed(before.endpoint)
                                   ELSE before.endpoint]
           Upto(n, t) == t = [k \in 0 .. n |-> IF k = 0 THEN first ELSE next(k, t[k - 1])]
           made == CHOOSE t : Upto(N, t)
<1>1. expression_resolve(base, template, endpoint, request) = made[N]
  BY Zenon DEF expression_resolve
<1>2. \A k, before : next(k, before) = Resolved(template, k, before, request)
  BY Zenon DEF Resolved
<1> HIDE DEF first, next
<1>3. \E t : Upto(N, t)
  <2> DEFINE P == {m \in 0 .. N : \E t : Upto(m, t)}
  <2>1. 0 \in P
    <3>1. Upto(0, [k \in 0 .. 0 |-> first])
      OBVIOUS
    <3>2. 0 \in 0 .. N
      OBVIOUS
    <3> HIDE DEF Upto
    <3> QED
      BY <3>1, <3>2
  <2>2. ASSUME NEW b \in 1 .. N, b - 1 \in P PROVE b \in P
    <3>1. PICK t : Upto(b - 1, t)
      BY <2>2
    <3> DEFINE u == [k \in 0 .. b |-> IF k = b THEN next(b, t[b - 1]) ELSE t[k]]
    <3>2. \A k \in 0 .. b : u[k] = IF k = 0 THEN first ELSE next(k, u[k - 1])
      <4>1. u[0] = first
        BY <3>1
      <4>2. u[b] = next(b, u[b - 1])
        OBVIOUS
      <4>3. ASSUME NEW k \in 0 .. b, k # 0, k # b
            PROVE  u[k] = next(k, u[k - 1])
        <5>1. k \in 0 .. b - 1 /\ k - 1 \in 0 .. b /\ k - 1 # b
          BY <4>3
        <5>2. u[k] = t[k] /\ u[k - 1] = t[k - 1]
          BY <4>3, <5>1
        <5> QED
          BY <3>1, <4>3, <5>1, <5>2
      <4> QED
        BY <4>1, <4>2, <4>3
    <3>3. Upto(b, u)
      <4> DEFINE v == [k \in 0 .. b |-> IF k = 0 THEN first ELSE next(k, u[k - 1])]
      <4>1. u = [k \in 0 .. b |-> u[k]]
        OBVIOUS
      <4> HIDE DEF u
      <4>2. u = v
        BY <3>2, <4>1
      <4> QED
        BY <4>2
    <3> HIDE DEF Upto, u
    <3>4. b \in 0 .. N
      OBVIOUS
    <3> QED
      BY <3>3, <3>4
  <2> HIDE DEF P
  <2>3. \A m \in 0 .. N : m \in P
    BY <2>1, <2>2, UpTo
  <2>4. N \in 0 .. N
    OBVIOUS
  <2> HIDE DEF Upto
  <2> QED
    BY <2>3, <2>4 DEF P
<1>4. Upto(N, made)
  <2> HIDE DEF Upto
  <2> QED
    BY <1>3
<1> HIDE DEF made
<1>5. \A k \in 0 .. N : made[k] = IF k = 0 THEN first ELSE next(k, made[k - 1])
  BY <1>4
<1>6. made[0] = first /\ \A k \in 1 .. N : made[k] = Resolved(template, k, made[k - 1], request)
  BY <1>2, <1>5
<1> QED
  BY <1>1, <1>6 DEF first, ResolvedBy

(* After k parts there is the path of the documentation, or none: because a   *)
(* variable has no value, or for want of room.                                *)
Fitting(path, template, request, k) ==
  \A j \in 1 .. k : \A value \in DocValues(template[j], request) :
    Width(template[j]) < Len(value) =>
      ~(Len(Begun(path, template, request, j)) + WidthFrom(template, j + 1) >= MaxPath)
ResolvedTo(made, path, template, request, k) ==
  /\ made = [paths |-> made.paths, endpoint |-> made.endpoint]
  /\ made.endpoint \in Endpoints(request)
  /\ \/ made.paths = {} /\ ~(Valued(template, request, k) /\ Fitting(path, template, request, k))
     \/ made.paths = {Begun(path, template, request, k)} /\ Valued(template, request, k)

LEMMA ResolvedStep ==
  ASSUME NEW path, IsSeq(path), NEW request, PlainRequest(request), NEW template, PlainTemplate(template),
         NEW k \in 1 .. Len(template), NEW before, ResolvedTo(before, path, template, request, k - 1),
         NEW after, after = Resolved(template, k, before, request)
  PROVE  ResolvedTo(after, path, template, request, k)
<1>1. k \in Nat /\ Len(template) \in Nat /\ \A j \in 1 .. k : j = k \/ j \in 1 .. k - 1
  BY PlainParts
<1>2. \A j \in 1 .. k - 1 : j \in 1 .. k
  BY <1>1
<1>3. k \in 1 .. k
  BY <1>1
<1>4. /\ Valued(template, request, k)
           <=> Valued(template, request, k - 1) /\ DocValues(template[k], request) # {}
      /\ Fitting(path, template, request, k) => Fitting(path, template, request, k - 1)
  BY <1>1, <1>2, <1>3 DEF Valued, Fitting
<1>5. CASE before.paths = {}
  <2>1. after = before
    BY <1>5 DEF Resolved
  <2>2. ~(Valued(template, request, k) /\ Fitting(path, template, request, k))
    BY <1>4, <1>5 DEF ResolvedTo
  <2> QED
    BY <1>5, <2>1, <2>2 DEF ResolvedTo
<1>6. CASE before.paths # {}
  <2> DEFINE b == Begun(path, template, request, k - 1)
             part == template[k]
             behind == WidthFrom(template, k + 1)
             values == Value(part, before.endpoint, request)
             p == CHOOSE q \in before.paths : TRUE
  <2>1. /\ before.paths = {b} /\ Valued(template, request, k - 1) /\ before.endpoint \in Endpoints(request)
        /\ before = [paths |-> before.paths, endpoint |-> before.endpoint]
    BY <1>6 DEF ResolvedTo
  <2>2. p = b
    BY <2>1
  <2>3. part.kind \in Kinds \cup {"char"} /\ IsSeq(part.text)
    BY PlainParts
  <2>4. ASSUME NEW v, DocValues(part, request) = {v}
        PROVE  /\ Valued(template, request, k)
               /\ IsSeq(b) /\ IsSeq(v) /\ Begun(path, template, request, k) = b \o v
    <3>1. Valued(template, request, k)
      BY <1>4, <2>1, <2>4
    <3>2. Chosen_of(part, request) = v
      BY <2>4 DEF Chosen_of
    <3> QED
      BY <3>1, <3>2, BegunStep
  <2>5. CASE part.kind = "char"
    <3>1. DocValues(part, request) = {part.text}
      BY <2>5 DEF DocValues
    <3>2. after = [before EXCEPT !.paths = {b \o part.text}]
      BY <1>6, <2>2, <2>5 DEF Resolved
    <3> HIDE DEF b, part
    <3>3. after = [paths |-> {b \o part.text}, endpoint |-> before.endpoint]
      BY <2>1, <3>2
    <3>4. after.paths = {Begun(path, template, request, k)} /\ after.endpoint = before.endpoint
      <4>1. PICK q : q = b \o part.text
        OBVIOUS
      <4>2. Begun(path, template, request, k) = q
        BY <2>4, <3>1, <4>1
      <4>3. after = [paths |-> {q}, endpoint |-> before.endpoint]
        BY <3>3, <4>1
      <4> QED
        BY <4>2, <4>3
    <3>5. after = [paths |-> after.paths, endpoint |-> after.endpoint]
      BY <3>3
    <3> QED
      BY <2>1, <2>4, <3>1, <3>4, <3>5 DEF ResolvedTo
  <2>6. CASE part.kind # "char"
    <3> DEFINE paths == UNION {expression_replace(b, Width(part), v, behind) : v \in values}
               endpoint == IF part.kind = "endpoint" THEN Trimmed(before.endpoint) ELSE before.endpoint
    <3>1. after = [paths |-> paths, endpoint |-> endpoint]
      BY <1>6, <2>2, <2>6 DEF Resolved
    <3>2. endpoint \in Endpoints(request)
      <4>1. Trimmed(before.endpoint) = Trimmed(request.endpoint)
        BY <2>1, EndpointIs DEF PlainRequest
      <4> QED
        BY <2>1, <4>1 DEF Endpoints
    <3>3. \/ values = {} /\ DocValues(part, request) = {}
          \/ \E v : IsSeq(v) /\ values = {v} /\ DocValues(part, request) = {Sanitized(v)}
      BY <2>1, <2>3, <2>6, ValueIs
    <3> HIDE DEF values, part, b, behind, endpoint
    <3>4. CASE values = {} /\ DocValues(part, request) = {}
      <4>1. paths = {}
        BY <3>4
      <4>2. ~Valued(template, request, k)
        BY <1>4, <3>4 DEF part
      <4> QED
        BY <3>1, <3>2, <4>1, <4>2 DEF ResolvedTo
    <3>5. ASSUME NEW v, IsSeq(v), values = {v}, DocValues(part, request) = {Sanitized(v)}
          PROVE  ResolvedTo(after, path, template, request, k)
      <4>1. IsSeq(Sanitized(v)) /\ Len(Sanitized(v)) = Len(v)
        BY <3>5, SanitizedIs
      <4>2. paths = expression_replace(b, Width(part), v, behind)
        BY <3>5
      <4>3. /\ Valued(template, request, k) /\ IsSeq(b)
            /\ Begun(path, template, request, k) = b \o Sanitized(v)
        BY <2>4, <3>5
      <4>4. PICK c : c = Begun(path, template, request, k)
        OBVIOUS
      <4>5. Len(c) = Len(b) + Len(v)
        BY <4>1, <4>3, <4>4, SeqsJoin
      <4> HIDE DEF paths
      <4>6. CASE Width(part) < Len(v) /\ Len(b) + Len(v) + behind >= MaxPath
        <5>1. paths = {}
          BY <4>2, <4>6 DEF expression_replace
        <5>2. Len(c) + behind >= MaxPath
          BY <4>5, <4>6
        <5>3. Width(part) < Len(Sanitized(v))
          BY <4>1, <4>6
        <5>4. ~Fitting(path, template, request, k)
          BY <1>3, <3>5, <4>4, <5>2, <5>3 DEF Fitting, behind, part
        <5> QED
          BY <3>1, <3>2, <5>1, <5>4 DEF ResolvedTo
      <4>7. CASE ~(Width(part) < Len(v) /\ Len(b) + Len(v) + behind >= MaxPath)
        <5>1. paths = {b \o Sanitized(v)}
          BY <4>2, <4>7 DEF expression_replace
        <5> QED
          BY <3>1, <3>2, <4>3, <5>1 DEF ResolvedTo
      <4> QED
        BY <4>6, <4>7
    <3> QED
      BY <3>3, <3>4, <3>5
  <2> QED
    BY <2>5, <2>6
<1> QED
  BY <1>5, <1>6

(* What an expression resolves to is open in no file but the one that the     *)
(* documentation says, and in that one if there is it.                        *)
LEMMA ResolveIs ==
  ASSUME NEW path, IsSeq(path), NEW request, PlainRequest(request), NEW template, PlainTemplate(template),
         HasRoom(path, template, request), NEW endpoint \in Endpoints(request),
         NEW resolved, resolved = expression_resolve(path, template, endpoint, request)
  PROVE  /\ resolved.endpoint \in Endpoints(request)
         /\ resolved.paths \cap DOMAIN Files
              = IF DocComplete(path, template, request) THEN {DocPath(path, template, request)} ELSE {}
<1> DEFINE n == Len(template)
<1>1. n \in Nat /\ DOMAIN template = 1 .. n
  BY PlainParts
<1>2. PICK made : /\ resolved = made[n]
                  /\ made[0] = [paths |-> {path \o <<Slash>>}, endpoint |-> endpoint]
                  /\ \A k \in 1 .. n : made[k] = Resolved(template, k, made[k - 1], request)
  <2>1. PICK made : ResolvedBy(made, path, template, endpoint, request)
    BY <1>1, ResolvedSteps
  <2> QED
    BY <2>1 DEF ResolvedBy
<1> DEFINE P == {k \in 0 .. n : ResolvedTo(made[k], path, template, request, k)}
<1>3. 0 \in P
  <2>1. 0 \in 0 .. n /\ Valued(template, request, 0)
    BY <1>1 DEF Valued
  <2>2. ChosenUpto(template, request, 0) = <<>>
    BY DEF ChosenUpto
  <2>3. Begun(path, template, request, 0) = path \o <<Slash>> \o <<>>
    BY <2>1, <2>2, BegunIs, FlattenedNone
  <2>4. path \o <<Slash>> \o <<>> = path \o <<Slash>>
    <3>1. <<Slash>> \in Seq({Slash})
      OBVIOUS
    <3>2. IsSeq(path \o <<Slash>>)
      BY <3>1, SeqOfSet, SeqsJoin
    <3>3. PICK base : base = path \o <<Slash>>
      OBVIOUS
    <3>4. base \in Seq(Range(base))
      BY <3>2, <3>3 DEF IsSeq
    <3>5. base \o <<>> = base
      BY <3>4, ConcatEmptySeq
    <3> QED
      BY <3>3, <3>5
  <2>5. ResolvedTo(made[0], path, template, request, 0)
    <3>1. PICK base : base = path \o <<Slash>>
      OBVIOUS
    <3>2. made[0] = [paths |-> {base}, endpoint |-> endpoint]
      BY <1>2, <3>1
    <3>3. base = Begun(path, template, request, 0)
      BY <2>3, <2>4, <3>1
    <3> QED
      BY <2>1, <3>2, <3>3 DEF ResolvedTo
  <2> QED
    BY <2>1, <2>5
<1>4. ASSUME NEW k \in 1 .. n, k - 1 \in P PROVE k \in P
  <2>1. k \in 0 .. n
    OBVIOUS
  <2>2. made[k] = Resolved(template, k, made[k - 1], request)
    BY <1>2
  <2>3. ResolvedTo(made[k - 1], path, template, request, k - 1)
    BY <1>4
  <2>4. ResolvedTo(made[k], path, template, request, k)
    BY <2>2, <2>3, ResolvedStep
  <2> QED
    BY <2>1, <2>4
<1>5. n \in P
  <2> HIDE DEF P, n
  <2>1. \A k \in 0 .. n : k \in P
    BY <1>1, <1>3, <1>4, UpTo
  <2> QED
    BY <1>1, <2>1
<1>6. ResolvedTo(resolved, path, template, request, n)
  BY <1>2, <1>5
<1>7. Begun(path, template, request, n) = DocPath(path, template, request)
  BY DocPathIs
<1> HIDE DEF n
<1>8. DocComplete(path, template, request)
       <=> Valued(template, request, n) /\ DocPath(path, template, request) \in DOMAIN Files
  BY <1>1 DEF DocComplete, Valued
<1>9. DocComplete(path, template, request) => Fitting(path, template, request, n)
  BY <1>1 DEF HasRoom, Fitting, Begun
<1>10. CASE resolved.paths = {}
  <2>1. ~DocComplete(path, template, request)
    BY <1>6, <1>8, <1>9, <1>10 DEF ResolvedTo
  <2> QED
    BY <1>6, <1>10, <2>1 DEF ResolvedTo
<1>11. CASE resolved.paths # {}
  <2>1. resolved.paths = {DocPath(path, template, request)} /\ Valued(template, request, n)
    BY <1>6, <1>7, <1>11 DEF ResolvedTo
  <2> QED
    BY <1>6, <1>8, <2>1 DEF ResolvedTo
<1> QED
  BY <1>10, <1>11

-----------------------------------------------------------------------------
(* The answers of the files, one expression after the other: again the        *)
(* recursive function exists.                                                 *)
TriedNext(k, before, path, expressions, request) ==
  LET resolved == expression_resolve(path, expressions[k], before.endpoint, request)
      open == resolved.paths \cap DOMAIN Files
      lines == IF open = {} THEN <<>> ELSE Files[CHOOSE p \in open : TRUE]
      taken == {j \in DOMAIN lines : Taken(lines[j], request.protocols)}
  IN IF before.lines # {} THEN before
     ELSE [lines |-> IF taken = {} THEN {} ELSE {lines[Min(taken)]},
           endpoint |-> resolved.endpoint]
TriedBy(tried, path, expressions, request) ==
  /\ tried[0] = [lines |-> {}, endpoint |-> request.endpoint]
  /\ \A k \in 1 .. Len(expressions) : tried[k] = TriedNext(k, tried[k - 1], path, expressions, request)

LEMMA TriedSteps ==
  ASSUME NEW path, NEW expressions, NEW request, Len(expressions) \in Nat
  PROVE  TriedBy(Tried(path, expressions, request), path, expressions, request)
<1> DEFINE N == Len(expressions)
           first == [lines |-> {}, endpoint |-> request.endpoint]
           next(k, before) ==
             LET resolved == expression_resolve(path, expressions[k], before.endpoint, request)
                 open == resolved.paths \cap DOMAIN Files
                 lines == IF open = {} THEN <<>> ELSE Files[CHOOSE p \in open : TRUE]
                 taken == {j \in DOMAIN lines : Taken(lines[j], request.protocols)}
             IN IF before.lines # {} THEN before
                ELSE [lines |-> IF taken = {} THEN {} ELSE {lines[Min(taken)]},
                      endpoint |-> resolved.endpoint]
           Upto(n, t) == t = [k \in 0 .. n |-> IF k = 0 THEN first ELSE next(k, t[k - 1])]
           tried == Tried(path, expressions, request)
<1>1. tried = CHOOSE t : Upto(N, t)
  BY Zenon DEF Tried
<1>2. \A k, before : next(k, before) = TriedNext(k, before, path, expressions, request)
  BY Zenon DEF TriedNext
<1> HIDE DEF first, next
<1>3. \E t : Upto(N, t)
  <2> DEFINE P == {m \in 0 .. N : \E t : Upto(m, t)}
  <2>1. 0 \in P
    <3>1. Upto(0, [k \in 0 .. 0 |-> first])
      OBVIOUS
    <3>2. 0 \in 0 .. N
      OBVIOUS
    <3> HIDE DEF Upto
    <3> QED
      BY <3>1, <3>2
  <2>2. ASSUME NEW b \in 1 .. N, b - 1 \in P PROVE b \in P
    <3>1. PICK t : Upto(b - 1, t)
      BY <2>2
    <3> DEFINE u == [k \in 0 .. b |-> IF k = b THEN next(b, t[b - 1]) ELSE t[k]]
    <3>2. \A k \in 0 .. b : u[k] = IF k = 0 THEN first ELSE next(k, u[k - 1])
      <4>1. u[0] = first
        BY <3>1
      <4>2. u[b] = next(b, u[b - 1])
        OBVIOUS
      <4>3. ASSUME NEW k \in 0 .. b, k # 0, k # b
            PROVE  u[k] = next(k, u[k - 1])
        <5>1. k \in 0 .. b - 1 /\ k - 1 \in 0 .. b /\ k - 1 # b
          BY <4>3
        <5>2. u[k] = t[k] /\ u[k - 1] = t[k - 1]
          BY <4>3, <5>1
        <5> QED
          BY <3>1, <4>3, <5>1, <5>2
      <4> QED
        BY <4>1, <4>2, <4>3
    <3>3. Upto(b, u)
      <4> DEFINE v == [k \in 0 .. b |-> IF k = 0 THEN first ELSE next(k, u[k - 1])]
      <4>1. u = [k \in 0 .. b |-> u[k]]
        OBVIOUS
      <4> HIDE DEF u
      <4>2. u = v
        BY <3>2, <4>1
      <4> QED
        BY <4>2
    <3> HIDE DEF Upto, u
    <3>4. b \in 0 .. N
      OBVIOUS
    <3> QED
      BY <3>3, <3>4
  <2> HIDE DEF P
  <2>3. \A m \in 0 .. N : m \in P
    BY <2>1, <2>2, UpTo
  <2>4. N \in 0 .. N
    OBVIOUS
  <2> HIDE DEF Upto
  <2> QED
    BY <2>3, <2>4 DEF P
<1>4. Upto(N, tried)
  <2> HIDE DEF Upto, tried
  <2> QED
    BY <1>1, <1>3
<1> HIDE DEF tried
<1>5. \A k \in 0 .. N : tried[k] = IF k = 0 THEN first ELSE next(k, tried[k - 1])
  BY <1>4
<1>6. tried[0] = first /\ \A k \in 1 .. N : tried[k] = TriedNext(k, tried[k - 1], path, expressions, request)
  BY <1>2, <1>5
<1> QED
  BY <1>6 DEF first, tried, TriedBy

(* The file of an expression's path, and the lines of it that match.          *)
LinesOf(path, template, request) == Files[DocPath(path, template, request)]
Matching(path, template, request) ==
  {j \in DOMAIN LinesOf(path, template, request) : Taken(LinesOf(path, template, request)[j], request.protocols)}
Answering(path, expressions, request) ==
  {e \in DOMAIN expressions : /\ DocComplete(path, expressions[e], request)
                              /\ Matching(path, expressions[e], request) # {}}
AnswerOf(path, template, request) ==
  LinesOf(path, template, request)[Min(Matching(path, template, request))]

(* After k expressions there is the answer of the first of them that has one. *)
TriedTo(tried, path, expressions, request, k) ==
  /\ tried.endpoint \in Endpoints(request)
  /\ \/ /\ tried.lines = {}
        /\ \A e \in 1 .. k : e \notin Answering(path, expressions, request)
     \/ \E e \in Answering(path, expressions, request) :
          /\ \A d \in Answering(path, expressions, request) : ~(d < e)
          /\ tried.lines = {AnswerOf(path, expressions[e], request)}

LEMMA TriedStep ==
  ASSUME NEW path, NEW expressions, NEW request, PlainQuery(path, expressions, request),
         Len(expressions) \in Nat, DOMAIN expressions = 1 .. Len(expressions),
         NEW k \in 1 .. Len(expressions), NEW before, TriedTo(before, path, expressions, request, k - 1),
         NEW after, after = TriedNext(k, before, path, expressions, request)
  PROVE  TriedTo(after, path, expressions, request, k)
<1> DEFINE template == expressions[k]
           answering == Answering(path, expressions, request)
<1>1. CASE before.lines # {}
  <2>1. after = before
    BY <1>1 DEF TriedNext
  <2> QED
    BY <1>1, <2>1 DEF TriedTo
<1>2. CASE before.lines = {}
  <2>1. /\ IsSeq(path) /\ PlainRequest(request) /\ PlainTemplate(template) /\ HasRoom(path, template, request)
    BY DEF PlainQuery
  <2>2. before.endpoint \in Endpoints(request) /\ \A e \in 1 .. k - 1 : e \notin answering
    <3>1. \A e : {AnswerOf(path, expressions[e], request)} # {}
      OBVIOUS
    <3> QED
      BY <1>2, <3>1 DEF TriedTo
  <2>3. PICK resolved : resolved = expression_resolve(path, template, before.endpoint, request)
    OBVIOUS
  <2>4. /\ resolved.endpoint \in Endpoints(request)
        /\ resolved.paths \cap DOMAIN Files
             = IF DocComplete(path, template, request) THEN {DocPath(path, template, request)} ELSE {}
    BY <2>1, <2>2, <2>3, ResolveIs
  <2> DEFINE open == resolved.paths \cap DOMAIN Files
             lines == IF open = {} THEN <<>> ELSE Files[CHOOSE p \in open : TRUE]
             taken == {j \in DOMAIN lines : Taken(lines[j], request.protocols)}
  <2>5. after = [lines |-> IF taken = {} THEN {} ELSE {lines[Min(taken)]}, endpoint |-> resolved.endpoint]
    BY <1>2, <2>3, Zenon DEF TriedNext
  <2>6. after.lines = (IF taken = {} THEN {} ELSE {lines[Min(taken)]}) /\ after.endpoint = resolved.endpoint
    <3> HIDE DEF taken, lines
    <3> QED
      BY <2>5
  <2>7. \A e \in 1 .. k : e = k \/ e \in 1 .. k - 1
    OBVIOUS
  <2>8. k \in answering <=> DocComplete(path, template, request) /\ Matching(path, template, request) # {}
    BY DEF Answering
  <2>9. DocComplete(path, template, request)
          => lines = LinesOf(path, template, request) /\ taken = Matching(path, template, request)
    <3>1. ASSUME DocComplete(path, template, request)
          PROVE  lines = LinesOf(path, template, request)
      <4>1. open = {DocPath(path, template, request)}
        BY <2>4, <3>1
      <4> QED
        BY <4>1 DEF LinesOf
    <3> HIDE DEF lines
    <3> QED
      BY <3>1 DEF Matching
  <2>10. ~DocComplete(path, template, request) => taken = {}
    <3>1. ASSUME ~DocComplete(path, template, request)
          PROVE  lines = <<>>
      BY <2>4, <3>1
    <3> HIDE DEF lines
    <3> QED
      BY <3>1
  <2> HIDE DEF taken, lines, template
  <2>11. CASE k \in answering
    <3>1. after.lines = {AnswerOf(path, template, request)}
      BY <2>6, <2>8, <2>9, <2>11 DEF AnswerOf
    <3>2. \A d \in answering : ~(d < k)
      <4>1. \A d \in answering : d \in 1 .. Len(expressions)
        BY DEF Answering
      <4> HIDE DEF answering
      <4>2. ASSUME NEW d \in answering, d < k PROVE FALSE
        <5>1. d \in 1 .. k - 1
          BY <4>1, <4>2
        <5> QED
          BY <2>2, <4>2, <5>1
      <4> QED
        BY <4>2
    <3> QED
      BY <2>4, <2>6, <2>11, <3>1, <3>2 DEF TriedTo, template
  <2>12. CASE k \notin answering
    <3>1. taken = {}
      BY <2>8, <2>9, <2>10, <2>12
    <3>2. after.lines = {}
      BY <2>6, <3>1
    <3>3. \A e \in 1 .. k : e \notin answering
      BY <2>2, <2>7, <2>12
    <3> QED
      BY <2>4, <2>6, <3>2, <3>3 DEF TriedTo
  <2> QED
    BY <2>11, <2>12
<1> QED
  BY <1>1, <1>2

(* The answer of the files is the one the documentation has, whatever their   *)
(* paths and lines are, if the request and the expressions are plain.         *)
LEMMA QueryAnswers ==
  ASSUME NEW path, NEW expressions, NEW request, PlainQuery(path, expressions, request),
         Len(expressions) \in Nat, DOMAIN expressions = 1 .. Len(expressions)
  PROVE  query(path, expressions, request) = DocAnswer(path, expressions, request)
<1> DEFINE N == Len(expressions)
           tried == Tried(path, expressions, request)
           answering == Answering(path, expressions, request)
           first == {e \in answering : \A d \in answering : ~(d < e)}
           P == {k \in 0 .. N : TriedTo(tried[k], path, expressions, request, k)}
<1>1. TriedBy(tried, path, expressions, request)
  BY TriedSteps
<1> HIDE DEF tried
<1>2. 0 \in P
  <2>1. TriedTo(tried[0], path, expressions, request, 0)
    BY <1>1 DEF TriedBy, TriedTo, Endpoints
  <2> QED
    BY <2>1
<1>3. ASSUME NEW k \in 1 .. N, k - 1 \in P PROVE k \in P
  <2>1. k \in 0 .. N
    OBVIOUS
  <2>2. tried[k] = TriedNext(k, tried[k - 1], path, expressions, request)
    BY <1>1 DEF TriedBy
  <2>3. TriedTo(tried[k], path, expressions, request, k)
    BY <1>3, <2>2, TriedStep
  <2> QED
    BY <2>1, <2>3
<1>4. N \in P
  <2> HIDE DEF P
  <2>1. \A k \in 0 .. N : k \in P
    BY <1>2, <1>3, UpTo
  <2> QED
    BY <2>1
<1>5. DocAnswer(path, expressions, request) = {AnswerOf(path, expressions[e], request) : e \in first}
  BY DEF DocAnswer, Answering, AnswerOf, LinesOf, Matching
<1>6. \A e \in answering : e \in 1 .. N
  BY DEF Answering
<1>7. query(path, expressions, request) = tried[N].lines
  BY DEF query, tried
<1>8. TriedTo(tried[N], path, expressions, request, N)
  BY <1>4
<1> HIDE DEF answering, P
<1>9. CASE tried[N].lines = {} /\ \A e \in 1 .. N : e \notin answering
  BY <1>5, <1>6, <1>7, <1>9
<1>10. ASSUME NEW e \in answering, \A d \in answering : ~(d < e),
              tried[N].lines = {AnswerOf(path, expressions[e], request)}
       PROVE  query(path, expressions, request) = DocAnswer(path, expressions, request)
  <2>1. \A d \in first : d = e
    <3>1. ASSUME NEW d \in first PROVE d = e
      <4>1. d \in 1 .. N /\ e \in 1 .. N /\ ~(d < e) /\ ~(e < d)
        BY <1>6, <1>10, <3>1
      <4> QED
        BY <4>1
    <3> QED
      BY <3>1
  <2>2. first = {e}
    BY <1>10, <2>1
  <2> HIDE DEF first
  <2> QED
    BY <1>5, <1>7, <1>10, <2>2
<1> QED
  BY <1>8, <1>9, <1>10 DEF TriedTo, answering
=============================================================================

--------------------------- MODULE SequenceProofs ---------------------------
(***************************************************************************)
(* Facts about sequences and numbers for the proofs of the other modules.  *)
(*                                                                         *)
(* What a recursive function computes is proved by induction.  The rules   *)
(* of induction of the library have operators as parameters, so the        *)
(* induction is made with a set of numbers (SetInduction).                 *)
(***************************************************************************)
EXTENDS SequencesExt, SequenceTheorems, WellFoundedInduction, FiniteSetTheorems, TLAPS

\* Induction over the natural numbers, for a set of them.
LEMMA SetInduction ==
    ASSUME NEW T, 0 \in T, \A k \in Nat : k \in T => k + 1 \in T
    PROVE  Nat \subseteq T
<1> DEFINE B == Nat \ T
<1> SUFFICES ASSUME B # {}
             PROVE  FALSE
  OBVIOUS
<1>1. PICK k \in B : \A e \in B : <<e, k>> \notin OpToRel(<, Nat)
  <2>1. B \subseteq Nat
    OBVIOUS
  <2> QED
    BY <2>1, NatLessThanWellFounded, WFMin, Zenon
<1>2. \A e \in B : ~ (e < k)
  BY <1>1, Zenon DEF OpToRel
<1>3. k \in Nat /\ k # 0
  BY <1>1
<1>4. k - 1 \in Nat /\ k - 1 < k /\ k - 1 + 1 = k
  BY <1>3
<1>5. k - 1 \in T
  BY <1>2, <1>4
<1>6. k \in T
  BY <1>4, <1>5
<1> QED
  BY <1>1, <1>6

LEMMA NoPieces == ASSUME NEW S PROVE <<>> \in Seq(S)
  OBVIOUS

\* A sequence that has one element more than another one.
LEMMA LongerByOne ==
    ASSUME NEW S, NEW n \in Nat, NEW s \in [1..n -> S], NEW t \in [1..(n + 1) -> S],
           \A i \in 1..n : t[i] = s[i]
    PROVE  /\ s \in Seq(S)
           /\ t = Append(s, t[n + 1])
<1>1. s \in Seq(S) /\ Len(s) = n /\ t \in Seq(S) /\ Len(t) = n + 1
  OBVIOUS
<1> DEFINE x == t[n + 1]
           a == Append(s, x)
<1>2. x \in S
  OBVIOUS
<1> HIDE DEF x
<1>3. /\ a \in Seq(S) /\ Len(a) = n + 1
      /\ a[n + 1] = x
      /\ \A i \in 1..n : a[i] = s[i]
  BY <1>1, <1>2
<1> HIDE DEF a
<1>4. \A i \in 1..(n + 1) : a[i] = t[i]
  <2> SUFFICES ASSUME NEW i \in 1..(n + 1)
               PROVE  a[i] = t[i]
    OBVIOUS
  <2>1. CASE i = n + 1
    BY <1>3, <2>1 DEF x
  <2>2. CASE i # n + 1
    <3>1. i \in 1..n
      BY <2>2
    <3> QED
      BY <1>3, <3>1
  <2> QED
    BY <2>1, <2>2
<1>5. a = t
  BY <1>1, <1>3, <1>4
<1> QED
  BY <1>1, <1>5 DEF a, x

\* f[i] is the concatenation of the first i sequences.
Flat(f, seqs) ==
    f = [i \in 1..Len(seqs) |-> IF i = 1 THEN seqs[i] ELSE f[i-1] \o seqs[i]]

\* Up to k, without the domain.
FlatTo(f, seqs, k) ==
    \A i \in 1..k : f[i] = IF i = 1 THEN seqs[i] ELSE f[i-1] \o seqs[i]

FlatExists(S, seqs, k) == \E f \in [1..k -> Seq(S)] : FlatTo(f, seqs, k)

LEMMA FlatDefined ==
    ASSUME NEW S, NEW seqs \in Seq(Seq(S))
    PROVE  \E f \in [1..Len(seqs) -> Seq(S)] : Flat(f, seqs)
<1> DEFINE n == Len(seqs)
           T == {k \in Nat : k <= n => FlatExists(S, seqs, k)}
<1>0. n \in Nat /\ \A i \in 1..n : seqs[i] \in Seq(S)
  OBVIOUS
<1> HIDE DEF n
<1>1. 0 \in T
  <2> DEFINE f == [i \in 1..0 |-> <<>>]
  <2>1. f \in [1..0 -> Seq(S)] /\ FlatTo(f, seqs, 0)
    BY DEF FlatTo
  <2>2. FlatExists(S, seqs, 0)
    BY <2>1, Zenon DEF FlatExists
  <2> QED
    BY <2>2
<1>2. ASSUME NEW k \in Nat, k \in T
      PROVE  k + 1 \in T
  <2>1. SUFFICES ASSUME k + 1 <= n
                 PROVE  FlatExists(S, seqs, k + 1)
    OBVIOUS
  <2>2. k <= n /\ k + 1 \in 1..n
    BY <1>0, <2>1
  <2>3. PICK f \in [1..k -> Seq(S)] : FlatTo(f, seqs, k)
    BY <1>2, <2>2 DEF FlatExists
  <2> DEFINE last == IF k = 0 THEN seqs[1] ELSE f[k] \o seqs[k + 1]
             g == [i \in 1..(k + 1) |-> IF i = k + 1 THEN last ELSE f[i]]
  <2>4. last \in Seq(S)
    <3>1. CASE k = 0
      BY <1>0, <2>2, <3>1
    <3>2. CASE k # 0
      <4>1. f[k] \in Seq(S) /\ seqs[k + 1] \in Seq(S)
        BY <1>0, <2>2, <3>2
      <4> QED
        BY <3>2, <4>1
    <3> QED
      BY <3>1, <3>2
  <2> HIDE DEF last
  <2>5. g \in [1..(k + 1) -> Seq(S)]
    BY <2>4
  <2>6. FlatTo(g, seqs, k + 1)
    <3> SUFFICES ASSUME NEW i \in 1..(k + 1)
                 PROVE  g[i] = IF i = 1 THEN seqs[i] ELSE g[i-1] \o seqs[i]
      BY DEF FlatTo
    <3>1. CASE i = k + 1
      <4>1. g[i] = last
        BY <3>1
      <4>2. CASE k = 0
        BY <3>1, <4>1, <4>2 DEF last
      <4>3. CASE k # 0
        <5>1. g[i-1] = f[k] /\ i # 1
          BY <3>1, <4>3
        <5>2. last = f[k] \o seqs[k + 1]
          BY <4>3 DEF last
        <5> QED
          BY <3>1, <4>1, <5>1, <5>2
      <4> QED
        BY <4>2, <4>3
    <3>2. CASE i # k + 1
      <4>1. i \in 1..k /\ g[i] = f[i]
        BY <3>2
      <4>2. i # 1 => g[i-1] = f[i-1]
        BY <4>1
      <4>3. f[i] = IF i = 1 THEN seqs[i] ELSE f[i-1] \o seqs[i]
        BY <2>3, <4>1 DEF FlatTo
      <4> QED
        BY <4>1, <4>2, <4>3
    <3> QED
      BY <3>1, <3>2
  <2> HIDE DEF g
  <2> QED
    BY <2>5, <2>6, Zenon DEF FlatExists
<1> HIDE DEF T
<1>3. n \in T
  BY <1>0, <1>1, <1>2, SetInduction
<1>4. FlatExists(S, seqs, n)
  BY <1>0, <1>3 DEF T
<1>5. PICK f \in [1..n -> Seq(S)] : FlatTo(f, seqs, n)
  BY <1>4, Zenon DEF FlatExists
<1>6. Flat(f, seqs)
  BY <1>5 DEF Flat, FlatTo, n
<1> QED
  BY <1>5, <1>6 DEF n

LEMMA FlattenIs ==
    ASSUME NEW S, NEW seqs \in Seq(Seq(S)), seqs # <<>>
    PROVE  \E f : Flat(f, seqs) /\ FlattenSeq(seqs) = f[Len(seqs)]
<1> DEFINE f == CHOOSE g : Flat(g, seqs)
<1>1. Flat(f, seqs)
  BY FlatDefined, Zenon
<1>2. Len(seqs) # 0
  OBVIOUS
<1>3. FlattenSeq(seqs) = f[Len(seqs)]
  BY <1>2, Zenon DEF FlattenSeq, Flat
<1> QED
  BY <1>1, <1>3, Zenon

LEMMA FlattenAppend ==
    ASSUME NEW S, NEW seqs \in Seq(Seq(S)), NEW x \in Seq(S)
    PROVE  FlattenSeq(Append(seqs, x)) = FlattenSeq(seqs) \o x
<1> DEFINE n == Len(seqs)
           more == Append(seqs, x)
<1>0. /\ n \in Nat /\ more \in Seq(Seq(S)) /\ Len(more) = n + 1 /\ more # <<>>
      /\ more[n + 1] = x
      /\ \A i \in 1..n : more[i] = seqs[i] /\ seqs[i] \in Seq(S)
  <2>1. n \in Nat /\ more \in Seq(Seq(S)) /\ Len(more) = n + 1
    OBVIOUS
  <2>2. more[n + 1] = x /\ \A i \in 1..n : more[i] = seqs[i]
    OBVIOUS
  <2>3. \A i \in 1..n : seqs[i] \in Seq(S)
    OBVIOUS
  <2>4. more # <<>>
    <3>1. Len(<<>>) = 0 /\ Len(more) # 0
      BY <2>1
    <3> QED
      BY <3>1, Zenon
  <2> QED
    BY <2>1, <2>2, <2>3, <2>4
<1> HIDE DEF n, more
<1>1. PICK g : Flat(g, more) /\ FlattenSeq(more) = g[n + 1]
  BY <1>0, FlattenIs
<1>2. \A i \in 1..(n + 1) : g[i] = IF i = 1 THEN more[i] ELSE g[i-1] \o more[i]
  <2>1. g = [i \in 1..(n + 1) |-> IF i = 1 THEN more[i] ELSE g[i-1] \o more[i]]
    BY <1>0, <1>1 DEF Flat
  <2> DEFINE e(i) == IF i = 1 THEN more[i] ELSE g[i-1] \o more[i]
  <2>2. g = [i \in 1..(n + 1) |-> e(i)]
    BY <2>1
  <2> HIDE DEF e
  <2>3. \A i \in 1..(n + 1) : g[i] = e(i)
    BY <2>2
  <2> QED
    BY <2>3 DEF e
<1>3. CASE n = 0
  <2>1. seqs = <<>>
    BY <1>3 DEF n
  <2>2. FlattenSeq(seqs) = <<>>
    BY <2>1 DEF FlattenSeq
  <2>3. g[n + 1] = x
    BY <1>0, <1>2, <1>3
  <2>4. <<>> \o x = x
    OBVIOUS
  <2> QED
    BY <1>1, <2>2, <2>3, <2>4 DEF more
<1>4. CASE n # 0
  <2>1. seqs # <<>>
    BY <1>4 DEF n
  <2>2. PICK f : Flat(f, seqs) /\ FlattenSeq(seqs) = f[n]
    BY <2>1, FlattenIs DEF n
  <2>3. \A i \in 1..n : f[i] = IF i = 1 THEN seqs[i] ELSE f[i-1] \o seqs[i]
    <3> DEFINE e(i) == IF i = 1 THEN seqs[i] ELSE f[i-1] \o seqs[i]
    <3>1. f = [i \in 1..n |-> e(i)]
      BY <2>2 DEF Flat, n
    <3> HIDE DEF e
    <3>2. \A i \in 1..n : f[i] = e(i)
      BY <3>1
    <3> QED
      BY <3>2 DEF e
  <2> DEFINE T == {k \in Nat : k + 1 <= n => f[k + 1] = g[k + 1]}
  <2>4. 0 \in T
    <3>1. 1 \in 1..n /\ 1 \in 1..(n + 1) /\ 0 + 1 = 1
      BY <1>0, <1>4
    <3>2. f[1] = g[1]
      BY <1>0, <1>2, <2>3, <3>1
    <3> QED
      BY <3>1, <3>2
  <2>5. ASSUME NEW k \in Nat, k \in T
        PROVE  k + 1 \in T
    <3>1. SUFFICES ASSUME k + 1 + 1 <= n
                   PROVE  f[k + 1 + 1] = g[k + 1 + 1]
      OBVIOUS
    <3>2. /\ k + 1 + 1 \in 1..n /\ k + 1 + 1 \in 1..(n + 1) /\ k + 1 + 1 # 1
          /\ k + 1 + 1 - 1 = k + 1 /\ k + 1 <= n
      BY <1>0, <3>1
    <3>3. f[k + 1] = g[k + 1]
      BY <2>5, <3>2
    <3> QED
      BY <1>0, <1>2, <2>3, <3>2, <3>3
  <2> HIDE DEF T
  <2>6. n - 1 \in Nat /\ n - 1 + 1 = n
    BY <1>0, <1>4
  <2>7. n - 1 \in T
    BY <2>4, <2>5, <2>6, SetInduction
  <2>8. f[n] = g[n]
    BY <1>0, <2>6, <2>7 DEF T
  <2>9. g[n + 1] = g[n] \o x
    <3>1. PICK j \in 1..(n + 1) : j = n + 1 /\ j # 1 /\ j - 1 = n
      BY <1>0, <1>4
    <3>2. g[j] = g[j - 1] \o more[j]
      BY <1>2, <3>1
    <3> QED
      BY <1>0, <3>1, <3>2, Zenon
  <2> QED
    BY <1>1, <2>2, <2>8, <2>9 DEF more
<1> QED
  BY <1>3, <1>4

\* Induction over sequences, for a set of them.
LEMMA SequenceInduction ==
    ASSUME NEW S, NEW T, <<>> \in T,
           \A s \in Seq(S), e \in S : s \in T => Append(s, e) \in T
    PROVE  Seq(S) \subseteq T
<1> DEFINE K == {k \in Nat : \A s \in Seq(S) : Len(s) = k => s \in T}
<1>1. 0 \in K
  OBVIOUS
<1>2. ASSUME NEW k \in Nat, k \in K
      PROVE  k + 1 \in K
  <2>1. SUFFICES ASSUME NEW s \in Seq(S), Len(s) = k + 1
                 PROVE  s \in T
    OBVIOUS
  <2>2. s # <<>>
    BY <2>1
  <2>3. PICK t \in Seq(S), e \in S : s = Append(t, e)
    BY <2>2, SequenceEmptyOrAppend
  <2>4. Len(s) = Len(t) + 1 /\ Len(t) \in Nat
    BY <2>3
  <2>5. Len(t) = k
    BY <2>1, <2>4
  <2>6. t \in T
    BY <1>2, <2>5
  <2> QED
    BY <2>3, <2>6
<1> HIDE DEF K
<1>3. Nat \subseteq K
  BY <1>1, <1>2, SetInduction
<1> QED
  <2> SUFFICES ASSUME NEW s \in Seq(S)
               PROVE  s \in T
    OBVIOUS
  <2>1. Len(s) \in K
    BY <1>3
  <2> QED
    BY <2>1 DEF K

LEMMA FlattenEmpty == FlattenSeq(<<>>) = <<>>
  BY DEF FlattenSeq

LEMMA FlattenType ==
    ASSUME NEW S, NEW seqs \in Seq(Seq(S))
    PROVE  FlattenSeq(seqs) \in Seq(S)
<1> DEFINE A == Seq(S)
           T == {s \in Seq(A) : FlattenSeq(s) \in A}
<1>1. <<>> \in T
  <2>1. <<>> \in Seq(A) /\ <<>> \in A
    OBVIOUS
  <2> QED
    BY <2>1, FlattenEmpty
<1>2. ASSUME NEW s \in Seq(A), NEW e \in A, s \in T
      PROVE  Append(s, e) \in T
  <2>1. FlattenSeq(Append(s, e)) = FlattenSeq(s) \o e
    BY FlattenAppend
  <2>2. FlattenSeq(s) \o e \in A
    BY <1>2
  <2>3. Append(s, e) \in Seq(A)
    OBVIOUS
  <2> QED
    BY <2>1, <2>2, <2>3
<1> HIDE DEF T
<1>3. seqs \in T
  BY <1>1, <1>2, SequenceInduction
<1> QED
  BY <1>3 DEF T

LEMMA FlattenConcat ==
    ASSUME NEW S, NEW seqs \in Seq(Seq(S)), NEW more \in Seq(Seq(S))
    PROVE  FlattenSeq(seqs \o more) = FlattenSeq(seqs) \o FlattenSeq(more)
<1> DEFINE A == Seq(S)
           T == {t \in Seq(A) : FlattenSeq(seqs \o t) = FlattenSeq(seqs) \o FlattenSeq(t)}
<1> HIDE DEF A
<1>0. seqs \in Seq(A) /\ more \in Seq(A) /\ FlattenSeq(seqs) \in A
  BY FlattenType DEF A
<1>1. <<>> \in T
  <2>1. seqs \o <<>> = seqs /\ <<>> \in Seq(A)
    BY <1>0
  <2>2. FlattenSeq(seqs) \o <<>> = FlattenSeq(seqs)
    BY <1>0, ConcatEmptySeq DEF A
  <2> QED
    BY <2>1, <2>2, FlattenEmpty
<1>2. ASSUME NEW t \in Seq(A), NEW e \in A, t \in T
      PROVE  Append(t, e) \in T
  <2> DEFINE u == Append(t, e)
             v == seqs \o t
  <2>1. u \in Seq(A) /\ v \in Seq(A)
    BY <1>0
  <2>2. seqs \o u = Append(v, e)
    BY <1>0
  <2> HIDE DEF v
  <2>3. FlattenSeq(Append(v, e)) = FlattenSeq(v) \o e
    BY <2>1, FlattenAppend DEF A
  <2>4. FlattenSeq(u) = FlattenSeq(t) \o e
    BY FlattenAppend DEF A
  <2>5. FlattenSeq(v) = FlattenSeq(seqs) \o FlattenSeq(t)
    BY <1>2 DEF v
  <2>6. FlattenSeq(t) \in A
    BY FlattenType DEF A
  <2>7. (FlattenSeq(seqs) \o FlattenSeq(t)) \o e = FlattenSeq(seqs) \o (FlattenSeq(t) \o e)
    BY <1>0, <2>6, ConcatAssociative, SMTT(40) DEF A
  <2>8. FlattenSeq(seqs \o u) = FlattenSeq(seqs) \o FlattenSeq(u)
    BY <2>2, <2>3, <2>4, <2>5, <2>7, Zenon
  <2> HIDE DEF u
  <2> QED
    BY <2>1, <2>8 DEF u
<1> HIDE DEF T
<1>3. more \in T
  BY <1>0, <1>1, <1>2, SequenceInduction
<1> QED
  BY <1>3 DEF T

LEMMA FlattenOne ==
    ASSUME NEW S, NEW s \in Seq(S)
    PROVE  FlattenSeq(<<s>>) = s
<1>1. Append(<<>>, s) = <<s>> /\ <<>> \in Seq(Seq(S)) /\ <<>> \o s = s
  OBVIOUS
<1>2. FlattenSeq(Append(<<>>, s)) = FlattenSeq(<<>>) \o s
  BY <1>1, FlattenAppend
<1> QED
  BY <1>1, <1>2, FlattenEmpty

\* The first sequence comes first.
LEMMA FlattenHead ==
    ASSUME NEW S, NEW seqs \in Seq(Seq(S)), seqs # <<>>
    PROVE  FlattenSeq(seqs) = Head(seqs) \o FlattenSeq(Tail(seqs))
<1> DEFINE A == Seq(S)
           first == Head(seqs)
           rest == Tail(seqs)
<1> HIDE DEF A
<1>1. first \in A /\ rest \in Seq(A) /\ <<first>> \in Seq(A) /\ seqs = <<first>> \o rest
  BY DEF A
<1> HIDE DEF first, rest
<1>2. FlattenSeq(<<first>> \o rest) = FlattenSeq(<<first>>) \o FlattenSeq(rest)
  BY <1>1, FlattenConcat DEF A
<1>3. FlattenSeq(<<first>>) = first
  BY <1>1, FlattenOne DEF A
<1> QED
  BY <1>1, <1>2, <1>3 DEF first, rest

\* Dropping the first d sequences drops what they hold.
LEMMA FlattenDrop ==
    ASSUME NEW S, NEW seqs \in Seq(Seq(S)), NEW d \in 0..Len(seqs)
    PROVE  /\ SubSeq(seqs, 1, d) \in Seq(Seq(S))
           /\ SubSeq(seqs, d + 1, Len(seqs)) \in Seq(Seq(S))
           /\ FlattenSeq(seqs)
                = FlattenSeq(SubSeq(seqs, 1, d)) \o FlattenSeq(SubSeq(seqs, d + 1, Len(seqs)))
<1> DEFINE A == Seq(S)
           n == Len(seqs)
           head == SubSeq(seqs, 1, d)
           tail == SubSeq(seqs, d + 1, n)
<1> HIDE DEF A
<1>1. n \in Nat /\ seqs \in Seq(A) /\ \A i \in 1..n : seqs[i] \in A
  BY DEF A
<1>2. head \in Seq(A) /\ tail \in Seq(A)
  BY <1>1
<1>3. head \o tail = seqs
  <2>1. 1 \in 1..(n + 1) /\ d \in (1 - 1)..n /\ n \in d..n
    BY <1>1
  <2>2. SubSeq(seqs, 1, d) \o SubSeq(seqs, d + 1, n) = SubSeq(seqs, 1, n)
    BY <1>1, <2>1, ConcatAdjacentSubSeq
  <2>3. SubSeq(seqs, 1, n) = seqs
    BY <1>1, SubSeqFull
  <2> QED
    BY <2>2, <2>3
<1> HIDE DEF head, tail
<1>4. FlattenSeq(head \o tail) = FlattenSeq(head) \o FlattenSeq(tail)
  BY <1>2, FlattenConcat DEF A
<1> QED
  BY <1>2, <1>3, <1>4 DEF A, head, tail, n

\* The sequences that are not empty.
Filled(seqs) == {i \in 1..Len(seqs) : seqs[i] # <<>>}

LEMMA FilledIsFinite ==
    ASSUME NEW S, NEW seqs \in Seq(S)
    PROVE  IsFiniteSet(Filled(seqs)) /\ Cardinality(Filled(seqs)) \in Nat
<1>1. Len(seqs) \in Int /\ 1 \in Int
  OBVIOUS
<1>2. IsFiniteSet(1..Len(seqs))
  BY <1>1, FS_Interval
<1>3. IsFiniteSet(Filled(seqs))
  BY <1>2, FS_Subset DEF Filled
<1> QED
  BY <1>3, FS_CardinalityType

\* Each of them holds something.
LEMMA FlattenLength ==
    ASSUME NEW S, NEW seqs \in Seq(Seq(S))
    PROVE  Cardinality(Filled(seqs)) <= Len(FlattenSeq(seqs))
<1> DEFINE A == Seq(S)
           T == {s \in Seq(A) : Cardinality(Filled(s)) <= Len(FlattenSeq(s))}
<1>1. <<>> \in T
  <2>1. Filled(<<>>) = {}
    BY DEF Filled
  <2>2. Cardinality({}) = 0 /\ Len(<<>>) = 0
    BY FS_EmptySet
  <2>3. <<>> \in Seq(A)
    OBVIOUS
  <2>4. Cardinality(Filled(<<>>)) <= Len(FlattenSeq(<<>>))
    <3> HIDE DEF T, A
    <3>1. Cardinality(Filled(<<>>)) = 0
      BY <2>1, <2>2, Zenon
    <3>2. Len(FlattenSeq(<<>>)) = 0
      BY <2>2, FlattenEmpty, Zenon
    <3> QED
      BY <3>1, <3>2
  <2> QED
    BY <2>3, <2>4, Zenon
<1>2. ASSUME NEW s \in Seq(A), NEW e \in A, s \in T
      PROVE  Append(s, e) \in T
  <2> DEFINE u == Append(s, e)
             n == Len(s)
             c == Cardinality(Filled(s))
             d == Cardinality(Filled(u))
             l == Len(FlattenSeq(s))
             m == Len(FlattenSeq(u))
  <2>1. /\ n \in Nat /\ u \in Seq(A) /\ Len(u) = n + 1 /\ u[n + 1] = e
        /\ \A i \in 1..n : u[i] = s[i]
    OBVIOUS
  <2>2. c \in Nat /\ l \in Nat /\ c <= l
    BY <1>2, FilledIsFinite, FlattenType
  <2>3. m = l + Len(e) /\ Len(e) \in Nat
    <3>1. FlattenSeq(u) = FlattenSeq(s) \o e
      BY FlattenAppend
    <3>2. FlattenSeq(s) \in A
      BY FlattenType
    <3> QED
      BY <3>1, <3>2
  <2> HIDE DEF u, n, l, m
  <2>4. /\ Filled(s) = {i \in 1..n : s[i] # <<>>}
        /\ Filled(u) = {i \in 1..(n + 1) : u[i] # <<>>}
    BY <2>1 DEF Filled, n
  <2>5. CASE e = <<>>
    <3>1. Filled(u) = Filled(s)
      <4> HIDE DEF T, c, d
      <4>1. \A i \in 1..(n + 1) : u[i] # <<>> <=> i \in 1..n /\ s[i] # <<>>
        BY <2>1, <2>5
      <4>2. \A i \in 1..n : i \in 1..(n + 1)
        BY <2>1
      <4> QED
        BY <2>4, <4>1, <4>2
    <3>2. d <= m
      BY <2>2, <2>3, <2>5, <3>1
    <3> QED
      BY <2>1, <3>2 DEF u, m
  <2>6. CASE e # <<>>
    <3>1. Filled(u) = Filled(s) \cup {n + 1}
      <4> HIDE DEF T, c, d
      <4>1. \A i \in 1..(n + 1) : u[i] # <<>> <=> i = n + 1 \/ (i \in 1..n /\ s[i] # <<>>)
        BY <2>1, <2>6
      <4>2. n + 1 \in 1..(n + 1) /\ \A i \in 1..n : i \in 1..(n + 1)
        BY <2>1
      <4> QED
        BY <2>4, <4>1, <4>2
    <3>2. n + 1 \notin Filled(s)
      BY <2>1 DEF Filled, n
    <3>3. d = c + 1
      BY <3>1, <3>2, FilledIsFinite, FS_AddElement
    <3>4. Len(e) # 0
      BY <2>6
    <3> HIDE DEF c
    <3>5. d <= m
      BY <2>2, <2>3, <3>3, <3>4
    <3> QED
      BY <2>1, <3>5 DEF u, m
  <2> QED
    BY <2>5, <2>6
<1> HIDE DEF T
<1>3. seqs \in T
  BY <1>1, <1>2, SequenceInduction
<1> QED
  BY <1>3 DEF T

=============================================================================

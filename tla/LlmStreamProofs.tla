--------------------------- MODULE LlmStreamProofs ---------------------------
(***************************************************************************)
(* A request to the LLM, for every number of retries and every stream: its *)
(* types, what a retry may follow, that its text is passed on once, and    *)
(* that its tool calls are those which the fragments of one attempt mean.  *)
(*                                                                         *)
(* What a fold computes is proved by induction (SetInduction); a fold is   *)
(* compared with one whose step is a function (Folds).                     *)
(***************************************************************************)
EXTENDS LlmStream, SequenceProofs

-----------------------------------------------------------------------------
(***************************************************************************)
(* The greatest index, and folds.                                          *)
(***************************************************************************)

LEMMA MaxOfNumbers ==
    ASSUME NEW n \in Nat, NEW s \in SUBSET (1..n), s # {}
    PROVE  Max(s) \in s /\ \A y \in s : Max(s) >= y
<1> DEFINE U == {m \in Nat : \A y \in s : m >= y}
<1>1. n \in U /\ U \subseteq Nat
  OBVIOUS
<1>2. PICK m \in U : \A e \in U : <<e, m>> \notin OpToRel(<, Nat)
  BY <1>1, NatLessThanWellFounded, WFMin, Zenon
<1>3. \A e \in U : ~ (e < m)
  BY <1>1, <1>2, Zenon DEF OpToRel
<1>4. m \in s
  <2>1. SUFFICES ASSUME m \notin s
                 PROVE  FALSE
    OBVIOUS
  <2>2. \A y \in s : y \in Nat /\ y >= 1 /\ m >= y /\ y # m
    BY <2>1
  <2>3. m \in Nat /\ m # 0
    <3>1. PICK y \in s : TRUE
      OBVIOUS
    <3> QED
      BY <2>2, <3>1
  <2>4. m - 1 \in Nat /\ m - 1 < m
    BY <2>3
  <2>5. \A y \in s : m - 1 >= y
    BY <2>2, <2>3
  <2> QED
    BY <1>3, <2>4, <2>5
<1>5. \E x \in s : \A y \in s : x >= y
  BY <1>4
<1> QED
  BY <1>5, Zenon DEF Max

LEMMA MaxWithLast ==
    ASSUME NEW k \in Nat, NEW s \in SUBSET (1..(k + 1)), k + 1 \in s
    PROVE  Max(s) = k + 1
<1>1. k + 1 \in Nat /\ s # {}
  OBVIOUS
<1>2. Max(s) \in s /\ \A y \in s : Max(s) >= y
  BY <1>1, MaxOfNumbers
<1>3. Max(s) \in 1..(k + 1) /\ Max(s) >= k + 1
  BY <1>2
<1> QED
  BY <1>3

\* f has the results of folding step over each of the subsets of 1..n, as FoldLeft
\* computes them from the indexes of a sequence.
Folds(f, base, step, n) ==
    \A s \in SUBSET (1..n) :
        f[s] = IF s = {} THEN base ELSE step[<<f[s \ {Max(s)}], Max(s)>>]

FoldExists(A, base, step, n) == \E f \in [SUBSET (1..n) -> A] : Folds(f, base, step, n)

LEMMA FoldDefined ==
    ASSUME NEW A, NEW base \in A, NEW n \in Nat, NEW step \in [A \X (1..n) -> A]
    PROVE  \E f \in [SUBSET (1..n) -> A] : Folds(f, base, step, n)
<1> DEFINE T == {k \in Nat : k <= n => FoldExists(A, base, step, k)}
<1>1. 0 \in T
  <2> DEFINE f == [s \in SUBSET (1..0) |-> base]
  <2>1. f \in [SUBSET (1..0) -> A]
    OBVIOUS
  <2>2. Folds(f, base, step, 0)
    <3>1. \A s \in SUBSET (1..0) : s = {}
      OBVIOUS
    <3> QED
      BY <3>1 DEF Folds
  <2>3. FoldExists(A, base, step, 0)
    BY <2>1, <2>2, Zenon DEF FoldExists
  <2> QED
    BY <2>3
<1>2. ASSUME NEW k \in Nat, k \in T
      PROVE  k + 1 \in T
  <2>1. SUFFICES ASSUME k + 1 <= n
                 PROVE  FoldExists(A, base, step, k + 1)
    OBVIOUS
  <2>2. PICK f \in [SUBSET (1..k) -> A] : Folds(f, base, step, k)
    <3>1. k <= n
      BY <2>1
    <3> QED
      BY <1>2, <3>1 DEF FoldExists
  <2> DEFINE g == [s \in SUBSET (1..(k + 1)) |->
                     IF k + 1 \in s THEN step[<<f[s \ {k + 1}], k + 1>>] ELSE f[s]]
  <2>3. \A s \in SUBSET (1..(k + 1)) : s \ {k + 1} \in SUBSET (1..k)
    OBVIOUS
  <2>4. \A s \in SUBSET (1..(k + 1)) : k + 1 \notin s => s \in SUBSET (1..k)
    OBVIOUS
  <2>5. k + 1 \in 1..n /\ SUBSET (1..k) \subseteq SUBSET (1..(k + 1))
    BY <2>1
  <2>6. g \in [SUBSET (1..(k + 1)) -> A]
    <3>1. ASSUME NEW s \in SUBSET (1..(k + 1)), k + 1 \in s
          PROVE  step[<<f[s \ {k + 1}], k + 1>>] \in A
      BY <2>3, <2>5
    <3>2. ASSUME NEW s \in SUBSET (1..(k + 1)), k + 1 \notin s
          PROVE  f[s] \in A
      BY <2>4, <3>2
    <3> QED
      BY <3>1, <3>2
  <2>7. ASSUME NEW s \in SUBSET (1..k)
        PROVE  g[s] = f[s]
    <3>1. k + 1 \notin s
      OBVIOUS
    <3> QED
      BY <2>5, <3>1
  <2>8. Folds(g, base, step, k + 1)
    <3> SUFFICES ASSUME NEW s \in SUBSET (1..(k + 1))
                 PROVE  g[s] = IF s = {} THEN base ELSE step[<<g[s \ {Max(s)}], Max(s)>>]
      BY DEF Folds
    <3>1. CASE k + 1 \in s
      <4>1. Max(s) = k + 1
        BY <3>1, MaxWithLast
      <4>2. g[s] = step[<<f[s \ {k + 1}], k + 1>>]
        BY <3>1
      <4>3. g[s \ {k + 1}] = f[s \ {k + 1}]
        BY <2>3, <2>7
      <4> QED
        BY <3>1, <4>1, <4>2, <4>3, Zenon
    <3>2. CASE k + 1 \notin s
      <4>1. s \in SUBSET (1..k)
        BY <2>4, <3>2
      <4>2. g[s] = f[s]
        BY <2>7, <4>1
      <4>3. f[s] = IF s = {} THEN base ELSE step[<<f[s \ {Max(s)}], Max(s)>>]
        BY <2>2, <4>1 DEF Folds
      <4>4. g[s \ {Max(s)}] = f[s \ {Max(s)}]
        BY <2>7, <4>1
      <4> QED
        BY <4>2, <4>3, <4>4
    <3> QED
      BY <3>1, <3>2
  <2> HIDE DEF g
  <2> QED
    BY <2>6, <2>8, Zenon DEF FoldExists
<1> HIDE DEF T
<1>3. Nat \subseteq T
  BY <1>1, <1>2, SetInduction
<1>4. n \in T
  BY <1>3
<1>5. FoldExists(A, base, step, n)
  BY <1>4 DEF T
<1> QED
  BY <1>5, Zenon DEF FoldExists

\* What each step of a fold preserves holds of its result.
LEMMA FoldTyped ==
    ASSUME NEW A, NEW n \in Nat, NEW f, f[{}] \in A,
           \A s \in SUBSET (1..n) : s # {} /\ f[s \ {Max(s)}] \in A => f[s] \in A
    PROVE  \A s \in SUBSET (1..n) : f[s] \in A
<1> DEFINE T == {k \in Nat : k <= n => \A s \in SUBSET (1..k) : f[s] \in A}
<1>1. 0 \in T
  <2>1. \A s \in SUBSET (1..0) : s = {}
    OBVIOUS
  <2> QED
    BY <2>1
<1>2. ASSUME NEW k \in Nat, k \in T
      PROVE  k + 1 \in T
  <2>1. SUFFICES ASSUME k + 1 <= n, NEW s \in SUBSET (1..(k + 1))
                 PROVE  f[s] \in A
    OBVIOUS
  <2>2. CASE k + 1 \in s
    <3>1. Max(s) = k + 1
      BY <2>2, MaxWithLast
    <3>2. s \ {k + 1} \in SUBSET (1..k) /\ k <= n
      BY <2>1
    <3>3. f[s \ {k + 1}] \in A
      BY <1>2, <3>2
    <3>4. s \in SUBSET (1..n) /\ s # {}
      BY <2>1, <2>2
    <3> QED
      BY <3>1, <3>3, <3>4
  <2>3. CASE k + 1 \notin s
    <3>1. s \in SUBSET (1..k) /\ k <= n
      BY <2>1, <2>3
    <3> QED
      BY <1>2, <3>1
  <2> QED
    BY <2>2, <2>3
<1> HIDE DEF T
<1>3. n \in T
  BY <1>1, <1>2, SetInduction
<1> USE DEF T
<1> QED
  BY <1>3

-----------------------------------------------------------------------------
(***************************************************************************)
(* The tool calls.                                                         *)
(***************************************************************************)

\* tool_call_accumulators
Accumulators ==
    UNION {[I -> ToolCall] : I \in {J \in SUBSET Nat : IsFiniteSet(J)}}

LEMMA AccumulatorsIs ==
    ASSUME NEW f
    PROVE  f \in Accumulators <=> /\ IsFiniteSet(DOMAIN f)
                                  /\ f \in [DOMAIN f -> ToolCall]
                                  /\ DOMAIN f \subseteq Nat
  BY DEF Accumulators

LEMMA NewCallType == NewCall \in ToolCall
<1>1. <<>> \in Seq(STRING)
  BY NoPieces, Zenon
<1>2. "" \in Label
  BY DEF Label
<1> QED
  BY <1>1, <1>2, Zenon DEF NewCall, ToolCall

LEMMA MergeType ==
    ASSUME NEW f \in Accumulators, NEW delta \in Delta
    PROVE  Merge(f, delta) \in Accumulators
<1> DEFINE known == delta.index \in DOMAIN f
           call == IF known THEN f[delta.index] ELSE NewCall
           merged == [id |-> IF delta.id # "" THEN delta.id ELSE call.id,
                      name |-> IF delta.name # "" THEN delta.name ELSE call.name,
                      arguments |-> call.arguments \o delta.arguments]
           D == DOMAIN f \cup {delta.index}
           g == [index \in D |-> IF index = delta.index THEN merged ELSE f[index]]
<1>1. Merge(f, delta) = g
  BY Zenon DEF Merge
<1>2. IsFiniteSet(DOMAIN f) /\ f \in [DOMAIN f -> ToolCall] /\ DOMAIN f \subseteq Nat
  BY AccumulatorsIs
<1>3. /\ delta.index \in Nat /\ delta.id \in Label /\ delta.name \in Label
      /\ delta.arguments \in Seq(STRING)
  BY DEF Delta
<1>4. call \in ToolCall
  <2>1. NewCall \in ToolCall
    BY NewCallType
  <2> QED
    BY <1>2, <2>1
<1> HIDE DEF call
<1>5. merged \in ToolCall
  <2>1. call.id \in Label /\ call.name \in Label /\ call.arguments \in Seq(STRING)
    BY <1>4 DEF ToolCall
  <2>2. call.arguments \o delta.arguments \in Seq(STRING)
    BY <1>3, <2>1
  <2> QED
    BY <1>3, <2>1, <2>2 DEF ToolCall
<1> HIDE DEF merged
<1>6. IsFiniteSet(D) /\ D \subseteq Nat
  BY <1>2, <1>3, FS_AddElement
<1>7. DOMAIN g = D /\ g \in [D -> ToolCall]
  BY <1>2, <1>5
<1> HIDE DEF g, D
<1> QED
  BY <1>1, <1>6, <1>7, AccumulatorsIs

\* Merging deltas into f, from the first to the last.
Merges(iter, f, deltas, n) ==
    /\ iter[{}] = f
    /\ \A s \in SUBSET (1..n) :
          s # {} => iter[s] = Merge(iter[s \ {Max(s)}], deltas[Max(s)])

LEMMA FoldMergeIs ==
    ASSUME NEW f \in Accumulators, NEW deltas \in Seq(Delta)
    PROVE  \E iter : /\ Merges(iter, f, deltas, Len(deltas))
                     /\ FoldLeft(Merge, f, deltas) = iter[1..Len(deltas)]
<1> DEFINE n == Len(deltas)
           IsIter(g) ==
             g = [s \in SUBSET (DOMAIN deltas) |->
                    IF s = {} THEN f ELSE Merge(g[s \ {Max(s)}], deltas[Max(s)])]
           iter == CHOOSE g : IsIter(g)
           step == [x \in Accumulators \X (1..n) |-> Merge(x[1], deltas[x[2]])]
<1>0. n \in Nat /\ DOMAIN deltas = 1..n /\ \A i \in 1..n : deltas[i] \in Delta
  OBVIOUS
<1>1. FoldLeft(Merge, f, deltas) = iter[DOMAIN deltas]
  BY DEF FoldLeft, MapThenFoldSet
<1> HIDE DEF n
<1>2. step \in [Accumulators \X (1..n) -> Accumulators]
  BY <1>0, MergeType
<1>3. \A x \in Accumulators, i \in 1..n : step[<<x, i>>] = Merge(x, deltas[i])
  OBVIOUS
<1> HIDE DEF step
<1>4. PICK g \in [SUBSET (1..n) -> Accumulators] : Folds(g, f, step, n)
  BY <1>0, <1>2, FoldDefined
<1>5. \A s \in SUBSET (1..n) : s # {} => Max(s) \in 1..n /\ s \ {Max(s)} \in SUBSET (1..n)
  BY <1>0, MaxOfNumbers
<1>6. \A s \in SUBSET (1..n) :
         g[s] = IF s = {} THEN f ELSE Merge(g[s \ {Max(s)}], deltas[Max(s)])
  BY <1>3, <1>4, <1>5 DEF Folds
<1>7. IsIter(g)
  BY <1>0, <1>6
<1>8. IsIter(iter)
  BY <1>7, Zenon
<1> HIDE DEF iter, IsIter
<1>9. Merges(iter, f, deltas, n)
  BY <1>0, <1>8 DEF IsIter, Merges
<1> QED
  BY <1>0, <1>1, <1>9 DEF n

LEMMA FoldMergeType ==
    ASSUME NEW f \in Accumulators, NEW deltas \in Seq(Delta)
    PROVE  FoldLeft(Merge, f, deltas) \in Accumulators
<1> DEFINE n == Len(deltas)
<1>0. n \in Nat /\ \A i \in 1..n : deltas[i] \in Delta
  OBVIOUS
<1>1. PICK iter : Merges(iter, f, deltas, n) /\ FoldLeft(Merge, f, deltas) = iter[1..n]
  BY FoldMergeIs, Zenon
<1> HIDE DEF n
<1>2. /\ iter[{}] = f
      /\ \A s \in SUBSET (1..n) :
            s # {} => iter[s] = Merge(iter[s \ {Max(s)}], deltas[Max(s)])
  BY <1>1, Zenon DEF Merges
<1>3. \A s \in SUBSET (1..n) : iter[s] \in Accumulators
  <2>1. ASSUME NEW s \in SUBSET (1..n), s # {}, iter[s \ {Max(s)}] \in Accumulators
        PROVE  iter[s] \in Accumulators
    <3>1. Max(s) \in 1..n
      BY <1>0, <2>1, MaxOfNumbers
    <3> QED
      BY <1>0, <1>2, <2>1, <3>1, MergeType
  <2> QED
    BY <1>0, <1>2, <2>1, FoldTyped
<1> QED
  BY <1>0, <1>1, <1>3

LEMMA PlaceTaken ==
    ASSUME NEW indexes \in SUBSET Nat, IsFiniteSet(indexes),
           NEW k \in 1..Cardinality(indexes)
    PROVE  \E index \in indexes : Place(indexes, index) = k
<1> DEFINE Below(i) == {j \in indexes : j <= i}
           c == Cardinality(indexes)
           T == {n \in Nat : n < c => \E i \in indexes : Cardinality(Below(i)) = n + 1}
<1>1. c \in Nat
  BY FS_CardinalityType
<1>2. ASSUME NEW L \in SUBSET indexes, L # indexes
      PROVE  \E i \in indexes \ L : \A j \in indexes \ L : i <= j
  <2> DEFINE U == indexes \ L
  <2>1. U \subseteq Nat /\ U # {}
    BY <1>2
  <2>2. PICK i \in U : \A e \in U : <<e, i>> \notin OpToRel(<, Nat)
    BY <2>1, NatLessThanWellFounded, WFMin, Zenon
  <2>3. \A e \in U : ~ (e < i)
    BY <2>1, <2>2, Zenon DEF OpToRel
  <2> QED
    BY <2>1, <2>3
<1>3. 0 \in T
  <2>1. SUFFICES ASSUME 0 < c
                 PROVE  \E i \in indexes : Cardinality(Below(i)) = 1
    OBVIOUS
  <2>2. indexes # {}
    BY <2>1, FS_EmptySet
  <2>3. PICK i \in indexes \ {} : \A j \in indexes \ {} : i <= j
    BY <1>2, <2>2
  <2>4. Below(i) = {i}
    <3>1. i \in Nat /\ \A j \in indexes : j \in Nat /\ (j <= i => j = i)
      BY <2>3
    <3> QED
      BY <2>3, <3>1
  <2> QED
    BY <2>4, FS_Singleton
<1>4. ASSUME NEW n \in Nat, n \in T
      PROVE  n + 1 \in T
  <2>1. SUFFICES ASSUME n + 1 < c
                 PROVE  \E i \in indexes : Cardinality(Below(i)) = n + 1 + 1
    OBVIOUS
  <2>2. PICK i \in indexes : Cardinality(Below(i)) = n + 1
    BY <1>1, <1>4, <2>1
  <2>3. Below(i) \in SUBSET indexes /\ Below(i) # indexes
    <3>1. Cardinality(indexes) # Cardinality(Below(i))
      BY <1>1, <2>1, <2>2
    <3>2. Below(i) # indexes
      BY <3>1
    <3> QED
      BY <3>2
  <2>4. PICK m \in indexes \ Below(i) : \A j \in indexes \ Below(i) : m <= j
    BY <1>2, <2>3
  <2>5. m \in Nat /\ i \in Nat /\ m > i
    BY <2>4
  <2>6. Below(m) = Below(i) \cup {m}
    <3>1. ASSUME NEW j \in indexes
          PROVE  j <= m <=> j <= i \/ j = m
      <4>1. j \in Nat
        OBVIOUS
      <4>2. ~ (j <= i) => m <= j
        BY <2>4
      <4> QED
        BY <2>5, <4>1, <4>2
    <3> QED
      BY <2>4, <3>1
  <2>7. IsFiniteSet(Below(i))
    BY <2>3, FS_Subset
  <2>8. Cardinality(Below(i) \cup {m}) = Cardinality(Below(i)) + 1
    BY <2>4, <2>7, FS_AddElement
  <2> QED
    BY <2>2, <2>4, <2>6, <2>8
<1> HIDE DEF T
<1>5. k - 1 \in T /\ k - 1 < c /\ k - 1 + 1 = k
  <2>1. k - 1 \in Nat /\ k - 1 < c /\ k - 1 + 1 = k
    BY <1>1
  <2> QED
    BY <1>3, <1>4, <2>1, SetInduction
<1>6. \E i \in indexes : Cardinality(Below(i)) = k
  BY <1>5 DEF T
<1> QED
  BY <1>6 DEF Place

LEMMA FlushedType ==
    ASSUME NEW f \in Accumulators
    PROVE  Flushed(f) \in Seq(ToolCall)
<1> DEFINE Nth(k) == CHOOSE index \in DOMAIN f : Place(DOMAIN f, index) = k
           n == Cardinality(DOMAIN f)
<1>1. IsFiniteSet(DOMAIN f) /\ f \in [DOMAIN f -> ToolCall] /\ DOMAIN f \in SUBSET Nat
  BY AccumulatorsIs
<1>2. n \in Nat
  BY <1>1, FS_CardinalityType
<1>3. ASSUME NEW k \in 1..n
      PROVE  f[Nth(k)] \in ToolCall
  <2>1. \E index \in DOMAIN f : Place(DOMAIN f, index) = k
    BY <1>1, PlaceTaken
  <2>2. Nth(k) \in DOMAIN f
    BY <2>1, Zenon
  <2> QED
    BY <1>1, <2>2, Zenon
<1>4. Flushed(f) = [k \in 1..n |-> f[Nth(k)]]
  BY Zenon DEF Flushed
<1> HIDE DEF Nth, n
<1> QED
  BY <1>2, <1>3, <1>4

-----------------------------------------------------------------------------
(***************************************************************************)
(* Retries.                                                                *)
(***************************************************************************)

\* RetriesAreSilent needs to know of the attempt under way that it has passed
\* nothing on while it is not yielded, and of a backoff that an attempt is left.
RetryInv ==
    /\ DOMAIN stream = DOMAIN Request
    /\ stream.attempt \in Nat
    /\ stream.attempt <= MaxRetries
    /\ stream.at = "backoff" => stream.attempt < MaxRetries
    /\ stream.at \in {"open", "read", "backoff"} => stream.calls = <<>>
    /\ stream.at \in {"open", "backoff"} => stream.text = <<>>
    /\ stream.at = "read" => stream.yielded \/ stream.text = <<>>

LEMMA RequestDomain ==
    DOMAIN Request = {"at", "attempt", "yielded", "accumulators", "text", "calls", "received"}
  BY DEF Request

LEMMA RetryInit == StreamInit => RetryInv
<1> SUFFICES ASSUME StreamInit
             PROVE  RetryInv
  OBVIOUS
<1>1. /\ DOMAIN stream = DOMAIN Request
      /\ stream.at = "open"
      /\ stream.attempt = 0
      /\ stream.text = <<>>
      /\ stream.calls = <<>>
  BY DEF StreamInit, Request
<1> QED
  BY <1>1, LlmStreamAssumption DEF RetryInv

LEMMA RetryOpens == RetryInv /\ StreamOpens => RetryInv'
  BY RequestDomain DEF RetryInv, StreamOpens

LEMMA RetryChunk == RetryInv /\ ChunkArrives => RetryInv'
<1> SUFFICES ASSUME RetryInv, ChunkArrives
             PROVE  RetryInv'
  OBVIOUS
<1>1. PICK chunk \in Chunks :
        /\ stream.at = "read"
        /\ stream' = [stream EXCEPT
              !.yielded = stream.yielded \/ chunk.text # <<>>,
              !.accumulators = FoldLeft(Merge, stream.accumulators, chunk.deltas),
              !.text = stream.text \o chunk.text,
              !.received = Append(stream.received, chunk)]
  BY DEF ChunkArrives
<1> DEFINE merged == FoldLeft(Merge, stream.accumulators, chunk.deltas)
<1>2. stream' = [stream EXCEPT
              !.yielded = stream.yielded \/ chunk.text # <<>>,
              !.accumulators = merged,
              !.text = stream.text \o chunk.text,
              !.received = Append(stream.received, chunk)]
  BY <1>1
<1> HIDE DEF merged
<1>3. /\ DOMAIN stream' = DOMAIN Request
      /\ stream'.at = "read"
      /\ stream'.attempt = stream.attempt
      /\ stream'.calls = stream.calls
      /\ stream'.text = stream.text \o chunk.text
      /\ stream'.yielded = (stream.yielded \/ chunk.text # <<>>)
  BY <1>1, <1>2, RequestDomain DEF RetryInv
<1>4. ASSUME ~ stream'.yielded
      PROVE  stream'.text = <<>>
  <2>1. stream.text = <<>> /\ chunk.text = <<>>
    BY <1>1, <1>3, <1>4, Zenon DEF RetryInv
  <2> QED
    BY <1>3, <2>1
<1> QED
  BY <1>1, <1>3, <1>4 DEF RetryInv

LEMMA RetryEnds == RetryInv /\ StreamEnds => RetryInv'
<1> SUFFICES ASSUME RetryInv, StreamEnds
             PROVE  RetryInv'
  OBVIOUS
<1> DEFINE flushed == Flushed(stream.accumulators)
           some == stream.yielded \/ DOMAIN stream.accumulators # {}
<1>1. stream' = [stream EXCEPT !.at = "ended", !.yielded = some, !.calls = flushed]
  BY DEF StreamEnds
<1> HIDE DEF flushed, some
<1> QED
  BY <1>1, RequestDomain DEF RetryInv

LEMMA RetryBreaks == RetryInv /\ StreamBreaks => RetryInv'
<1> SUFFICES ASSUME RetryInv, StreamBreaks
             PROVE  RetryInv'
  OBVIOUS
<1>1. /\ DOMAIN stream' = DOMAIN Request
      /\ stream'.attempt = stream.attempt
      /\ stream'.text = stream.text
      /\ stream'.calls = stream.calls
      /\ stream'.at = IF stream.yielded \/ stream.attempt >= MaxRetries
                      THEN "failed" ELSE "backoff"
  BY RequestDomain DEF RetryInv, StreamBreaks
<1>2. CASE stream.yielded \/ stream.attempt >= MaxRetries
  BY <1>1, <1>2 DEF RetryInv
<1>3. CASE ~ (stream.yielded \/ stream.attempt >= MaxRetries)
  <2>1. stream.text = <<>> /\ stream.calls = <<>>
    BY <1>3 DEF RetryInv, StreamBreaks
  <2>2. stream.attempt < MaxRetries
    BY <1>3, LlmStreamAssumption DEF RetryInv
  <2> QED
    BY <1>1, <1>3, <2>1, <2>2 DEF RetryInv
<1> QED
  BY <1>2, <1>3

LEMMA RetryBackoff == RetryInv /\ BackoffEnds => RetryInv'
<1> SUFFICES ASSUME RetryInv, BackoffEnds
             PROVE  RetryInv'
  OBVIOUS
<1>1. /\ DOMAIN stream' = DOMAIN Request
      /\ stream'.at = "open"
      /\ stream'.attempt = stream.attempt + 1
      /\ stream'.text = stream.text
      /\ stream'.calls = stream.calls
  BY RequestDomain DEF RetryInv, BackoffEnds
<1> QED
  BY <1>1, LlmStreamAssumption DEF RetryInv, BackoffEnds

\* A request is tried again only while the caller has got nothing of it, and at
\* most max_retries times: no audio is doubled by a retry (retry.py:3-6, 31-34).
THEOREM RetriesSilent == StreamSpec => []RetriesAreSilent
<1>1. RetryInv /\ [StreamNext]_stream => RetryInv'
  <2>1. ASSUME RetryInv, UNCHANGED stream
        PROVE  RetryInv'
    BY <2>1 DEF RetryInv
  <2> QED
    BY <2>1, RetryOpens, RetryChunk, RetryEnds, RetryBreaks, RetryBackoff
       DEF StreamNext, StreamStep, RequestOver
<1>2. RetryInv => RetriesAreSilent
  BY DEF RetryInv, RetriesAreSilent
<1> QED
  BY RetryInit, <1>1, <1>2, PTL DEF StreamSpec

-----------------------------------------------------------------------------
(***************************************************************************)
(* The types of a stream.                                                  *)
(***************************************************************************)

StreamData ==
    /\ stream.at \in {"idle", "open", "read", "backoff", "ended", "failed"}
    /\ stream.yielded \in BOOLEAN
    /\ stream.accumulators \in Accumulators
    /\ stream.text \in Seq(STRING)
    /\ stream.calls \in Seq(ToolCall)
    /\ stream.received \in Seq(Chunk)

StreamInv == RetryInv /\ StreamData

LEMMA NoAccumulators == NoCalls \in Accumulators
<1>1. DOMAIN NoCalls = {} /\ NoCalls \in [{} -> ToolCall]
  BY DEF NoCalls
<1>2. IsFiniteSet(DOMAIN NoCalls)
  BY <1>1, FS_EmptySet
<1> QED
  BY <1>1, <1>2, AccumulatorsIs

LEMMA RequestFields ==
    ASSUME stream \in {Request, NoRequest}
    PROVE  /\ DOMAIN stream = DOMAIN Request
           /\ stream.at = IF stream = Request THEN "open" ELSE "idle"
           /\ stream.attempt = 0
           /\ stream.yielded = FALSE
           /\ stream.accumulators = NoCalls
           /\ stream.text = <<>>
           /\ stream.calls = <<>>
           /\ stream.received = <<>>
<1>1. CASE stream = Request
  BY <1>1 DEF Request
<1>2. CASE stream = NoRequest
  <2>1. /\ DOMAIN stream = DOMAIN Request
        /\ stream.at = "idle"
        /\ stream.attempt = 0
        /\ stream.yielded = FALSE
        /\ stream.accumulators = NoCalls
        /\ stream.text = <<>>
        /\ stream.calls = <<>>
        /\ stream.received = <<>>
    BY <1>2 DEF NoRequest, Request
  <2>2. stream # Request
    BY <2>1 DEF Request
  <2> QED
    BY <2>1, <2>2
<1> QED
  BY <1>1, <1>2

\* A request that starts, and the absence of one.
LEMMA StreamStarts == stream \in {Request, NoRequest} => StreamInv
<1> SUFFICES ASSUME stream \in {Request, NoRequest}
             PROVE  StreamInv
  OBVIOUS
<1>1. stream.at \in {"open", "idle"}
  BY RequestFields
<1>2. RetryInv
  <2>1. /\ DOMAIN stream = DOMAIN Request
        /\ stream.attempt = 0
        /\ stream.text = <<>>
        /\ stream.calls = <<>>
    BY RequestFields, Zenon
  <2>2. MaxRetries \in Nat
    BY LlmStreamAssumption
  <2> QED
    BY <1>1, <2>1, <2>2 DEF RetryInv
<1>3. StreamData
  <2>1. stream.text \in Seq(STRING)
    BY RequestFields, NoPieces, Zenon
  <2>2. stream.calls \in Seq(ToolCall)
    BY RequestFields, NoPieces, Zenon
  <2>3. stream.received \in Seq(Chunk)
    BY RequestFields, NoPieces, Zenon
  <2>4. stream.accumulators \in Accumulators
    BY RequestFields, NoAccumulators, Zenon
  <2>5. stream.yielded \in BOOLEAN
    BY RequestFields
  <2> QED
    BY <1>1, <2>1, <2>2, <2>3, <2>4, <2>5 DEF StreamData
<1> QED
  BY <1>2, <1>3 DEF StreamInv

\* What a chunk adds, field by field.
LEMMA ChunkFields ==
    ASSUME RetryInv, ChunkArrives
    PROVE  /\ stream.at = "read" /\ stream'.at = "read"
           /\ stream'.attempt = stream.attempt
           /\ stream'.calls = stream.calls
           /\ \E chunk \in Chunks :
                /\ stream'.yielded = (stream.yielded \/ chunk.text # <<>>)
                /\ stream'.accumulators = FoldLeft(Merge, stream.accumulators, chunk.deltas)
                /\ stream'.text = stream.text \o chunk.text
                /\ stream'.received = Append(stream.received, chunk)
<1>1. PICK chunk \in Chunks :
        /\ stream.at = "read"
        /\ stream' = [stream EXCEPT
              !.yielded = stream.yielded \/ chunk.text # <<>>,
              !.accumulators = FoldLeft(Merge, stream.accumulators, chunk.deltas),
              !.text = stream.text \o chunk.text,
              !.received = Append(stream.received, chunk)]
  BY DEF ChunkArrives
<1> DEFINE merged == FoldLeft(Merge, stream.accumulators, chunk.deltas)
           heard == (stream.yielded \/ chunk.text # <<>>)
<1>2. stream' = [stream EXCEPT !.yielded = heard,
                               !.accumulators = merged,
                               !.text = stream.text \o chunk.text,
                               !.received = Append(stream.received, chunk)]
  BY <1>1
<1> HIDE DEF merged, heard
<1>3. /\ stream'.at = stream.at
      /\ stream'.attempt = stream.attempt
      /\ stream'.calls = stream.calls
      /\ stream'.text = stream.text \o chunk.text
      /\ stream'.accumulators = merged
      /\ stream'.received = Append(stream.received, chunk)
      /\ stream'.yielded = heard
  BY <1>2, RequestDomain DEF RetryInv
<1> USE DEF merged, heard
<1> QED
  BY <1>1, <1>3, Zenon

\* What the end of a stream passes on.
LEMMA EndFields ==
    ASSUME RetryInv, StreamEnds
    PROVE  /\ stream.at = "read" /\ stream'.at = "ended"
           /\ stream'.yielded = (stream.yielded \/ DOMAIN stream.accumulators # {})
           /\ stream'.calls = Flushed(stream.accumulators)
           /\ UNCHANGED <<stream.attempt, stream.accumulators, stream.text, stream.received>>
<1> DEFINE flushed == Flushed(stream.accumulators)
           some == (stream.yielded \/ DOMAIN stream.accumulators # {})
<1>1. stream.at = "read" /\ stream' = [stream EXCEPT !.at = "ended", !.yielded = some, !.calls = flushed]
  BY DEF StreamEnds
<1> HIDE DEF flushed, some
<1>2. /\ stream'.at = "ended" /\ stream'.yielded = some /\ stream'.calls = flushed
      /\ UNCHANGED <<stream.attempt, stream.accumulators, stream.text, stream.received>>
  BY <1>1, RequestDomain DEF RetryInv
<1> USE DEF flushed, some
<1> QED
  BY <1>1, <1>2, Zenon

LEMMA StreamTypes == RetryInv /\ StreamData /\ StreamStep => StreamData'
<1> SUFFICES ASSUME RetryInv, StreamData, StreamStep
             PROVE  StreamData'
  OBVIOUS
<1>1. CASE StreamOpens
  BY <1>1, RequestDomain DEF StreamOpens, RetryInv, StreamData
<1>2. CASE ChunkArrives
  <2>1. PICK chunk \in Chunks :
          /\ stream'.yielded = (stream.yielded \/ chunk.text # <<>>)
          /\ stream'.accumulators = FoldLeft(Merge, stream.accumulators, chunk.deltas)
          /\ stream'.text = stream.text \o chunk.text
          /\ stream'.received = Append(stream.received, chunk)
    BY <1>2, ChunkFields, Zenon
  <2>2. stream'.at = "read" /\ stream'.calls = stream.calls
    BY <1>2, ChunkFields, Zenon
  <2>3. chunk \in Chunk /\ chunk.text \in Seq(STRING) /\ chunk.deltas \in Seq(Delta)
    BY LlmStreamAssumption DEF Chunk
  <2>4. stream'.yielded \in BOOLEAN
    BY <2>1, Zenon
  <2>5. stream'.accumulators \in Accumulators
    BY <2>1, <2>3, FoldMergeType, Zenon DEF StreamData
  <2>6. stream'.text \in Seq(STRING) /\ stream'.received \in Seq(Chunk)
    <3>1. stream.text \o chunk.text \in Seq(STRING) /\ Append(stream.received, chunk) \in Seq(Chunk)
      BY <2>3 DEF StreamData
    <3> QED
      BY <2>1, <3>1, Zenon
  <2> QED
    BY <2>2, <2>4, <2>5, <2>6 DEF StreamData
<1>3. CASE StreamEnds
  <2>1. stream'.calls \in Seq(ToolCall)
    BY <1>3, EndFields, FlushedType, Zenon DEF StreamData
  <2>2. stream'.yielded \in BOOLEAN
    BY <1>3, EndFields, Zenon
  <2> QED
    BY <1>3, <2>1, <2>2, EndFields DEF StreamData
<1>4. CASE StreamBreaks
  <2>1. stream'.at \in {"failed", "backoff"}
        /\ UNCHANGED <<stream.yielded, stream.accumulators, stream.text, stream.calls, stream.received>>
    BY <1>4, RequestDomain DEF StreamBreaks, RetryInv
  <2> QED
    BY <2>1 DEF StreamData
<1>5. CASE BackoffEnds
  <2>1. /\ stream'.at = "open" /\ stream'.yielded = FALSE
        /\ stream'.accumulators = NoCalls /\ stream'.received = <<>>
        /\ UNCHANGED <<stream.text, stream.calls>>
    BY <1>5, RequestDomain DEF BackoffEnds, RetryInv
  <2>2. stream'.received \in Seq(Chunk)
    BY <2>1, NoPieces, Zenon
  <2>3. stream'.accumulators \in Accumulators
    BY <2>1, NoAccumulators, Zenon
  <2> QED
    BY <2>1, <2>2, <2>3 DEF StreamData
<1> QED
  BY <1>1, <1>2, <1>3, <1>4, <1>5 DEF StreamStep

LEMMA StreamSteps == StreamInv /\ StreamStep => StreamInv'
  BY StreamTypes, RetryOpens, RetryChunk, RetryEnds, RetryBreaks, RetryBackoff
     DEF StreamInv, StreamStep

LEMMA StreamInvType == StreamInv => StreamTypeOK
<1> SUFFICES ASSUME StreamInv
             PROVE  StreamTypeOK
  OBVIOUS
<1>1. stream.attempt \in 0..MaxRetries
  BY LlmStreamAssumption DEF StreamInv, RetryInv
<1>2. /\ DOMAIN stream.accumulators \subseteq Nat
      /\ \A index \in DOMAIN stream.accumulators : stream.accumulators[index] \in ToolCall
  BY AccumulatorsIs DEF StreamInv, StreamData
<1> QED
  BY <1>1, <1>2 DEF StreamTypeOK, StreamInv, StreamData, RetryInv

\* Whatever arrives on a stream, its tool calls are put together from an id, a name
\* and pieces of arguments, and a request is retried at most max_retries times
\* (telnyx.py:202-232, retry.py:33-34).
THEOREM StreamTypeCorrect == StreamSpec => []StreamTypeOK
<1>1. StreamInit => StreamInv
  BY StreamStarts DEF StreamInit
<1>2. StreamInv /\ [StreamNext]_stream => StreamInv'
  <2>1. ASSUME StreamInv, UNCHANGED stream
        PROVE  StreamInv'
    BY <2>1 DEF StreamInv, StreamData, RetryInv
  <2> QED
    BY <2>1, StreamSteps DEF StreamNext, RequestOver
<1> QED
  BY <1>1, <1>2, StreamInvType, PTL DEF StreamSpec

-----------------------------------------------------------------------------
(***************************************************************************)
(* The text.                                                               *)
(***************************************************************************)

\* The texts of a sequence of chunks.
Texts(chunks) == [i \in 1..Len(chunks) |-> chunks[i].text]

LEMMA TextsAppend ==
    ASSUME NEW chunks \in Seq(Chunk), NEW chunk \in Chunk
    PROVE  /\ Texts(chunks) \in Seq(Seq(STRING))
           /\ Texts(Append(chunks, chunk)) = Append(Texts(chunks), chunk.text)
<1> DEFINE n == Len(chunks)
           more == Append(chunks, chunk)
<1>1. n \in Nat /\ Len(more) = n + 1
  OBVIOUS
<1>2. ASSUME NEW i \in 1..n
      PROVE  chunks[i] \in Chunk /\ chunks[i].text \in Seq(STRING)
  <2>1. chunks[i] \in Chunk
    OBVIOUS
  <2> QED
    BY <2>1 DEF Chunk
<1>3. more[n + 1] = chunk /\ \A i \in 1..n : more[i] = chunks[i]
  OBVIOUS
<1> HIDE DEF n, more
<1>4. Texts(chunks) = [i \in 1..n |-> chunks[i].text]
  BY DEF Texts, n
<1>5. Texts(chunks) \in Seq(Seq(STRING)) /\ Len(Texts(chunks)) = n
  BY <1>1, <1>2, <1>4
<1>6. Texts(more) = [i \in 1..(n + 1) |-> more[i].text]
  BY <1>1 DEF Texts
<1>7. Texts(more) \in Seq(Seq(STRING)) /\ Len(Texts(more)) = n + 1
  <2>1. ASSUME NEW i \in 1..(n + 1)
        PROVE  more[i].text \in Seq(STRING)
    <3>1. CASE i = n + 1
      BY <1>3, <3>1 DEF Chunk
    <3>2. CASE i # n + 1
      BY <1>1, <1>2, <1>3, <3>2
    <3> QED
      BY <3>1, <3>2
  <2> QED
    BY <1>1, <1>6, <2>1
<1>8. chunk.text \in Seq(STRING)
  BY DEF Chunk
<1>9. ASSUME NEW i \in 1..(n + 1)
      PROVE  Texts(more)[i] = Append(Texts(chunks), chunk.text)[i]
  <2>1. CASE i = n + 1
    <3>1. Texts(more)[i] = chunk.text
      BY <1>3, <1>6, <2>1
    <3>2. Append(Texts(chunks), chunk.text)[n + 1] = chunk.text
      BY <1>5, <1>8
    <3> QED
      BY <2>1, <3>1, <3>2
  <2>2. CASE i # n + 1
    <3>1. i \in 1..n
      BY <1>1, <2>2
    <3>2. Texts(more)[i] = chunks[i].text
      BY <1>3, <1>6, <3>1
    <3>3. Append(Texts(chunks), chunk.text)[i] = Texts(chunks)[i]
      BY <1>5, <1>8, <3>1
    <3> QED
      BY <1>4, <3>1, <3>2, <3>3
  <2> QED
    BY <2>1, <2>2
<1> DEFINE other == Append(Texts(chunks), chunk.text)
<1>10. other \in Seq(Seq(STRING)) /\ Len(other) = n + 1
  BY <1>1, <1>5, <1>8
<1> HIDE DEF other
<1>11. Texts(more) = other
  BY <1>1, <1>7, <1>9, <1>10 DEF other
<1> QED
  BY <1>5, <1>11 DEF other, more

LEMMA NoTexts == FlattenSeq(Texts(<<>>)) = <<>>
<1>1. Texts(<<>>) = <<>>
  BY DEF Texts
<1> QED
  BY <1>1 DEF FlattenSeq

LEMMA TextStep ==
    StreamInv /\ TextIsNotRepeated /\ StreamStep => TextIsNotRepeated'
<1> SUFFICES ASSUME StreamInv, TextIsNotRepeated, StreamStep
             PROVE  TextIsNotRepeated'
  OBVIOUS
<1>0. RetryInv /\ stream.text = FlattenSeq(Texts(stream.received))
  BY Zenon DEF StreamInv, TextIsNotRepeated, Texts
<1>1. CASE ChunkArrives
  <2>1. PICK chunk \in Chunks : /\ stream'.text = stream.text \o chunk.text
                                /\ stream'.received = Append(stream.received, chunk)
    BY <1>0, <1>1, ChunkFields, Zenon
  <2>2. chunk \in Chunk /\ chunk.text \in Seq(STRING)
    BY LlmStreamAssumption DEF Chunk
  <2>3. stream.received \in Seq(Chunk)
    BY DEF StreamInv, StreamData
  <2>4. FlattenSeq(Texts(stream'.received)) = FlattenSeq(Texts(stream.received)) \o chunk.text
    BY <2>1, <2>2, <2>3, TextsAppend, FlattenAppend, Zenon
  <2> QED
    BY <1>0, <2>1, <2>4, Zenon DEF TextIsNotRepeated, Texts
<1>2. CASE StreamEnds
  <2>1. UNCHANGED <<stream.text, stream.received>>
    BY <1>0, <1>2, EndFields, Zenon
  <2> QED
    BY <1>0, <2>1, Zenon DEF TextIsNotRepeated, Texts
<1>3. CASE StreamOpens \/ StreamBreaks
  <2>1. stream'.text = stream.text /\ stream'.received = stream.received
    BY <1>0, <1>3, RequestDomain DEF StreamOpens, StreamBreaks, RetryInv
  <2> QED
    BY <1>0, <2>1, Zenon DEF TextIsNotRepeated, Texts
<1>4. CASE BackoffEnds
  <2>1. stream'.text = stream.text /\ stream'.received = <<>> /\ stream.text = <<>>
    BY <1>0, <1>4, RequestDomain DEF BackoffEnds, RetryInv
  <2>2. stream'.text = FlattenSeq(Texts(stream'.received))
    BY <2>1, NoTexts, Zenon
  <2> QED
    BY <2>2, Zenon DEF TextIsNotRepeated, Texts
<1> QED
  BY <1>1, <1>2, <1>3, <1>4 DEF StreamStep

\* The caller hears the text of one attempt, in order and once, whatever was retried
\* before it and wherever it broke (retry.py:3-6 "can never duplicate caller-facing
\* audio", telnyx.py:196-200).
THEOREM TextSpokenOnce == StreamSpec => []TextIsNotRepeated
<1>1. StreamInit => StreamInv /\ TextIsNotRepeated
  <2> SUFFICES ASSUME StreamInit
               PROVE  StreamInv /\ TextIsNotRepeated
    OBVIOUS
  <2>1. stream \in {Request, NoRequest}
    BY DEF StreamInit
  <2>2. stream.text = <<>> /\ stream.received = <<>>
    BY <2>1, RequestFields, Zenon
  <2>3. stream.text = FlattenSeq(Texts(stream.received))
    BY <2>2, NoTexts, Zenon
  <2>4. TextIsNotRepeated
    BY <2>3, Zenon DEF TextIsNotRepeated, Texts
  <2> QED
    BY <2>1, <2>4, StreamStarts
<1>2. StreamInv /\ TextIsNotRepeated /\ [StreamNext]_stream => StreamInv' /\ TextIsNotRepeated'
  <2>1. ASSUME StreamInv, TextIsNotRepeated, UNCHANGED stream
        PROVE  StreamInv' /\ TextIsNotRepeated'
    BY <2>1 DEF StreamInv, StreamData, RetryInv, TextIsNotRepeated
  <2> QED
    BY <2>1, StreamSteps, TextStep DEF StreamNext, RequestOver
<1> QED
  BY <1>1, <1>2, PTL DEF StreamSpec

-----------------------------------------------------------------------------
(***************************************************************************)
(* The tool calls are whole: what is accumulated is, after every fragment, *)
(* what the fragments so far mean.                                         *)
(***************************************************************************)

LEMMA AppendDelta ==
    ASSUME NEW deltas \in Seq(Delta), NEW delta \in Delta
    PROVE  /\ Append(deltas, delta) \in Seq(Delta)
           /\ Len(deltas) \in Nat
           /\ Len(Append(deltas, delta)) = Len(deltas) + 1
           /\ Append(deltas, delta)[Len(deltas) + 1] = delta
           /\ \A i \in 1..Len(deltas) : Append(deltas, delta)[i] = deltas[i]
  OBVIOUS

LEMMA LastGivenAppend ==
    ASSUME NEW deltas \in Seq(Delta), NEW delta \in Delta, NEW index \in Nat, NEW field
    PROVE  LastGiven(Append(deltas, delta), index, field) =
             IF delta.index = index /\ delta[field] # "" THEN delta[field]
             ELSE LastGiven(deltas, index, field)
<1> DEFINE more == Append(deltas, delta)
           n == Len(deltas)
           given == {i \in 1..n : deltas[i].index = index /\ deltas[i][field] # ""}
           all == {i \in 1..(n + 1) : more[i].index = index /\ more[i][field] # ""}
<1>1. /\ n \in Nat /\ Len(more) = n + 1 /\ more[n + 1] = delta
      /\ \A i \in 1..n : more[i] = deltas[i]
  BY AppendDelta, Zenon
<1>2. /\ LastGiven(deltas, index, field) = IF given = {} THEN "" ELSE deltas[Max(given)][field]
      /\ LastGiven(more, index, field) = IF all = {} THEN "" ELSE more[Max(all)][field]
  BY <1>1 DEF LastGiven
<1> HIDE DEF more, n
<1>3. CASE delta.index = index /\ delta[field] # ""
  <2>1. n + 1 \in all /\ all \in SUBSET (1..(n + 1))
    <3>1. more[n + 1].index = index /\ more[n + 1][field] # ""
      BY <1>1, <1>3, Zenon
    <3>2. n + 1 \in 1..(n + 1)
      BY <1>1
    <3> QED
      BY <3>1, <3>2, Zenon
  <2>2. Max(all) = n + 1 /\ all # {}
    BY <1>1, <2>1, MaxWithLast
  <2> QED
    BY <1>1, <1>2, <1>3, <2>2, Zenon DEF more
<1>4. CASE ~(delta.index = index /\ delta[field] # "")
  <2>1. all = given
    <3>1. ASSUME NEW i \in 1..(n + 1), more[i].index = index, more[i][field] # ""
          PROVE  i \in 1..n
      <4>1. CASE i = n + 1
        <5>1. more[i] = delta
          BY <1>1, <4>1, Zenon
        <5> QED
          BY <1>4, <3>1, <5>1, Zenon
      <4>2. CASE i # n + 1
        BY <1>1, <4>2
      <4> QED
        BY <4>1, <4>2
    <3>2. \A i \in 1..n : i \in 1..(n + 1)
      BY <1>1
    <3> QED
      BY <1>1, <3>1, <3>2
  <2>2. given # {} => Max(given) \in 1..n
    BY <1>1, MaxOfNumbers
  <2> HIDE DEF given, all
  <2>3. given # {} => more[Max(given)] = deltas[Max(given)]
    BY <1>1, <2>2
  <2> QED
    BY <1>2, <1>4, <2>1, <2>3, Zenon DEF more
<1> QED
  BY <1>3, <1>4

LEMMA PiecesAppend ==
    ASSUME NEW deltas \in Seq(Delta), NEW delta \in Delta, NEW index \in Nat
    PROVE  FlattenSeq(PiecesOf(Append(deltas, delta), index)) =
             FlattenSeq(PiecesOf(deltas, index))
               \o (IF delta.index = index THEN delta.arguments ELSE <<>>)
<1> DEFINE more == Append(deltas, delta)
           n == Len(deltas)
           s == PiecesOf(deltas, index)
           t == PiecesOf(more, index)
           x == IF delta.index = index THEN delta.arguments ELSE <<>>
<1>1. /\ n \in Nat /\ Len(more) = n + 1 /\ more[n + 1] = delta
      /\ \A i \in 1..n : more[i] = deltas[i]
      /\ more \in Seq(Delta)
  BY AppendDelta, Zenon
<1>2. <<>> \in Seq(STRING)
  BY NoPieces, Zenon
<1>3. \A d \in Delta : d.arguments \in Seq(STRING)
  BY DEF Delta
<1> HIDE DEF more
<1>4. s \in [1..n -> Seq(STRING)]
  <2>1. \A i \in 1..n : deltas[i] \in Delta
    OBVIOUS
  <2> HIDE DEF n
  <2> QED
    BY <1>2, <1>3, <2>1 DEF PiecesOf, n
<1>5. t \in [1..(n + 1) -> Seq(STRING)]
  <2>1. \A i \in 1..(n + 1) : more[i] \in Delta
    BY <1>1
  <2> HIDE DEF n
  <2> QED
    BY <1>1, <1>2, <1>3, <2>1 DEF PiecesOf
<1> HIDE DEF n
<1>6. \A i \in 1..n : t[i] = s[i]
  BY <1>1 DEF PiecesOf, n
<1>7. t[n + 1] = x
  BY <1>1 DEF PiecesOf
<1>8. x \in Seq(STRING)
  BY <1>2, <1>3
<1> HIDE DEF s, t, x
<1>9. s \in Seq(Seq(STRING)) /\ t = Append(s, x)
  <2> DEFINE S == Seq(STRING)
  <2>0. n \in Nat /\ s \in [1..n -> S] /\ t \in [1..(n + 1) -> S]
    BY <1>1, <1>4, <1>5
  <2> HIDE DEF S
  <2>1. s \in Seq(S) /\ t = Append(s, t[n + 1])
    BY <2>0, <1>6, LongerByOne
  <2> QED
    BY <1>7, <2>1, Zenon DEF S
<1>10. FlattenSeq(t) = FlattenSeq(s) \o x
  BY <1>8, <1>9, FlattenAppend, Zenon
<1> QED
  BY <1>10 DEF s, t, x, more

\* What f has for an index.
Known(f, index) == IF index \in DOMAIN f THEN f[index] ELSE NewCall

\* What was accumulated is what the fragments mean.
Meant(f, deltas) ==
    /\ DOMAIN f = {deltas[i].index : i \in 1..Len(deltas)}
    /\ \A index \in Nat : Known(f, index) = CallMeant(deltas, index)

LEMMA KnownType ==
    ASSUME NEW f \in Accumulators, NEW index
    PROVE  Known(f, index) \in ToolCall
<1>1. f \in [DOMAIN f -> ToolCall]
  BY AccumulatorsIs
<1>2. NewCall \in ToolCall
  BY NewCallType
<1> QED
  BY <1>1, <1>2 DEF Known

LEMMA NothingMeant == Meant(NoCalls, <<>>)
<1>1. DOMAIN NoCalls = {} /\ Len(<<>>) = 0
  BY DEF NoCalls
<1>2. ASSUME NEW index \in Nat
      PROVE  CallMeant(<<>>, index) = NewCall
  <2>1. \A field : LastGiven(<<>>, index, field) = ""
    BY DEF LastGiven
  <2>2. PiecesOf(<<>>, index) = <<>>
    BY DEF PiecesOf
  <2>3. FlattenSeq(<<>>) = <<>>
    BY DEF FlattenSeq
  <2> QED
    BY <2>1, <2>2, <2>3, Zenon DEF CallMeant, NewCall
<1> QED
  BY <1>1, <1>2 DEF Meant, Known

LEMMA MergeMeant ==
    ASSUME NEW f \in Accumulators, NEW deltas \in Seq(Delta), NEW delta \in Delta,
           Meant(f, deltas)
    PROVE  Meant(Merge(f, delta), Append(deltas, delta))
<1> DEFINE more == Append(deltas, delta)
           n == Len(deltas)
           g == Merge(f, delta)
           call == Known(f, delta.index)
           merged == [id |-> IF delta.id # "" THEN delta.id ELSE call.id,
                      name |-> IF delta.name # "" THEN delta.name ELSE call.name,
                      arguments |-> call.arguments \o delta.arguments]
<1>1. /\ n \in Nat /\ Len(more) = n + 1 /\ more[n + 1] = delta
      /\ \A i \in 1..n : more[i] = deltas[i]
  BY AppendDelta, Zenon
<1>2. g = [index \in DOMAIN f \cup {delta.index} |->
              IF index = delta.index THEN merged ELSE f[index]]
  BY Zenon DEF Merge, Known
<1>3. delta.index \in Nat /\ delta.arguments \in Seq(STRING)
  BY DEF Delta
<1>4. DOMAIN g = {more[i].index : i \in 1..Len(more)}
  <2>1. DOMAIN g = {deltas[i].index : i \in 1..n} \cup {delta.index}
    BY <1>2 DEF Meant
  <2> HIDE DEF more, n, g
  <2>2. n + 1 \in 1..Len(more) /\ \A i \in 1..n : i \in 1..Len(more)
    BY <1>1
  <2>3. \A i \in 1..Len(more) : i \in 1..n \/ i = n + 1
    BY <1>1
  <2> QED
    BY <1>1, <2>1, <2>2, <2>3
<1>5. ASSUME NEW index \in Nat
      PROVE  Known(g, index) = CallMeant(more, index)
  <2> DEFINE old == CallMeant(deltas, index)
  <2>1. Known(f, index) = old
    BY DEF Meant
  <2>2. CallMeant(more, index) =
          [id |-> IF delta.index = index /\ delta["id"] # "" THEN delta["id"] ELSE old.id,
           name |-> IF delta.index = index /\ delta["name"] # "" THEN delta["name"] ELSE old.name,
           arguments |-> old.arguments
                           \o (IF delta.index = index THEN delta.arguments ELSE <<>>)]
    <3>1. /\ old.id = LastGiven(deltas, index, "id")
          /\ old.name = LastGiven(deltas, index, "name")
          /\ old.arguments = FlattenSeq(PiecesOf(deltas, index))
      BY DEF CallMeant
    <3> HIDE DEF old
    <3>2. /\ LastGiven(more, index, "id") =
               IF delta.index = index /\ delta["id"] # "" THEN delta["id"] ELSE old.id
          /\ LastGiven(more, index, "name") =
               IF delta.index = index /\ delta["name"] # "" THEN delta["name"] ELSE old.name
      BY <3>1, LastGivenAppend, Zenon
    <3>3. FlattenSeq(PiecesOf(more, index)) =
            old.arguments \o (IF delta.index = index THEN delta.arguments ELSE <<>>)
      BY <3>1, PiecesAppend, ZenonT(40)
    <3> QED
      BY <3>2, <3>3, Zenon DEF CallMeant
  <2>3. CASE index = delta.index
    <3>1. Known(g, index) = merged
      BY <1>2, <2>3 DEF Known
    <3>2. call = old
      BY <2>1, <2>3
    <3>3. CallMeant(more, index) = merged
      <4> HIDE DEF old, call
      <4> QED
        BY <2>2, <2>3, <3>2
    <3> HIDE DEF g, more, merged
    <3> QED
      BY <3>1, <3>3, Zenon
  <2>4. CASE index # delta.index
    <3>1. Known(g, index) = Known(f, index)
      BY <1>2, <2>4 DEF Known
    <3>2. old \in ToolCall
      <4>1. Known(f, index) \in ToolCall
        BY KnownType
      <4> QED
        BY <2>1, <4>1
    <3>3. old = [id |-> old.id, name |-> old.name, arguments |-> old.arguments \o <<>>]
      <4> HIDE DEF old
      <4>1. old.arguments \o <<>> = old.arguments
        BY <3>2 DEF ToolCall
      <4>2. old = [id |-> old.id, name |-> old.name, arguments |-> old.arguments]
        BY <3>2 DEF ToolCall
      <4> QED
        BY <4>1, <4>2
    <3>4. CallMeant(more, index) = old
      <4> HIDE DEF old
      <4> QED
        BY <2>2, <2>4, <3>3
    <3> QED
      BY <2>1, <3>1, <3>4
  <2> QED
    BY <2>3, <2>4
<1> QED
  BY <1>4, <1>5, Zenon DEF Meant

\* deltas and the first k of more.
UpTo(deltas, more, k) ==
    [i \in 1..(Len(deltas) + k) |-> IF i <= Len(deltas) THEN deltas[i] ELSE more[i - Len(deltas)]]

LEMMA UpToIs ==
    ASSUME NEW deltas \in Seq(Delta), NEW more \in Seq(Delta)
    PROVE  /\ UpTo(deltas, more, 0) = deltas
           /\ UpTo(deltas, more, Len(more)) = deltas \o more
           /\ \A k \in Nat : k + 1 <= Len(more) =>
                /\ UpTo(deltas, more, k) \in Seq(Delta)
                /\ UpTo(deltas, more, k + 1) = Append(UpTo(deltas, more, k), more[k + 1])
<1> DEFINE n == Len(deltas)
           c == Len(more)
<1>1. /\ n \in Nat /\ c \in Nat
      /\ deltas \in [1..n -> Delta]
      /\ \A i \in 1..c : more[i] \in Delta
  OBVIOUS
<1>2. UpTo(deltas, more, 0) = deltas
  <2>1. UpTo(deltas, more, 0) = [i \in 1..n |-> deltas[i]]
    <3> HIDE DEF n
    <3>1. n + 0 = n /\ \A i \in 1..n : i <= n
      BY <1>1
    <3> QED
      BY <3>1 DEF UpTo, n
  <2> QED
    BY <1>1, <2>1
<1>3. UpTo(deltas, more, c) = deltas \o more
  <2> DEFINE both == deltas \o more
             u == UpTo(deltas, more, c)
  <2>1. both \in Seq(Delta) /\ Len(both) = n + c
    OBVIOUS
  <2>2. \A i \in 1..(n + c) : both[i] = IF i <= n THEN deltas[i] ELSE more[i - n]
    OBVIOUS
  <2> HIDE DEF both, n, c
  <2>3. u = [i \in 1..(n + c) |-> IF i <= n THEN deltas[i] ELSE more[i - n]]
    BY DEF UpTo, n
  <2>4. DOMAIN both = 1..(n + c) /\ both = [i \in 1..(n + c) |-> both[i]]
    BY <2>1
  <2> HIDE DEF u
  <2>5. DOMAIN u = 1..(n + c) /\ \A i \in 1..(n + c) : u[i] = both[i]
    BY <2>2, <2>3
  <2>6. u = [i \in 1..(n + c) |-> u[i]]
    BY <2>3
  <2>7. u = both
    BY <2>4, <2>5, <2>6
  <2> QED
    BY <2>7 DEF both, u
<1>4. ASSUME NEW k \in Nat, k + 1 <= c
      PROVE  /\ UpTo(deltas, more, k) \in Seq(Delta)
             /\ UpTo(deltas, more, k + 1) = Append(UpTo(deltas, more, k), more[k + 1])
  <2> DEFINE s == UpTo(deltas, more, k)
             t == UpTo(deltas, more, k + 1)
             m == n + k
  <2> HIDE DEF n, c
  <2>1. m \in Nat /\ n + (k + 1) = m + 1
    BY <1>1
  <2>2. s = [i \in 1..m |-> IF i <= n THEN deltas[i] ELSE more[i - n]]
    BY DEF UpTo, n
  <2>3. t = [i \in 1..(m + 1) |-> IF i <= n THEN deltas[i] ELSE more[i - n]]
    BY <2>1 DEF UpTo, n
  <2>4. \A i \in 1..(m + 1) : IF i <= n THEN i \in 1..n ELSE i - n \in 1..c
    BY <1>1, <1>4
  <2>5. s \in [1..m -> Delta] /\ t \in [1..(m + 1) -> Delta]
    <3>1. \A i \in 1..(m + 1) : (IF i <= n THEN deltas[i] ELSE more[i - n]) \in Delta
      BY <1>1, <2>4
    <3>2. \A i \in 1..m : i \in 1..(m + 1)
      BY <2>1
    <3> HIDE DEF m, s, t
    <3> QED
      BY <2>2, <2>3, <3>1, <3>2
  <2>6. \A i \in 1..m : t[i] = s[i]
    <3> HIDE DEF s, t
    <3> QED
      BY <2>1, <2>2, <2>3
  <2>7. t[m + 1] = more[k + 1]
    <3> DEFINE last == m + 1
               e(i) == IF i <= n THEN deltas[i] ELSE more[i - n]
    <3>1. last \in 1..last /\ ~(last <= n) /\ last - n = k + 1
      BY <1>1
    <3>2. t = [i \in 1..last |-> e(i)]
      BY <2>3
    <3> HIDE DEF last, t
    <3>3. e(last) = more[last - n]
      BY <3>1, Zenon
    <3>4. e(last) = more[k + 1]
      BY <3>1, <3>3, Zenon
    <3> HIDE DEF e
    <3>5. t[last] = e(last)
      BY <3>1, <3>2
    <3> QED
      BY <3>4, <3>5 DEF last
  <2> HIDE DEF s, t, m
  <2>8. s \in Seq(Delta) /\ t = Append(s, t[m + 1])
    BY <2>1, <2>5, <2>6, LongerByOne
  <2> QED
    BY <2>7, <2>8 DEF s, t
<1> QED
  BY <1>2, <1>3, <1>4

LEMMA FoldMeant ==
    ASSUME NEW f \in Accumulators, NEW deltas \in Seq(Delta), NEW more \in Seq(Delta),
           Meant(f, deltas)
    PROVE  Meant(FoldLeft(Merge, f, more), deltas \o more)
<1> DEFINE n == Len(more)
<1>0. n \in Nat /\ \A i \in 1..n : more[i] \in Delta
  OBVIOUS
<1>1. PICK iter : Merges(iter, f, more, n) /\ FoldLeft(Merge, f, more) = iter[1..n]
  BY FoldMergeIs, Zenon
<1>2. /\ UpTo(deltas, more, 0) = deltas
      /\ UpTo(deltas, more, n) = deltas \o more
      /\ \A k \in Nat : k + 1 <= n =>
            /\ UpTo(deltas, more, k) \in Seq(Delta)
            /\ UpTo(deltas, more, k + 1) = Append(UpTo(deltas, more, k), more[k + 1])
  BY UpToIs, Zenon
<1> HIDE DEF n
<1>3. /\ iter[{}] = f
      /\ \A s \in SUBSET (1..n) : s # {} => iter[s] = Merge(iter[s \ {Max(s)}], more[Max(s)])
  BY <1>1, Zenon DEF Merges
<1> DEFINE T == {k \in Nat : k <= n => /\ iter[1..k] \in Accumulators
                                       /\ Meant(iter[1..k], UpTo(deltas, more, k))}
<1>4. 0 \in T
  <2>1. 1..0 = {}
    OBVIOUS
  <2>2. iter[1..0] = f
    BY <1>3, <2>1
  <2> QED
    BY <1>2, <2>2
<1>5. ASSUME NEW k \in Nat, k \in T
      PROVE  k + 1 \in T
  <2>1. SUFFICES ASSUME k + 1 <= n
                 PROVE  /\ iter[1..(k + 1)] \in Accumulators
                        /\ Meant(iter[1..(k + 1)], UpTo(deltas, more, k + 1))
    OBVIOUS
  <2>2. iter[1..k] \in Accumulators /\ Meant(iter[1..k], UpTo(deltas, more, k))
    BY <1>0, <1>5, <2>1
  <2>3. /\ 1..(k + 1) \in SUBSET (1..n) /\ 1..(k + 1) # {} /\ k + 1 \in 1..n
        /\ k + 1 \in 1..(k + 1) /\ (1..(k + 1)) \ {k + 1} = 1..k
    <3> HIDE DEF T
    <3>1. n \in Nat
      BY <1>0
    <3>2. k + 1 \in 1..n /\ k + 1 \in 1..(k + 1)
      BY <2>1, <3>1
    <3>3. \A i \in 1..(k + 1) : i \in 1..n
      BY <2>1, <3>1
    <3>4. (1..(k + 1)) \ {k + 1} = 1..k
      OBVIOUS
    <3> QED
      BY <3>2, <3>3, <3>4
  <2>4. Max(1..(k + 1)) = k + 1
    BY <2>3, MaxWithLast
  <2>5. iter[1..(k + 1)] = Merge(iter[1..k], more[k + 1])
    BY <1>3, <2>3, <2>4
  <2>6. /\ UpTo(deltas, more, k) \in Seq(Delta)
        /\ UpTo(deltas, more, k + 1) = Append(UpTo(deltas, more, k), more[k + 1])
        /\ more[k + 1] \in Delta
    BY <1>0, <1>2, <2>1, <2>3
  <2>7. Merge(iter[1..k], more[k + 1]) \in Accumulators
    BY <2>2, <2>6, MergeType, Zenon
  <2>8. Meant(Merge(iter[1..k], more[k + 1]), Append(UpTo(deltas, more, k), more[k + 1]))
    BY <2>2, <2>6, MergeMeant, Zenon
  <2> QED
    BY <2>5, <2>6, <2>7, <2>8, Zenon
<1> HIDE DEF T
<1>6. n \in T
  BY <1>0, <1>4, <1>5, SetInduction
<1>7. Meant(iter[1..n], UpTo(deltas, more, n))
  BY <1>0, <1>6 DEF T
<1> QED
  BY <1>1, <1>2, <1>7, Zenon

\* The fragments of each of the chunks.
Deltas(chunks) == [i \in 1..Len(chunks) |-> chunks[i].deltas]

LEMMA FragmentsAppend ==
    ASSUME NEW chunks \in Seq(Chunk), NEW chunk \in Chunk
    PROVE  Fragments(Append(chunks, chunk)) = Fragments(chunks) \o chunk.deltas
<1> DEFINE n == Len(chunks)
           more == Append(chunks, chunk)
           s == Deltas(chunks)
           t == Deltas(more)
           S == Seq(Delta)
<1>1. n \in Nat /\ Len(more) = n + 1
  OBVIOUS
<1>2. more[n + 1] = chunk /\ \A i \in 1..n : more[i] = chunks[i] /\ chunks[i] \in Chunk
  OBVIOUS
<1>3. \A c \in Chunk : c.deltas \in S
  BY DEF Chunk
<1> HIDE DEF n, more, S
<1>4. s = [i \in 1..n |-> chunks[i].deltas]
  BY DEF Deltas, n
<1>5. t = [i \in 1..(n + 1) |-> more[i].deltas]
  BY <1>1 DEF Deltas
<1> HIDE DEF s, t
<1>6. s \in [1..n -> S]
  BY <1>2, <1>3, <1>4
<1>7. t \in [1..(n + 1) -> S]
  <2>1. \A i \in 1..(n + 1) : more[i] \in Chunk
    <3>1. \A i \in 1..(n + 1) : i \in 1..n \/ i = n + 1
      BY <1>1
    <3> QED
      BY <1>2, <3>1
  <2> QED
    BY <1>3, <1>5, <2>1
<1>8. t[n + 1] = chunk.deltas /\ \A i \in 1..n : t[i] = s[i]
  BY <1>1, <1>2, <1>4, <1>5
<1>9. s \in Seq(S) /\ t = Append(s, t[n + 1])
  BY <1>1, <1>6, <1>7, <1>8, LongerByOne
<1>10. chunk.deltas \in S
  BY <1>3
<1>11. FlattenSeq(t) = FlattenSeq(s) \o chunk.deltas
  <2>1. t = Append(s, chunk.deltas)
    BY <1>8, <1>9, Zenon
  <2> QED
    BY <1>9, <1>10, <2>1, FlattenAppend, Zenon DEF S
<1> QED
  BY <1>11, Zenon DEF Fragments, Deltas, s, t, more

LEMMA NoFragments == Fragments(<<>>) = <<>>
<1>1. Deltas(<<>>) = <<>>
  BY DEF Deltas
<1>2. FlattenSeq(Deltas(<<>>)) = <<>>
  BY <1>1 DEF FlattenSeq
<1> QED
  BY <1>2, Zenon DEF Fragments, Deltas

\* An accumulated call is passed on at the place of its index.
LEMMA FlushedAt ==
    ASSUME NEW f \in Accumulators
    PROVE  /\ Len(Flushed(f)) = Cardinality(DOMAIN f)
           /\ \A index \in DOMAIN f : Flushed(f)[Place(DOMAIN f, index)] = f[index]
<1> DEFINE indexes == DOMAIN f
           n == Cardinality(indexes)
           Nth(k) == CHOOSE index \in indexes : Place(indexes, index) = k
           Below(index) == {j \in indexes : j <= index}
<1>1. IsFiniteSet(indexes) /\ indexes \in SUBSET Nat
  BY AccumulatorsIs
<1>2. n \in Nat
  BY <1>1, FS_CardinalityType
<1>3. Flushed(f) = [k \in 1..n |-> f[Nth(k)]]
  BY Zenon DEF Flushed
<1>4. ASSUME NEW index \in indexes
      PROVE  Place(indexes, index) \in 1..n
  <2>1. Below(index) \in SUBSET indexes /\ index \in Below(index)
    BY <1>1
  <2>2. IsFiniteSet(Below(index)) /\ Cardinality(Below(index)) <= n
    BY <1>1, <2>1, FS_Subset
  <2>3. Cardinality(Below(index)) \in Nat /\ Cardinality(Below(index)) # 0
    BY <2>1, <2>2, FS_CardinalityType, FS_EmptySet
  <2>4. Place(indexes, index) = Cardinality(Below(index))
    BY DEF Place
  <2> QED
    BY <1>2, <2>2, <2>3, <2>4
<1>5. ASSUME NEW i \in indexes, NEW j \in indexes, i < j
      PROVE  Place(indexes, i) # Place(indexes, j)
  <2>1. i \in Nat /\ j \in Nat
    BY <1>1
  <2>2. Below(i) \in SUBSET Below(j) /\ Below(i) # Below(j)
    <3>1. ASSUME NEW k \in indexes, k <= i
          PROVE  k <= j
      BY <1>1, <1>5, <2>1, <3>1
    <3>2. j \in Below(j) /\ j \notin Below(i)
      BY <1>5, <2>1
    <3> QED
      BY <3>1, <3>2
  <2>3. IsFiniteSet(Below(j))
    <3>1. Below(j) \in SUBSET indexes
      OBVIOUS
    <3> QED
      BY <1>1, <3>1, FS_Subset
  <2>4. Cardinality(Below(i)) # Cardinality(Below(j))
    BY <2>2, <2>3, FS_Subset
  <2> QED
    BY <2>4 DEF Place
<1>6. ASSUME NEW index \in indexes
      PROVE  Nth(Place(indexes, index)) = index
  <2> DEFINE i == Nth(Place(indexes, index))
  <2>1. i \in indexes /\ Place(indexes, i) = Place(indexes, index)
    BY Zenon
  <2> HIDE DEF i
  <2>2. i \in Nat /\ index \in Nat
    BY <1>1, <2>1
  <2>3. ~(i < index) /\ ~(index < i)
    BY <1>5, <2>1
  <2>4. i = index
    BY <2>2, <2>3
  <2> QED
    BY <2>4 DEF i
<1> HIDE DEF Nth, n
<1>7. \A index \in indexes : Flushed(f)[Place(indexes, index)] = f[index]
  BY <1>3, <1>4, <1>6
<1>8. Len(Flushed(f)) = n
  BY <1>2, <1>3
<1> QED
  BY <1>7, <1>8 DEF n

\* The accumulators mean what the fragments of the attempt do, and are passed on at
\* the end only.
WholeInv ==
    /\ Fragments(stream.received) \in Seq(Delta)
    /\ Meant(stream.accumulators, Fragments(stream.received))
    /\ stream.calls = IF stream.at = "ended" THEN Flushed(stream.accumulators) ELSE <<>>

LEMMA WholeStarts == stream \in {Request, NoRequest} => WholeInv
<1> SUFFICES ASSUME stream \in {Request, NoRequest}
             PROVE  WholeInv
  OBVIOUS
<1>1. /\ stream.received = <<>> /\ stream.accumulators = NoCalls /\ stream.calls = <<>>
      /\ stream.at \in {"open", "idle"}
  BY RequestFields
<1>2. Fragments(stream.received) = <<>>
  BY <1>1, NoFragments, Zenon
<1>3. <<>> \in Seq(Delta)
  BY NoPieces, Zenon
<1>4. Meant(stream.accumulators, Fragments(stream.received))
  BY <1>1, <1>2, NothingMeant, Zenon
<1> QED
  BY <1>1, <1>2, <1>3, <1>4 DEF WholeInv

LEMMA WholeStep == StreamInv /\ WholeInv /\ StreamStep => WholeInv'
<1> SUFFICES ASSUME StreamInv, WholeInv, StreamStep
             PROVE  WholeInv'
  OBVIOUS
<1>0. /\ RetryInv
      /\ stream.accumulators \in Accumulators /\ stream.received \in Seq(Chunk)
      /\ Fragments(stream.received) \in Seq(Delta)
      /\ Meant(stream.accumulators, Fragments(stream.received))
      /\ stream.at # "ended" => stream.calls = <<>>
  BY DEF StreamInv, StreamData, WholeInv
<1>1. CASE ChunkArrives
  <2>1. PICK chunk \in Chunks :
          /\ stream'.accumulators = FoldLeft(Merge, stream.accumulators, chunk.deltas)
          /\ stream'.received = Append(stream.received, chunk)
    BY <1>0, <1>1, ChunkFields, Zenon
  <2>2. stream.at = "read" /\ stream'.at = "read" /\ stream'.calls = stream.calls
    BY <1>0, <1>1, ChunkFields, Zenon
  <2>3. chunk \in Chunk /\ chunk.deltas \in Seq(Delta)
    BY LlmStreamAssumption DEF Chunk
  <2>4. Fragments(stream'.received) = Fragments(stream.received) \o chunk.deltas
    BY <1>0, <2>1, <2>3, FragmentsAppend, Zenon
  <2>5. Fragments(stream'.received) \in Seq(Delta)
    <3>1. Fragments(stream.received) \o chunk.deltas \in Seq(Delta)
      BY <1>0, <2>3
    <3> QED
      BY <2>4, <3>1, Zenon
  <2>6. Meant(stream'.accumulators, Fragments(stream'.received))
    <3>1. Meant(FoldLeft(Merge, stream.accumulators, chunk.deltas),
                Fragments(stream.received) \o chunk.deltas)
      BY <1>0, <2>3, FoldMeant, Zenon
    <3> QED
      BY <2>1, <2>4, <3>1, Zenon
  <2>7. stream'.at # "ended" /\ stream'.calls = <<>>
    BY <1>0, <2>2
  <2> QED
    BY <2>5, <2>6, <2>7, Zenon DEF WholeInv
<1>2. CASE StreamEnds
  <2>1. /\ stream'.at = "ended" /\ stream'.calls = Flushed(stream.accumulators)
        /\ UNCHANGED <<stream.accumulators, stream.received>>
    BY <1>0, <1>2, EndFields, Zenon
  <2> QED
    BY <1>0, <2>1, Zenon DEF WholeInv
<1>3. CASE StreamOpens \/ StreamBreaks
  <2>1. /\ stream.at # "ended" /\ stream'.at # "ended"
        /\ UNCHANGED <<stream.accumulators, stream.received, stream.calls>>
    BY <1>0, <1>3, RequestDomain DEF StreamOpens, StreamBreaks, RetryInv
  <2> QED
    BY <1>0, <2>1, Zenon DEF WholeInv
<1>4. CASE BackoffEnds
  <2>1. /\ stream.at # "ended" /\ stream'.at # "ended"
        /\ stream'.accumulators = NoCalls /\ stream'.received = <<>>
        /\ stream'.calls = stream.calls
    BY <1>0, <1>4, RequestDomain DEF BackoffEnds, RetryInv
  <2>2. Fragments(stream'.received) = <<>> /\ <<>> \in Seq(Delta)
    BY <2>1, NoFragments, NoPieces, Zenon
  <2>3. Meant(stream'.accumulators, Fragments(stream'.received))
    BY <2>1, <2>2, NothingMeant, Zenon
  <2> QED
    BY <1>0, <2>1, <2>2, <2>3, Zenon DEF WholeInv
<1> QED
  BY <1>1, <1>2, <1>3, <1>4 DEF StreamStep

LEMMA WholeCalls == StreamInv /\ WholeInv => CallsAreWhole
<1> SUFFICES ASSUME StreamInv, WholeInv
             PROVE  CallsAreWhole
  OBVIOUS
<1> DEFINE f == stream.accumulators
           deltas == Fragments(stream.received)
           indexes == {delta.index : delta \in Range(deltas)}
<1>1. f \in Accumulators /\ deltas \in Seq(Delta) /\ Meant(f, deltas)
  BY DEF StreamInv, StreamData, WholeInv
<1>2. stream.at # "ended" => stream.calls = <<>>
  BY DEF WholeInv
<1>3. stream.at = "ended" => stream.calls = Flushed(f)
  BY DEF WholeInv
<1> HIDE DEF f, deltas
<1>4. indexes = {deltas[i].index : i \in 1..Len(deltas)}
  <2>1. DOMAIN deltas = 1..Len(deltas)
    BY <1>1
  <2> QED
    BY <2>1 DEF Range
<1>5. DOMAIN f = indexes
  BY <1>1, <1>4 DEF Meant
<1> HIDE DEF indexes
<1>6. ASSUME NEW index \in indexes
      PROVE  Flushed(f)[Place(indexes, index)] = CallMeant(deltas, index)
  <2>1. Flushed(f)[Place(indexes, index)] = f[index]
    BY <1>1, <1>5, FlushedAt
  <2>2. index \in Nat
    BY <1>1, <1>5, AccumulatorsIs
  <2>3. Known(f, index) = CallMeant(deltas, index)
    BY <1>1, <2>2 DEF Meant
  <2>4. Known(f, index) = f[index]
    BY <1>5 DEF Known
  <2> QED
    BY <2>1, <2>3, <2>4, Zenon
<1>7. Len(Flushed(f)) = Cardinality(indexes)
  BY <1>1, <1>5, FlushedAt, Zenon
<1> QED
  BY <1>2, <1>3, <1>6, <1>7, Zenon DEF CallsAreWhole, deltas, indexes

\* Tool calls are passed on at the normal end of a stream only, one for each index and
\* in their order, each put together from its own fragments of this attempt, in
\* whatever chunks and order they came (telnyx.py:194-231).
THEOREM CallsWhole == StreamSpec => []CallsAreWhole
<1>1. StreamInit => StreamInv /\ WholeInv
  BY StreamStarts, WholeStarts DEF StreamInit
<1>2. StreamInv /\ WholeInv /\ [StreamNext]_stream => (StreamInv /\ WholeInv)'
  <2>1. ASSUME StreamInv, WholeInv, UNCHANGED stream
        PROVE  (StreamInv /\ WholeInv)'
    BY <2>1 DEF StreamInv, StreamData, RetryInv, WholeInv
  <2> QED
    BY <2>1, StreamSteps, WholeStep DEF StreamNext, RequestOver
<1> QED
  BY <1>1, <1>2, WholeCalls, PTL DEF StreamSpec

===============================================================================

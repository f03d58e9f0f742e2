------------------------- MODULE ConversationProofs -------------------------
(***************************************************************************)
(* Facts about the message history of Conversation, for every history and  *)
(* every MaxTurns.                                                         *)
(***************************************************************************)
EXTENDS Conversation, WellFoundedInduction, FiniteSetTheorems, TLAPS

LEMMA PoppedIsLeast ==
    ASSUME NEW S, NEW m \in Seq(S)
    PROVE  /\ Popped(m) \in 0..Len(m)
           /\ TrimEnds(m, Popped(m))
           /\ \A e \in 0..Len(m) : TrimEnds(m, e) => Popped(m) <= e
<1> DEFINE T == {d \in 0..Len(m) : TrimEnds(m, d)}
<1>1. T \subseteq Nat
  OBVIOUS
<1>2. Len(m) \in T
  BY DEF TrimEnds
<1>3. \E d \in T : \A e \in T : <<e, d>> \notin OpToRel(<, Nat)
  BY <1>1, <1>2, NatLessThanWellFounded, WFMin, Zenon
<1>4. PICK d \in T : \A e \in T : <<e, d>> \notin OpToRel(<, Nat)
  BY <1>3
<1>5. \A e \in T : ~ (e < d)
  BY <1>1, <1>4, Zenon DEF OpToRel
<1>6. \A e \in T : d <= e
  BY <1>1, <1>5
<1> QED
  BY <1>6 DEF Popped

\* _trim only ever takes messages away from the front (conversation.py:99-101).
LEMMA TrimmedType ==
    ASSUME NEW S, NEW m \in Seq(S)
    PROVE  /\ Trimmed(m) \in Seq(S)
           /\ Len(Trimmed(m)) = Len(m) - Popped(m)
           /\ \A i \in 1..Len(Trimmed(m)) : Trimmed(m)[i] = m[Popped(m) + i]
  BY PoppedIsLeast DEF Trimmed

\* The two last messages stay, however many user turns there are.
LEMMA TrimmedLast ==
    ASSUME NEW S, NEW m \in Seq(S), m # <<>>
    PROVE  /\ Trimmed(m) # <<>>
           /\ Popped(m) = 0 \/ Popped(m) <= Len(m) - 2
           /\ Trimmed(m)[Len(Trimmed(m))] = m[Len(m)]
<1>0. Len(m) \in Nat /\ Len(m) # 0
  OBVIOUS
<1>1. Popped(m) \in 0..Len(m) /\ \A e \in 0..Len(m) : TrimEnds(m, e) => Popped(m) <= e
  BY PoppedIsLeast
<1>2. Popped(m) = 0 \/ Popped(m) <= Len(m) - 2
  <2>1. CASE Len(m) <= 2
    <3>1. TrimEnds(m, 0)
      BY <1>0, <2>1 DEF TrimEnds
    <3> QED
      BY <1>0, <1>1, <3>1
  <2>2. CASE Len(m) > 2
    <3>1. TrimEnds(m, Len(m) - 2)
      BY <1>0, <2>2 DEF TrimEnds
    <3> QED
      BY <1>0, <1>1, <2>2, <3>1
  <2> QED
    BY <1>0, <2>1, <2>2
<1>3. Len(Trimmed(m)) = Len(m) - Popped(m) /\ Len(Trimmed(m)) # 0
  BY <1>0, <1>1, <1>2, TrimmedType
<1>4. Trimmed(m)[Len(Trimmed(m))] = m[Popped(m) + Len(Trimmed(m))]
  BY <1>0, <1>1, <1>3, TrimmedType
<1>5. Trimmed(m) # <<>>
  <2>1. Len(<<>>) = 0
    OBVIOUS
  <2> QED
    BY <1>3, <2>1, Zenon
<1> QED
  BY <1>0, <1>1, <1>2, <1>3, <1>4, <1>5

\* What is popped last is a message of the caller, unless only messages of the
\* caller stay.
LEMMA TrimmedAtUser ==
    ASSUME NEW S, NEW m \in Seq(S), Popped(m) # 0
    PROVE  \/ m[Popped(m)].role = "user"
           \/ \A i \in (Popped(m) + 1)..Len(m) : m[i].role = "user"
<1> DEFINE d == Popped(m)
           n == Len(m)
           Users(e) == {i \in (e + 1)..n : m[i].role = "user"}
<1>1. /\ n \in Nat /\ d \in 1..n
      /\ TrimEnds(m, d)
      /\ ~TrimEnds(m, d - 1)
  <2>1. /\ d \in 0..n /\ TrimEnds(m, d)
        /\ \A e \in 0..n : TrimEnds(m, e) => d <= e
    BY PoppedIsLeast, Zenon
  <2>2. d \in 1..n /\ d - 1 \in 0..n /\ ~(d <= d - 1) /\ n \in Nat
    <3>1. n \in Nat /\ d # 0
      OBVIOUS
    <3> HIDE DEF d, n
    <3> QED
      BY <2>1, <3>1
  <2> QED
    BY <2>1, <2>2, Zenon
<1> HIDE DEF d, n
<1>2. /\ Cardinality(Users(d)) <= MaxTurns \/ n - d <= 2
      /\ ~(Cardinality(Users(d - 1)) <= MaxTurns)
      /\ ~(n - (d - 1) <= 2)
  BY <1>1 DEF TrimEnds, UserCount, n
<1>3. MaxTurns \in Nat /\ MaxTurns >= 1
  BY MaxTurnsAssumption
<1>4. \A e \in 0..n : IsFiniteSet(Users(e)) /\ Cardinality(Users(e)) \in Nat
  <2>1. ASSUME NEW e \in 0..n
        PROVE  IsFiniteSet(Users(e))
    <3>1. e + 1 \in Int /\ n \in Int
      BY <1>1
    <3>2. IsFiniteSet((e + 1)..n)
      BY <3>1, FS_Interval
    <3> QED
      BY <3>2, FS_Subset
  <2> QED
    BY <2>1, FS_CardinalityType
<1>5. SUFFICES ASSUME m[d].role # "user"
               PROVE  \A i \in (d + 1)..n : m[i].role = "user"
  BY DEF d, n
<1>6. Users(d - 1) = Users(d)
  BY <1>1, <1>5
<1>7. n = d + 2 /\ Cardinality(Users(d)) > 1
  <2>1. d \in 0..n /\ d \in Nat
    BY <1>1
  <2>2. Cardinality(Users(d)) \in Nat /\ ~(Cardinality(Users(d)) <= MaxTurns)
    BY <1>2, <1>4, <1>6, <2>1
  <2> DEFINE c == Cardinality(Users(d))
  <2> HIDE DEF c
  <2>3. c \in Nat /\ ~(c <= MaxTurns)
    BY <2>2 DEF c
  <2>4. c > 1
    BY <1>3, <2>3
  <2>5. n - d <= 2 /\ n - d >= 2
    BY <1>1, <1>2, <2>1, <2>2
  <2> QED
    BY <1>1, <2>1, <2>4, <2>5 DEF c
<1>8. (d + 1)..n = {d + 1, d + 2}
  BY <1>1, <1>7
<1>9. ASSUME NEW i \in {d + 1, d + 2}, m[i].role # "user"
      PROVE  FALSE
  <2>1. \E j : Users(d) \subseteq {j}
    BY <1>8, <1>9
  <2>2. PICK j : Users(d) \subseteq {j}
    BY <2>1
  <2>3. IsFiniteSet({j}) /\ Cardinality({j}) = 1
    BY FS_Singleton
  <2>4. Cardinality(Users(d)) <= Cardinality({j})
    BY <2>2, <2>3, FS_Subset
  <2> DEFINE c == Cardinality(Users(d))
  <2>5. c \in Nat /\ c > 1 /\ c <= 1
    <3>1. d \in 0..n
      BY <1>1
    <3> QED
      BY <1>4, <1>7, <2>3, <2>4, <3>1, Zenon
  <2> HIDE DEF c
  <2> QED
    BY <2>5
<1> QED
  BY <1>8, <1>9

LEMMA AddTurnType ==
    ASSUME NEW m \in Seq(Message), NEW role \in Role, NEW turn \in Seq(Nat)
    PROVE  AddTurn(m, role, turn) \in Seq(Message)
<1>1. Append(m, [role |-> role, turn |-> turn]) \in Seq(Message)
  BY DEF Message
<1> QED
  BY <1>1, TrimmedType DEF AddTurn

LEMMA AddToolResultType ==
    ASSUME NEW m \in Seq(Message), NEW turn \in Seq(Nat)
    PROVE  AddToolResult(m, turn) \in Seq(Message)
  BY DEF AddToolResult, Message, Role

=============================================================================

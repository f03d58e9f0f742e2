-------------------------- MODULE CallServerProofs --------------------------
(***************************************************************************)
(* Proofs about CallServer, for any calls, agents and limit: with every    *)
(* fault its types, its count of slots, and that it implements CallSlots;  *)
(* when each webhook comes once and in order, what becomes of the clients, *)
(* and when no answer is late either, what becomes of the run tasks.       *)
(***************************************************************************)
EXTENDS CallServer, FiniteSetTheorems, TLAPS

\* Only objects that were created have handlers and run tasks.
HandlersHaveCalls ==
    \A a \in AgentIds :
        objects[a].call = NoCall =>
            objects[a].run = "none" /\ objects[a].answering = "no" /\ ~objects[a].closing

\* The entries of the registry are agents that were created for their call.
EntriesAreCreated ==
    \A c \in Calls : agents[c] # NoAgent => objects[agents[c]].call = c

TypeInv == TypeOK /\ HandlersHaveCalls /\ EntriesAreCreated

-----------------------------------------------------------------------------
(***************************************************************************)
(* The registry and the objects, whatever the step.                        *)
(***************************************************************************)

\* A call enters the registry with the slot that it takes.
TakesSlot(c) ==
    /\ agents[c] = NoAgent
    /\ ~AtCapacity
    /\ active' = active + 1
    /\ \E a \in AgentIds : agents' = [agents EXCEPT ![c] = a] /\ objects'[a].call = c

RegistryStep ==
    \/ UNCHANGED registry
    \/ \E c \in Calls : TakesSlot(c) /\ stage = "up"
    \/ \E c \in Calls : FinishCall(c)

\* An object goes on to be an agent of the type, of the same call, and of a call
\* once it has something to do.
ObjectsStep ==
    \/ UNCHANGED objects
    \/ \E a \in AgentIds, o \in AgentSet :
          /\ objects' = [objects EXCEPT ![a] = o]
          /\ objects[a].call # NoCall => o.call = objects[a].call
          /\ o.call = NoCall => o.run = "none" /\ o.answering = "no" /\ ~o.closing

LEMMA NotCreatedType == NotCreated \in AgentSet
  BY DEF NotCreated, AgentSet

LEMMA StartedType ==
    ASSUME TypeOK, NEW a \in AgentIds
    PROVE  /\ Started(a) \in AgentSet
           /\ Started(a).call = objects[a].call
  BY DEF TypeOK, AgentSet, Started

LEMMA StartedStep ==
    ASSUME TypeInv, NEW a \in AgentIds, objects[a].call # NoCall,
           objects' = [objects EXCEPT ![a] = Started(a)]
    PROVE  ObjectsStep
  BY StartedType DEF TypeInv, ObjectsStep

\* aclose and _finish_call by a handler of a created agent.
LEMMA ClosesAndFinishesStep ==
    ASSUME TypeInv, NEW a \in AgentIds, objects[a].call # NoCall, ClosesAndFinishes(a)
    PROVE  /\ UNCHANGED registry \/ FinishCall(objects[a].call)
           /\ ObjectsStep
<1>1. objects[a] \in AgentSet
  BY DEF TypeInv, TypeOK
<1>2. CASE objects[a].closed
  BY <1>2 DEF ClosesAndFinishes, ObjectsStep
<1>3. CASE ~objects[a].closed
  <2> DEFINE o == [objects[a] EXCEPT !.closed = TRUE, !.closing = TRUE]
  <2>1. o \in AgentSet /\ o.call = objects[a].call
    BY <1>1 DEF AgentSet
  <2>2. objects' = [objects EXCEPT ![a] = o]
    BY <1>1, <1>3 DEF ClosesAndFinishes, TypeInv, TypeOK
  <2>3. UNCHANGED registry
    BY <1>3 DEF ClosesAndFinishes
  <2> HIDE DEF o
  <2> QED
    BY <2>1, <2>2, <2>3 DEF ObjectsStep
<1> QED
  BY <1>2, <1>3

LEMMA WebhookSteps ==
    ASSUME TypeInv, NEW c \in Calls, Webhook(c)
    PROVE  RegistryStep /\ ObjectsStep /\ UNCHANGED shutdown
<1> USE CallServerAssumption
<1>0. TypeOK
  BY DEF TypeInv
<1>1. ASSUME NEW webhook \in {"initiated", "answered"}, Registers(c, webhook), stage = "up"
      PROVE  RegistryStep /\ ObjectsStep
  <2>1. PICK a \in AgentIds :
          /\ objects[a].call = NoCall
          /\ agents' = [agents EXCEPT ![c] = a]
          /\ objects' = [objects EXCEPT ![a] =
                [NotCreated EXCEPT
                    !.call = c,
                    !.answering = IF c \in Incoming THEN webhook ELSE "no",
                    !.run = IF c \notin Incoming /\ webhook = "answered" THEN "running"
                                                                          ELSE "none"]]
    BY <1>1 DEF Registers
  <2> DEFINE o == [NotCreated EXCEPT
                    !.call = c,
                    !.answering = IF c \in Incoming THEN webhook ELSE "no",
                    !.run = IF c \notin Incoming /\ webhook = "answered" THEN "running"
                                                                          ELSE "none"]
  <2>2. o \in AgentSet /\ o.call = c /\ c # NoCall
    BY DEF NotCreated, AgentSet
  <2>3. objects' = [objects EXCEPT ![a] = o]
    BY <2>1
  <2> HIDE DEF o
  <2>4. objects'[a].call = c
    BY <1>0, <2>2, <2>3 DEF TypeOK
  <2>5. RegistryStep
    BY <1>1, <2>1, <2>4 DEF Registers, TakesSlot, RegistryStep
  <2>6. ObjectsStep
    BY <2>1, <2>2, <2>3 DEF ObjectsStep
  <2> QED
    BY <2>5, <2>6
<1>2. CASE CallInitiated(c)
  BY <1>1, <1>2 DEF CallInitiated, Delivers, Rejects, RegistryStep, ObjectsStep
<1>3. CASE CallAnswered(c)
  <2>1. CASE agents[c] # NoAgent /\ objects' = [objects EXCEPT ![agents[c]] = Started(agents[c])]
             /\ UNCHANGED registry
    <3>1. agents[c] \in AgentIds /\ objects[agents[c]].call # NoCall
      BY <1>0, <2>1 DEF TypeInv, TypeOK, EntriesAreCreated
    <3>2. ObjectsStep
      BY <2>1, <3>1, StartedStep
    <3> QED
      BY <1>3, <2>1, <3>2 DEF CallAnswered, RegistryStep
  <2> QED
    BY <1>1, <1>3, <2>1 DEF CallAnswered, Delivers, Rejects, RegistryStep, ObjectsStep
<1>4. CASE CallHangup(c)
  <2>1. CASE UNCHANGED <<registry, objects>>
    BY <1>4, <2>1 DEF CallHangup, RegistryStep, ObjectsStep
  <2>2. CASE agents[c] # NoAgent /\ ~UNCHANGED <<registry, objects>>
    <3>1. agents[c] \in AgentIds /\ objects[agents[c]] \in AgentSet
             /\ objects[agents[c]].call = c
      BY <1>0, <2>2 DEF TypeInv, TypeOK, EntriesAreCreated
    <3>2. CASE ClosesAndFinishes(agents[c])
      BY <1>4, <3>1, <3>2, ClosesAndFinishesStep DEF CallHangup, RegistryStep
    <3>3. CASE /\ objects' = [objects EXCEPT ![agents[c]].hangup = TRUE]
               /\ UNCHANGED registry
      <4>1. [objects[agents[c]] EXCEPT !.hangup = TRUE] \in AgentSet
        BY <3>1 DEF AgentSet
      <4>2. [objects[agents[c]] EXCEPT !.hangup = TRUE].call = c /\ c # NoCall
        BY <3>1 DEF AgentSet
      <4>3. ObjectsStep
        BY <3>1, <3>3, <4>1, <4>2 DEF ObjectsStep
      <4> QED
        BY <1>4, <3>3, <4>3 DEF CallHangup, RegistryStep
    <3> QED
      BY <1>4, <2>2, <3>2, <3>3 DEF CallHangup
  <2> QED
    BY <1>4, <2>1, <2>2 DEF CallHangup
<1> QED
  BY <1>2, <1>3, <1>4 DEF Webhook

\* An object keeps its call when its other fields change.
LEMMA AgentSteps ==
    ASSUME TypeInv, NEW a \in AgentIds, Handler(a) \/ RunTask(a)
    PROVE  RegistryStep /\ ObjectsStep /\ UNCHANGED <<carrier, shutdown>>
<1>0. objects[a] \in AgentSet /\ NoCall \notin Calls
  BY CallServerAssumption DEF TypeInv, TypeOK
<1>1. objects[a].call \in Calls
  BY <1>0 DEF TypeInv, HandlersHaveCalls, Handler, RunTask, AnswerReturns, AnswerFails,
              ClientCloses, RunEnds, DoneCallback, AgentSet
<1>2. ASSUME NEW o \in AgentSet, o.call = objects[a].call, objects' = [objects EXCEPT ![a] = o]
      PROVE  ObjectsStep
  BY <1>0, <1>1, <1>2 DEF ObjectsStep
<1>3. FinishCall(objects[a].call) => RegistryStep
  BY <1>1 DEF RegistryStep
<1>4. UNCHANGED registry => RegistryStep
  BY DEF RegistryStep
<1>5. CASE AnswerReturns(a)
  <2> DEFINE o == [IF objects[a].answering = "answered" THEN Started(a) ELSE objects[a]
                     EXCEPT !.answering = "no"]
  <2>1. o \in AgentSet /\ o.call = objects[a].call
    BY <1>0, StartedType DEF AgentSet, TypeInv
  <2>2. objects' = [objects EXCEPT ![a] = o]
    BY <1>5 DEF AnswerReturns
  <2> HIDE DEF o
  <2> QED
    BY <1>2, <1>4, <1>5, <2>1, <2>2 DEF AnswerReturns
<1>6. CASE AnswerFails(a)
  <2>1. CASE objects[a].closed
    <3> DEFINE o == [objects[a] EXCEPT !.answering = "no"]
    <3>1. o \in AgentSet /\ o.call = objects[a].call
      BY <1>0 DEF AgentSet
    <3>2. objects' = [objects EXCEPT ![a] = o]
      BY <1>6, <2>1 DEF AnswerFails, TypeInv, TypeOK
    <3> HIDE DEF o
    <3> QED
      BY <1>2, <1>3, <1>6, <2>1, <3>1, <3>2 DEF AnswerFails
  <2>2. CASE ~objects[a].closed
    <3> DEFINE o == [objects[a] EXCEPT !.answering = "no", !.closed = TRUE, !.closing = TRUE]
    <3>1. o \in AgentSet /\ o.call = objects[a].call
      BY <1>0 DEF AgentSet
    <3>2. objects' = [objects EXCEPT ![a] = o]
      BY <1>0, <1>6, <2>2 DEF AnswerFails, TypeInv, TypeOK
    <3> HIDE DEF o
    <3> QED
      BY <1>2, <1>4, <1>6, <2>2, <3>1, <3>2 DEF AnswerFails
  <2> QED
    BY <2>1, <2>2
<1>7. CASE ClientCloses(a)
  <2> DEFINE o == [objects[a] EXCEPT !.closing = FALSE]
  <2>1. o \in AgentSet /\ o.call = objects[a].call
    BY <1>0 DEF AgentSet
  <2>2. objects' = [objects EXCEPT ![a] = o]
    BY <1>7 DEF ClientCloses, TypeInv, TypeOK
  <2> HIDE DEF o
  <2> QED
    BY <1>2, <1>3, <1>7, <2>1, <2>2 DEF ClientCloses
<1>8. CASE RunEnds(a)
  <2>1. PICK closes \in BOOLEAN :
          objects' = [objects EXCEPT ![a].run = "done",
                                     ![a].closed = objects[a].closed \/ closes]
    BY <1>8 DEF RunEnds
  <2> DEFINE o == [objects[a] EXCEPT !.run = "done", !.closed = objects[a].closed \/ closes]
  <2>2. o \in AgentSet /\ o.call = objects[a].call
    <3>1. (objects[a].closed \/ closes) \in BOOLEAN
      BY <1>0, Zenon DEF AgentSet
    <3> QED
      BY <1>0, <3>1 DEF AgentSet
  <2>3. objects' = [objects EXCEPT ![a] = o]
    BY <1>0, <2>1 DEF TypeInv, TypeOK
  <2> HIDE DEF o
  <2> QED
    BY <1>2, <1>4, <1>8, <2>2, <2>3 DEF RunEnds
<1>9. CASE DoneCallback(a)
  <2> DEFINE o == [objects[a] EXCEPT !.run = "over"]
  <2>1. o \in AgentSet /\ o.call = objects[a].call
    BY <1>0 DEF AgentSet
  <2>2. objects' = [objects EXCEPT ![a] = o]
    BY <1>9 DEF DoneCallback, TypeInv, TypeOK
  <2> HIDE DEF o
  <2> QED
    BY <1>2, <1>3, <1>9, <2>1, <2>2 DEF DoneCallback
<1> QED
  BY <1>5, <1>6, <1>7, <1>8, <1>9 DEF Handler, RunTask

LEMMA LifespanSteps ==
    ASSUME TypeInv, Lifespan
    PROVE  /\ ObjectsStep
           /\ UNCHANGED carrier
           /\ \/ UNCHANGED registry /\ (stage' # "down" => stage # "down")
              \/ ShutdownEnds
           /\ stage' \in {"up", "stopping", "down"}
           /\ todo' \subseteq AgentIds
           /\ awaited' \in AgentIds \cup {NoAgent}
<1>0. /\ todo \subseteq AgentIds
      /\ awaited \in AgentIds \cup {NoAgent}
      /\ stage \in {"up", "stopping", "down"}
      /\ Registered \subseteq AgentIds
      /\ objects \in [AgentIds -> AgentSet]
  BY DEF TypeInv, TypeOK, Registered
<1>1. ASSUME NEW a \in todo, NEW o \in AgentSet, o.call = objects[a].call,
             o.run = objects[a].run, o.answering = objects[a].answering,
             o.closing = objects[a].closing, objects' = [objects EXCEPT ![a] = o]
      PROVE  ObjectsStep
  BY <1>0, <1>1 DEF ObjectsStep, TypeInv, HandlersHaveCalls
<1>2. CASE ShutdownBegins
  BY <1>0, <1>2 DEF ShutdownBegins, ObjectsStep
<1>3. ASSUME NEW a \in AgentIds, ShutdownCancels(a)
      PROVE  ObjectsStep
  <2> DEFINE o == [objects[a] EXCEPT !.cancelled = TRUE]
  <2>1. /\ o \in AgentSet /\ o.call = objects[a].call /\ o.run = objects[a].run
        /\ o.answering = objects[a].answering /\ o.closing = objects[a].closing
    BY <1>0 DEF AgentSet
  <2>2. objects' = [objects EXCEPT ![a] = o] /\ a \in todo
    BY <1>0, <1>3 DEF ShutdownCancels
  <2> HIDE DEF o
  <2> QED
    BY <1>1, <2>1, <2>2
<1>4. ASSUME NEW a \in AgentIds, ShutdownCloses(a)
      PROVE  ObjectsStep
  <2> DEFINE o == [objects[a] EXCEPT !.closed = TRUE]
  <2>1. /\ o \in AgentSet /\ o.call = objects[a].call /\ o.run = objects[a].run
        /\ o.answering = objects[a].answering /\ o.closing = objects[a].closing
    BY <1>0 DEF AgentSet
  <2>2. objects' = [objects EXCEPT ![a] = o] /\ a \in todo
    BY <1>0, <1>4 DEF ShutdownCloses
  <2> HIDE DEF o
  <2> QED
    BY <1>1, <2>1, <2>2
<1>5. CASE \E a \in AgentIds : ShutdownCancels(a)
  BY <1>0, <1>3, <1>5 DEF ShutdownCancels
<1>6. CASE \E a \in AgentIds : ShutdownReaps(a)
  BY <1>0, <1>6 DEF ShutdownReaps, ObjectsStep
<1>7. CASE \E a \in AgentIds : ShutdownCloses(a)
  BY <1>0, <1>4, <1>7 DEF ShutdownCloses
<1>8. CASE ShutdownEnds
  BY <1>0, <1>8 DEF ShutdownEnds, ObjectsStep
<1> QED
  BY <1>2, <1>5, <1>6, <1>7, <1>8 DEF Lifespan

LEMMA CarrierSteps ==
    ASSUME TypeInv, NEW c \in Calls, Carrier(c)
    PROVE  UNCHANGED <<registry, objects, delivered, shutdown>>
  BY DEF Carrier, LegAnswered, LegEnds

\* What any step does to the server.
LEMMA ServerSteps ==
    ASSUME TypeInv, [Next]_vars
    PROVE  /\ ObjectsStep
           /\ \/ RegistryStep /\ (stage' # "down" => stage # "down")
              \/ ShutdownEnds
           /\ stage' \in {"up", "stopping", "down"}
           /\ todo' \subseteq AgentIds
           /\ awaited' \in AgentIds \cup {NoAgent}
<1> USE DEF shutdown
<1>0. /\ todo \subseteq AgentIds
      /\ awaited \in AgentIds \cup {NoAgent}
      /\ stage \in {"up", "stopping", "down"}
  BY DEF TypeInv, TypeOK
<1>1. CASE \E c \in Calls : Carrier(c)
  BY <1>0, <1>1, CarrierSteps DEF RegistryStep, ObjectsStep
<1>2. CASE \E c \in Calls : Webhook(c)
  BY <1>0, <1>2, WebhookSteps
<1>3. CASE \E a \in AgentIds : Handler(a) \/ RunTask(a)
  BY <1>0, <1>3, AgentSteps
<1>4. CASE Lifespan
  BY <1>4, LifespanSteps DEF RegistryStep
<1>5. CASE Over \/ UNCHANGED vars
  BY <1>0, <1>5 DEF Over, vars, RegistryStep, ObjectsStep
<1> QED
  BY <1>1, <1>2, <1>3, <1>4, <1>5 DEF Next

-----------------------------------------------------------------------------
(***************************************************************************)
(* Type correctness.                                                       *)
(***************************************************************************)

LEMMA CarrierType ==
    ASSUME TypeOK, [Next]_vars
    PROVE  /\ leg' \in [Calls -> {"ringing", "up", "down", "missed"}]
           /\ delivered' \in [Calls -> [Webhooks -> 0..MaxDeliveries]]
<1> USE DEF TypeOK, carrier
<1>1. CASE \E c \in Calls : Carrier(c)
  BY <1>1 DEF Carrier, LegAnswered, LegEnds
<1>2. CASE \E c \in Calls : Webhook(c)
  <2>1. PICK c \in Calls : Webhook(c)
    BY <1>2
  <2>2. PICK w \in Webhooks : Delivers(c, w)
    BY <2>1 DEF Webhook, CallInitiated, CallAnswered, CallHangup, Webhooks
  <2>3. delivered[c] \in [Webhooks -> 0..MaxDeliveries] /\ delivered[c][w] \in 0..MaxDeliveries
    OBVIOUS
  <2>4. delivered[c][w] + 1 \in 0..MaxDeliveries
    BY <2>2, <2>3, CallServerAssumption DEF Delivers
  <2>5. delivered' = [delivered EXCEPT ![c] = [delivered[c] EXCEPT ![w] = delivered[c][w] + 1]]
    BY <2>2 DEF Delivers
  <2> QED
    BY <2>2, <2>3, <2>4, <2>5 DEF Delivers
<1>3. CASE \E a \in AgentIds : Handler(a) \/ RunTask(a)
  BY <1>3 DEF Handler, RunTask, AnswerReturns, AnswerFails, ClientCloses, RunEnds, DoneCallback
<1>4. CASE Lifespan
  BY <1>4 DEF Lifespan, ShutdownBegins, ShutdownCancels, ShutdownReaps, ShutdownCloses,
              ShutdownEnds
<1>5. CASE Over \/ UNCHANGED vars
  BY <1>5 DEF Over, vars
<1> QED
  BY <1>1, <1>2, <1>3, <1>4, <1>5 DEF Next

LEMMA RegistryType ==
    ASSUME TypeOK, RegistryStep \/ ShutdownEnds
    PROVE  agents' \in [Calls -> AgentIds \cup {NoAgent}] /\ active' \in Nat
  BY DEF TypeOK, RegistryStep, registry, TakesSlot, FinishCall, ShutdownEnds

LEMMA ObjectsType ==
    ASSUME TypeOK, HandlersHaveCalls, ObjectsStep
    PROVE  /\ objects' \in [AgentIds -> AgentSet]
           /\ HandlersHaveCalls'
           /\ \A a \in AgentIds :
                 objects[a].call # NoCall => objects'[a].call = objects[a].call
  BY DEF TypeOK, HandlersHaveCalls, ObjectsStep

LEMMA EntriesStep ==
    ASSUME TypeInv, RegistryStep \/ ShutdownEnds,
           \A a \in AgentIds : objects[a].call # NoCall => objects'[a].call = objects[a].call
    PROVE  EntriesAreCreated'
<1>0. /\ NoCall \notin Calls /\ NoAgent \notin AgentIds
      /\ agents \in [Calls -> AgentIds \cup {NoAgent}]
  BY CallServerAssumption DEF TypeInv, TypeOK
<1>1. \A c \in Calls :
         agents[c] # NoAgent => agents[c] \in AgentIds /\ objects'[agents[c]].call = c
  BY <1>0 DEF TypeInv, EntriesAreCreated
<1>2. CASE UNCHANGED registry
  BY <1>1, <1>2 DEF registry, EntriesAreCreated
<1>3. CASE \E c \in Calls : TakesSlot(c)
  BY <1>0, <1>1, <1>3 DEF TakesSlot, EntriesAreCreated
<1>4. CASE \E c \in Calls : FinishCall(c)
  BY <1>0, <1>1, <1>4 DEF FinishCall, EntriesAreCreated
<1>5. CASE ShutdownEnds
  BY <1>5 DEF ShutdownEnds, EntriesAreCreated
<1> QED
  BY <1>2, <1>3, <1>4, <1>5 DEF RegistryStep

LEMMA TypeInvInit == Init => TypeInv
<1> SUFFICES ASSUME Init PROVE TypeInv
  OBVIOUS
<1>1. delivered \in [Calls -> [Webhooks -> 0..MaxDeliveries]]
  <2>1. 0 \in 0..MaxDeliveries
    BY CallServerAssumption
  <2> QED
    BY <2>1 DEF Init
<1>2. TypeOK
  BY <1>1, NotCreatedType DEF Init, TypeOK
<1>3. HandlersHaveCalls /\ EntriesAreCreated
  BY DEF Init, HandlersHaveCalls, EntriesAreCreated, NotCreated
<1> QED
  BY <1>2, <1>3 DEF TypeInv

LEMMA TypeInvStep == TypeInv /\ [Next]_vars => TypeInv'
<1> SUFFICES ASSUME TypeInv, [Next]_vars PROVE TypeInv'
  OBVIOUS
<1>1. ObjectsStep /\ (RegistryStep \/ ShutdownEnds)
  BY ServerSteps
<1>2. EntriesAreCreated'
  BY <1>1, ObjectsType, EntriesStep DEF TypeInv
<1>3. TypeOK' /\ HandlersHaveCalls'
  BY <1>1, ServerSteps, CarrierType, RegistryType, ObjectsType DEF TypeInv, TypeOK
<1> QED
  BY <1>2, <1>3 DEF TypeInv

\* The server's variables stay in their types; the counter is never negative.
THEOREM TypeCorrect == Spec => []TypeOK
<1>1. TypeInv => TypeOK
  BY DEF TypeInv
<1> QED
  BY <1>1, TypeInvInit, TypeInvStep, PTL DEF Spec

-----------------------------------------------------------------------------
(***************************************************************************)
(* The slots.                                                              *)
(***************************************************************************)

LEMMA HeldFinite == IsFiniteSet(Held) /\ Cardinality(Held) \in Nat
  BY CallServerAssumption, FS_Subset, FS_CardinalityType DEF Held

LEMMA TakesSlotHeld ==
    ASSUME TypeOK, NEW c \in Calls, TakesSlot(c)
    PROVE  c \notin Held /\ Held' = Held \cup {c}
<1>1. PICK a \in AgentIds : agents' = [agents EXCEPT ![c] = a]
  BY DEF TakesSlot
<1> QED
  BY <1>1, CallServerAssumption DEF TypeOK, TakesSlot, Held

LEMMA FinishCallHeld ==
    ASSUME TypeOK, NEW c \in Calls, FinishCall(c)
    PROVE  Held' = Held \ {c}
  BY DEF TypeOK, FinishCall, Held

LEMMA SlotAccountingStep ==
    ASSUME TypeInv, SlotAccounting, [Next]_vars
    PROVE  SlotAccounting'
<1> SUFFICES ASSUME stage' # "down"
             PROVE  active' = Cardinality(Held')
  BY DEF SlotAccounting
<1>0. TypeOK /\ active \in Nat
  BY DEF TypeInv, TypeOK
<1>1. RegistryStep /\ active = Cardinality(Held)
  BY ServerSteps DEF ShutdownEnds, SlotAccounting
<1>2. CASE UNCHANGED registry
  BY <1>1, <1>2 DEF registry, Held
<1>3. CASE \E c \in Calls : TakesSlot(c)
  <2>1. PICK c \in Calls : TakesSlot(c)
    BY <1>3
  <2>2. c \notin Held /\ Held' = Held \cup {c} /\ active' = active + 1
    BY <1>0, <2>1, TakesSlotHeld DEF TakesSlot
  <2> QED
    BY <1>1, <2>2, HeldFinite, FS_AddElement
<1>4. CASE \E c \in Calls : FinishCall(c)
  <2>1. PICK c \in Calls : FinishCall(c)
    BY <1>4
  <2>2. Held' = Held \ {c}
    BY <1>0, <2>1, FinishCallHeld
  <2>3. CASE c \in Held
    <3>1. Cardinality(Held') = active - 1 /\ active # 0
      BY <1>1, <2>2, <2>3, HeldFinite, FS_RemoveElement, FS_EmptySet
    <3> QED
      BY <1>0, <2>1, <2>3, <3>1 DEF FinishCall, Held
  <2>4. CASE c \notin Held
    <3>1. Held' = Held /\ active' = active
      BY <2>1, <2>2, <2>4 DEF FinishCall, Held
    <3> QED
      BY <1>1, <3>1
  <2> QED
    BY <2>3, <2>4
<1> QED
  BY <1>1, <1>2, <1>3, <1>4 DEF RegistryStep

LEMMA SlotAccountingInit == Init => SlotAccounting
<1> SUFFICES ASSUME Init PROVE active = Cardinality(Held)
  BY DEF SlotAccounting
<1>1. Held = {} /\ active = 0
  BY DEF Init, Held
<1> QED
  BY <1>1, FS_EmptySet

\* The limiter counts exactly the registered calls until the server is down,
\* whatever the carrier delivers and whatever fails.
THEOREM SlotsAreCounted == Spec => []SlotAccounting
  BY TypeInvInit, TypeInvStep, SlotAccountingInit, SlotAccountingStep, PTL DEF Spec

\* A step of the server is a step of the limiter's slots.
LEMMA SlotsStep ==
    ASSUME TypeInv, SlotAccounting, [Next]_vars
    PROVE  [Slots!Acquire \/ Slots!Release \/ Slots!Clear]_Held
<1>0. TypeOK
  BY DEF TypeInv
<1>1. CASE UNCHANGED registry
  BY <1>1 DEF registry, Held
<1>2. CASE \E c \in Calls : TakesSlot(c) /\ stage = "up"
  <2>1. PICK c \in Calls : TakesSlot(c) /\ stage = "up"
    BY <1>2
  <2>2. c \in Calls \ Held /\ Held' = Held \cup {c}
    BY <1>0, <2>1, TakesSlotHeld
  <2>3. Slots!SlotFree
    <3>1. Slots!Cardinality(Held) = Cardinality(Held)
      BY DEF Slots!Cardinality, Cardinality
    <3>2. MaxConcurrent = 0 \/ Cardinality(Held) < MaxConcurrent
      BY <1>0, <2>1, CallServerAssumption DEF TakesSlot, AtCapacity, SlotAccounting, TypeOK
    <3> QED
      BY <3>1, <3>2 DEF Slots!SlotFree
  <2> QED
    BY <2>2, <2>3 DEF Slots!Acquire
<1>3. CASE \E c \in Calls : FinishCall(c)
  <2>1. PICK c \in Calls : Held' = Held \ {c}
    BY <1>0, <1>3, FinishCallHeld
  <2>2. CASE c \in Held
    BY <2>1, <2>2 DEF Slots!Release
  <2>3. CASE c \notin Held
    BY <2>1, <2>3
  <2> QED
    BY <2>2, <2>3
<1>4. CASE ShutdownEnds
  BY <1>4 DEF ShutdownEnds, Held, Slots!Clear
<1> QED
  BY <1>1, <1>2, <1>3, <1>4, ServerSteps DEF RegistryStep

\* The registry and its counter implement the slots of the limiter: a call holds
\* at most one slot and takes it only while one is free.
THEOREM SlotsImplemented == Spec => ImplementsSlots
<1>1. Init => Held = {}
  BY DEF Init, Held
<1> QED
  BY <1>1, TypeInvInit, TypeInvStep, SlotAccountingInit, SlotAccountingStep, SlotsStep, PTL
     DEF Spec, ImplementsSlots, Slots!SlotsSpec

-----------------------------------------------------------------------------
(***************************************************************************)
(* The run tasks, while the carrier delivers each webhook once and in      *)
(* order and reports its answers in time.  TLC finds the properties below  *)
(* violated when webhooks are repeated or reordered, and when an answer is *)
(* late.                                                                   *)
(***************************************************************************)

\* Each webhook comes once and in order; an answer command may be reported late.
InOrder == Faults \subseteq {"timeout"} /\ MaxDeliveries <= 1

Orderly == InOrder /\ Faults = {}

\* A call never has a second agent, and no agent before its first webhook.
OneAgentPerCall ==
    \A a \in AgentIds :
        objects[a].call # NoCall =>
            /\ delivered[objects[a].call]["initiated"] > 0
            /\ \A b \in AgentIds : objects[b].call = objects[a].call => b = a

\* Only an inbound call is answered, by the handler of its first webhook.
AnswersInbound ==
    /\ \A a \in AgentIds :
          objects[a].answering # "no" =>
              objects[a].call \in Incoming /\ objects[a].answering = "initiated"
    /\ \A c \in Incoming :
          leg[c] \in {"up", "down"} => \E a \in AgentIds : objects[a].call = c

\* "answered" is delivered of a leg that was answered, and starts the agent.
StartsWhenAnswered ==
    /\ \A c \in Calls :
          delivered[c]["answered"] > 0 =>
              leg[c] \in {"up", "down"} /\ delivered[c]["initiated"] > 0
    /\ \A a \in AgentIds :
          objects[a].call # NoCall =>
              (objects[a].run # "none" <=> delivered[objects[a].call]["answered"] > 0)

\* An agent is only closed before its start when its leg cannot be answered any more.
ClosedUnstarted ==
    \A a \in AgentIds :
        /\ objects[a].closing => objects[a].closed /\ objects[a].run = "none"
        /\ stage = "up" /\ objects[a].closed => objects[a].call # NoCall
        /\ stage = "up" /\ objects[a].closed /\ objects[a].run = "none" =>
              \/ leg[objects[a].call] = "missed"
              \/ /\ leg[objects[a].call] = "ringing"
                 /\ objects[a].call \in Incoming
                 /\ objects[a].answering = "no"

\* A run task that nobody cancelled closes its client.
RunsClose ==
    stage = "up" =>
        \A a \in AgentIds :
            /\ ~objects[a].cancelled
            /\ objects[a].run \in {"done", "over"} => objects[a].closed

\* The shutdown begins when no handler is left, and ends every run task.
ShutdownIsQuiet ==
    stage # "up" =>
        \A a \in AgentIds :
            /\ objects[a].answering = "no" /\ ~objects[a].closing
            /\ objects[a].run = "running" => stage = "stopping" /\ a \in todo

RunsInv ==
    /\ OneAgentPerCall
    /\ AnswersInbound
    /\ StartsWhenAnswered
    /\ ClosedUnstarted
    /\ RunsClose
    /\ ShutdownIsQuiet
    /\ RunsAreRegistered
    /\ NoClientLeak

LEMMA RunsInit == Init => RunsInv
<1> SUFFICES ASSUME Init PROVE RunsInv
  OBVIOUS
<1>1. /\ objects \in [AgentIds -> {NotCreated}]
      /\ leg \in [Calls -> {"ringing"}]
      /\ \A c \in Calls : delivered[c]["answered"] = 0
      /\ stage = "up"
  BY DEF Init, Webhooks
<1>2. OneAgentPerCall /\ AnswersInbound
  BY <1>1, CallServerAssumption DEF OneAgentPerCall, AnswersInbound, NotCreated
<1>3. StartsWhenAnswered /\ ClosedUnstarted
  BY <1>1 DEF StartsWhenAnswered, ClosedUnstarted, NotCreated
<1>4. RunsClose /\ ShutdownIsQuiet /\ RunsAreRegistered /\ NoClientLeak
  BY <1>1 DEF RunsClose, ShutdownIsQuiet, RunsAreRegistered, NoClientLeak, NotCreated
<1> QED
  BY <1>2, <1>3, <1>4 DEF RunsInv

\* What the invariant says of an agent of a call that was created.
AgentFits(a) ==
    LET o == objects[a]
        c == o.call
    IN  /\ a \in AgentIds /\ o \in AgentSet
        /\ c \in Calls
        /\ \A b \in AgentIds : objects[b].call = c => b = a

LEMMA CreatedFits ==
    ASSUME TypeInv, RunsInv, NEW a \in AgentIds,
           objects[a].call # NoCall \/ objects[a].run # "none" \/ objects[a].closing
             \/ objects[a].answering # "no"
    PROVE  AgentFits(a)
  BY DEF TypeInv, TypeOK, HandlersHaveCalls, RunsInv, OneAgentPerCall, AgentFits, AgentSet

LEMMA RegisteredFits ==
    ASSUME TypeInv, RunsInv, NEW c \in Calls, agents[c] # NoAgent
    PROVE  AgentFits(agents[c]) /\ objects[agents[c]].call = c
<1>1. agents[c] \in AgentIds /\ objects[agents[c]].call = c /\ c # NoCall
  BY CallServerAssumption DEF TypeInv, TypeOK, EntriesAreCreated
<1> QED
  BY <1>1, CreatedFits

\* A webhook is delivered for the first time, after those before it.
LEMMA DeliversOnce ==
    ASSUME InOrder, TypeOK, NEW c \in Calls, NEW w \in Webhooks, Delivers(c, w)
    PROVE  /\ stage = "up"
           /\ leg' = leg
           /\ delivered[c][w] = 0
           /\ \A d \in Calls, v \in Webhooks :
                 delivered'[d][v] = IF d = c /\ v = w THEN 1 ELSE delivered[d][v]
           /\ \A d \in Calls, v \in Webhooks : delivered[d][v] \in Nat
           /\ w # "initiated" => delivered[c]["initiated"] > 0
           /\ w = "answered" => leg[c] \in {"up", "down"}
           /\ w = "hangup" => leg[c] \in {"down", "missed"}
           /\ w = "hangup" /\ leg[c] = "down" => delivered[c]["answered"] > 0
<1>0. /\ \A d \in Calls : delivered[d] \in [Webhooks -> 0..MaxDeliveries]
      /\ delivered \in [Calls -> [Webhooks -> 0..MaxDeliveries]]
      /\ MaxDeliveries \in Nat /\ MaxDeliveries <= 1 /\ "reorder" \notin Faults
      /\ leg[c] \in {"ringing", "up", "down", "missed"}
  BY CallServerAssumption DEF TypeOK, InOrder
<1>1. /\ stage = "up" /\ leg' = leg
      /\ w \in Happened(c)
      /\ delivered[c][w] < MaxDeliveries
      /\ \A v \in Before(w) \cap Happened(c) : delivered[c][v] > 0
      /\ delivered' = [delivered EXCEPT ![c] = [delivered[c] EXCEPT ![w] = delivered[c][w] + 1]]
  BY <1>0 DEF Delivers
<1>2. delivered[c][w] = 0
  <2>1. delivered[c][w] \in 0..MaxDeliveries
    BY <1>0
  <2>2. delivered[c][w] < MaxDeliveries /\ MaxDeliveries \in Nat /\ MaxDeliveries <= 1
    BY <1>0, <1>1
  <2> QED
    BY <2>1, <2>2
<1>3. \A d \in Calls, v \in Webhooks :
         delivered'[d][v] = IF d = c /\ v = w THEN 1 ELSE delivered[d][v]
  BY <1>0, <1>1, <1>2
<1>4. w # "initiated" => "initiated" \in Before(w) \cap Happened(c)
  BY DEF Before, Happened, Webhooks
<1>5. w = "answered" => leg[c] \in {"up", "down"}
  BY <1>1 DEF Happened
<1>6. w = "hangup" => leg[c] \in {"down", "missed"}
  BY <1>1 DEF Happened
<1>7. w = "hangup" /\ leg[c] = "down" => "answered" \in Before(w) \cap Happened(c)
  BY DEF Before, Happened
<1> QED
  BY <1>0, <1>1, <1>2, <1>3, <1>4, <1>5, <1>6, <1>7

LEMMA RunsCarrier ==
    ASSUME TypeInv, RunsInv, NEW c \in Calls, Carrier(c)
    PROVE  RunsInv'
<1>0. /\ UNCHANGED <<agents, objects, delivered, stage, todo>>
      /\ leg \in [Calls -> {"ringing", "up", "down", "missed"}]
      /\ objects \in [AgentIds -> AgentSet]
      /\ NoCall \notin Calls /\ Incoming \subseteq Calls
  BY CallServerAssumption DEF Carrier, LegAnswered, LegEnds, registry, shutdown, TypeInv, TypeOK
<1>1. CASE LegAnswered(c)
  <2>1. leg[c] = "ringing" /\ leg' = [leg EXCEPT ![c] = "up"]
    BY <1>1 DEF LegAnswered
  <2>2. c \in Incoming => \E a \in AgentIds : AgentFits(a) /\ objects[a].call = c /\ objects[a].answering # "no"
    BY <1>1, CreatedFits DEF LegAnswered
  <2>3. AnswersInbound'
    BY <1>0, <2>1, <2>2 DEF RunsInv, AnswersInbound
  <2>4. ClosedUnstarted'
    BY <1>0, <2>1, <2>2 DEF RunsInv, ClosedUnstarted, AgentFits, AgentSet
  <2>5. StartsWhenAnswered'
    BY <1>0, <2>1 DEF RunsInv, StartsWhenAnswered
  <2> QED
    BY <1>0, <2>3, <2>4, <2>5
       DEF RunsInv, OneAgentPerCall, RunsClose, ShutdownIsQuiet, RunsAreRegistered, NoClientLeak
<1>2. CASE LegEnds(c)
  <2>1. leg[c] \in {"ringing", "up"}
        /\ leg' = [leg EXCEPT ![c] = IF leg[c] = "up" THEN "down" ELSE "missed"]
    BY <1>2 DEF LegEnds
  <2>3. AnswersInbound'
    BY <1>0, <2>1 DEF RunsInv, AnswersInbound
  <2>4. ClosedUnstarted'
    BY <1>0, <2>1 DEF RunsInv, ClosedUnstarted, AgentSet
  <2>5. StartsWhenAnswered'
    BY <1>0, <2>1 DEF RunsInv, StartsWhenAnswered
  <2> QED
    BY <1>0, <2>3, <2>4, <2>5
       DEF RunsInv, OneAgentPerCall, RunsClose, ShutdownIsQuiet, RunsAreRegistered, NoClientLeak
<1> QED
  BY <1>1, <1>2 DEF Carrier

\* A webhook that leaves the agents alone: of a call that was registered before,
\* or that is rejected, and has no agent.
LEMMA RunsDelivered ==
    ASSUME Orderly, TypeInv, RunsInv, NEW c \in Calls, NEW w \in Webhooks, Delivers(c, w),
           UNCHANGED <<agents, objects, stage, todo>>,
           w = "answered" => \A a \in AgentIds : objects[a].call # c
    PROVE  RunsInv'
<1>0. /\ stage = "up"
      /\ leg' = leg
      /\ \A d \in Calls, v \in Webhooks :
            delivered'[d][v] = IF d = c /\ v = w THEN 1 ELSE delivered[d][v]
      /\ w = "answered" => leg[c] \in {"up", "down"} /\ delivered[c]["initiated"] > 0
      /\ "initiated" \in Webhooks /\ "answered" \in Webhooks
  BY DeliversOnce DEF Orderly, TypeInv, Webhooks
<1>1. \A a \in AgentIds : objects[a].call \in Calls \cup {NoCall}
  BY DEF TypeInv, TypeOK, AgentSet
<1>2. OneAgentPerCall'
  BY <1>0, <1>1 DEF RunsInv, OneAgentPerCall
<1>3. StartsWhenAnswered'
  BY <1>0, <1>1 DEF RunsInv, StartsWhenAnswered
<1>4. AnswersInbound' /\ ClosedUnstarted'
  BY <1>0 DEF RunsInv, AnswersInbound, ClosedUnstarted
<1>5. RunsClose' /\ ShutdownIsQuiet'
  BY DEF RunsInv, RunsClose, ShutdownIsQuiet
<1>6. RunsAreRegistered' /\ NoClientLeak'
  BY DEF RunsInv, RunsAreRegistered, NoClientLeak
<1> QED
  BY <1>2, <1>3, <1>4, <1>5, <1>6 DEF RunsInv

\* A call that is not registered when it begins or is answered has no agent yet.
LEMMA NoAgentYet ==
    ASSUME Orderly, TypeInv, RunsInv, NEW c \in Calls, NEW w \in {"initiated", "answered"},
           Delivers(c, w), agents[c] = NoAgent
    PROVE  \A b \in AgentIds : objects[b].call # c
<1>0. /\ stage = "up"
      /\ delivered[c][w] = 0
      /\ w = "answered" => leg[c] \in {"up", "down"}
      /\ NoCall \notin Calls /\ NoAgent \notin AgentIds
  BY DeliversOnce, CallServerAssumption DEF Orderly, TypeInv, Webhooks
<1>1. ASSUME NEW b \in AgentIds, objects[b].call = c
      PROVE  FALSE
  <2>1. delivered[c]["initiated"] > 0 /\ c # NoCall
    BY <1>0, <1>1 DEF RunsInv, OneAgentPerCall
  <2>2. w = "answered"
    BY <1>0, <2>1
  <2>3. objects[b].run = "none"
    BY <1>0, <1>1, <2>2 DEF RunsInv, StartsWhenAnswered, TypeInv, TypeOK, AgentSet
  <2>4. objects[b].closed
    BY <1>0, <1>1, <2>1, <2>3 DEF RunsInv, NoClientLeak
  <2> QED
    BY <1>0, <1>1, <2>2, <2>3, <2>4 DEF RunsInv, ClosedUnstarted
<1> QED
  BY <1>1

\* A new agent is the first of its call.
LEMMA RunsRegisters ==
    ASSUME Orderly, TypeInv, RunsInv, NEW c \in Calls, NEW w \in {"initiated", "answered"},
           Delivers(c, w), Registers(c, w), UNCHANGED <<stage, todo>>
    PROVE  RunsInv'
<1>0. /\ stage = "up"
      /\ leg' = leg
      /\ delivered[c][w] = 0
      /\ \A d \in Calls, v \in Webhooks :
            delivered'[d][v] = IF d = c /\ v = w THEN 1 ELSE delivered[d][v]
      /\ \A d \in Calls, v \in Webhooks : delivered[d][v] \in Nat
      /\ w # "initiated" => delivered[c]["initiated"] > 0
      /\ w = "answered" => leg[c] \in {"up", "down"}
      /\ "initiated" \in Webhooks /\ "answered" \in Webhooks
  BY DeliversOnce DEF Orderly, TypeInv, Webhooks
<1>1. /\ objects \in [AgentIds -> AgentSet]
      /\ agents \in [Calls -> AgentIds \cup {NoAgent}]
      /\ NoCall \notin Calls /\ Incoming \subseteq Calls /\ NoAgent \notin AgentIds
      /\ \A b \in AgentIds : objects[b].call \in Calls \cup {NoCall}
  BY CallServerAssumption DEF TypeInv, TypeOK, AgentSet
<1>2. PICK a \in AgentIds :
        /\ objects[a].call = NoCall
        /\ agents' = [agents EXCEPT ![c] = a]
        /\ objects' = [objects EXCEPT ![a] =
              [NotCreated EXCEPT
                  !.call = c,
                  !.answering = IF c \in Incoming THEN w ELSE "no",
                  !.run = IF c \notin Incoming /\ w = "answered" THEN "running"
                                                                  ELSE "none"]]
  BY DEF Registers
<1>3. /\ agents[c] = NoAgent
      /\ agents'[c] = a
      /\ \A d \in Calls \ {c} : agents'[d] = agents[d]
  BY <1>1, <1>2 DEF Registers
<1>4. /\ objects'[a].call = c
      /\ objects'[a].answering = IF c \in Incoming THEN w ELSE "no"
      /\ objects'[a].run = IF c \notin Incoming /\ w = "answered" THEN "running" ELSE "none"
      /\ ~objects'[a].closing /\ ~objects'[a].closed /\ ~objects'[a].cancelled
      /\ \A b \in AgentIds \ {a} : objects'[b] = objects[b]
  BY <1>1, <1>2 DEF NotCreated
<1>5. \A b \in AgentIds : objects[b].call # c
  BY <1>3, NoAgentYet
<1>6. c \in Incoming => w = "initiated"
  BY <1>0, <1>5 DEF RunsInv, AnswersInbound
<1>7. OneAgentPerCall'
  BY <1>0, <1>1, <1>4, <1>5 DEF RunsInv, OneAgentPerCall
<1>8. AnswersInbound'
  <2>1. \A d \in Incoming :
           leg'[d] \in {"up", "down"} => \E b \in AgentIds : objects'[b].call = d
    <3> SUFFICES ASSUME NEW d \in Incoming, leg'[d] \in {"up", "down"}
                 PROVE  \E b \in AgentIds : objects'[b].call = d
      OBVIOUS
    <3>1. PICK b \in AgentIds : objects[b].call = d
      BY <1>0 DEF RunsInv, AnswersInbound
    <3>2. b # a
      BY <1>1, <1>2, <3>1
    <3> QED
      BY <1>4, <3>1, <3>2
  <2> QED
    BY <1>4, <1>6, <2>1 DEF RunsInv, AnswersInbound
<1>9. StartsWhenAnswered'
  <2>2. w = "initiated" => delivered[c]["answered"] = 0
    BY <1>0 DEF RunsInv, StartsWhenAnswered
  <2> QED
    BY <1>0, <1>1, <1>4, <1>5, <1>6, <2>2 DEF RunsInv, StartsWhenAnswered
<1>10. ClosedUnstarted'
  BY <1>0, <1>1, <1>4 DEF RunsInv, ClosedUnstarted
<1>11. RunsClose' /\ ShutdownIsQuiet'
  BY <1>0, <1>4 DEF RunsInv, RunsClose, ShutdownIsQuiet
<1>12. RunsAreRegistered' /\ NoClientLeak'
  BY <1>0, <1>1, <1>3, <1>4, <1>5 DEF RunsInv, RunsAreRegistered, NoClientLeak, TypeInv, HandlersHaveCalls
<1> QED
  BY <1>7, <1>8, <1>9, <1>10, <1>11, <1>12 DEF RunsInv

\* One agent goes on, and keeps its call.
GoesOn(a) ==
    /\ AgentFits(a)
    /\ objects'[a].call = objects[a].call
    /\ \A b \in AgentIds \ {a} : objects'[b] = objects[b]

LEMMA UpdateGoesOn ==
    ASSUME TypeInv, NEW a, AgentFits(a), NEW o, o.call = objects[a].call,
           objects' = [objects EXCEPT ![a] = o]
    PROVE  GoesOn(a) /\ objects'[a] = o
  BY DEF TypeInv, TypeOK, AgentFits, GoesOn

\* What holds of a call's agents by its webhooks alone.
LEMMA GoesOnKeeps ==
    ASSUME TypeInv, RunsInv, NEW a, GoesOn(a), leg' = leg,
           \A d \in Calls : delivered[d]["initiated"] > 0 => delivered'[d]["initiated"] > 0
    PROVE  /\ OneAgentPerCall'
           /\ objects'[a].answering \in {"no", objects[a].answering} => AnswersInbound'
<1>0. /\ \A b \in AgentIds : objects[b].call \in Calls \cup {NoCall}
      /\ NoCall \notin Calls /\ Incoming \subseteq Calls
      /\ \A b \in AgentIds : objects'[b].call = objects[b].call
      /\ a \in AgentIds
  BY CallServerAssumption DEF TypeInv, TypeOK, AgentSet, GoesOn, AgentFits
<1>1. OneAgentPerCall'
  BY <1>0 DEF RunsInv, OneAgentPerCall
<1>2. ASSUME objects'[a].answering \in {"no", objects[a].answering}
      PROVE  AnswersInbound'
  <2>1. \A b \in AgentIds : objects'[b].answering \in {"no", objects[b].answering}
    BY <1>2 DEF GoesOn
  <2> QED
    BY <1>0, <2>1 DEF RunsInv, AnswersInbound
<1> QED
  BY <1>1, <1>2

\* The agent of a call that is answered is started.
LEMMA RunsStarts ==
    ASSUME Orderly, TypeInv, RunsInv, NEW c \in Calls, Delivers(c, "answered"),
           agents[c] # NoAgent, objects' = [objects EXCEPT ![agents[c]] = Started(agents[c])],
           UNCHANGED <<agents, stage, todo>>
    PROVE  RunsInv'
<1> DEFINE a == agents[c]
<1>0. /\ stage = "up"
      /\ leg' = leg
      /\ delivered[c]["answered"] = 0
      /\ \A d \in Calls, v \in Webhooks :
            delivered'[d][v] = IF d = c /\ v = "answered" THEN 1 ELSE delivered[d][v]
      /\ \A d \in Calls, v \in Webhooks : delivered[d][v] \in Nat
      /\ delivered[c]["initiated"] > 0
      /\ leg[c] \in {"up", "down"}
      /\ "initiated" \in Webhooks /\ "answered" \in Webhooks
  <2>1. "initiated" \in Webhooks /\ "answered" \in Webhooks
    BY DEF Webhooks
  <2> QED
    BY <2>1, DeliversOnce DEF Orderly, TypeInv
<1>1. AgentFits(a) /\ objects[a].call = c
  BY RegisteredFits
<1> HIDE DEF a
<1>2. /\ objects \in [AgentIds -> AgentSet]
      /\ \A b \in AgentIds : objects[b].call \in Calls \cup {NoCall}
      /\ NoCall \notin Calls
      /\ a \in AgentIds /\ objects[a] \in AgentSet
  BY <1>1, CallServerAssumption DEF TypeInv, TypeOK, AgentSet, AgentFits
<1>3. objects[a].run = "none"
  BY <1>0, <1>1, <1>2 DEF RunsInv, StartsWhenAnswered
<1>4. objects' = [objects EXCEPT ![a] = [objects[a] EXCEPT !.run = "running"]]
  BY <1>3 DEF a, Started
<1>5. [objects[a] EXCEPT !.run = "running"].call = objects[a].call
  BY <1>2 DEF AgentSet
<1>6. GoesOn(a) /\ objects'[a] = [objects[a] EXCEPT !.run = "running"]
  BY <1>1, <1>4, <1>5, UpdateGoesOn
<1>7. /\ objects'[a].run = "running"
      /\ objects'[a].call = c
      /\ objects'[a].answering = objects[a].answering
      /\ objects'[a].closing = objects[a].closing
      /\ objects'[a].closed = objects[a].closed
      /\ objects'[a].cancelled = objects[a].cancelled
  BY <1>1, <1>2, <1>6 DEF AgentSet
<1>8. ~objects[a].closed /\ ~objects[a].closing
  BY <1>0, <1>1, <1>2, <1>3 DEF RunsInv, ClosedUnstarted
<1>9. OneAgentPerCall' /\ AnswersInbound'
  <2>1. \A d \in Calls : delivered[d]["initiated"] > 0 => delivered'[d]["initiated"] > 0
    BY <1>0
  <2>2. objects'[a].answering \in {"no", objects[a].answering}
    BY <1>7
  <2> QED
    BY <1>0, <1>6, <2>1, <2>2, GoesOnKeeps
<1>10. StartsWhenAnswered'
  <2>1. \A b \in AgentIds \ {a} : objects[b].call # c
    BY <1>1 DEF AgentFits
  <2> QED
    BY <1>0, <1>2, <1>6, <1>7, <2>1 DEF RunsInv, StartsWhenAnswered, GoesOn
<1>11. ClosedUnstarted'
  BY <1>0, <1>6, <1>7, <1>8 DEF RunsInv, ClosedUnstarted, GoesOn
<1>12. RunsClose' /\ ShutdownIsQuiet'
  BY <1>0, <1>6, <1>7 DEF RunsInv, RunsClose, ShutdownIsQuiet, GoesOn
<1>13. RunsAreRegistered' /\ NoClientLeak'
  BY <1>0, <1>6, <1>7 DEF RunsInv, RunsAreRegistered, NoClientLeak, GoesOn, a
<1> QED
  BY <1>9, <1>10, <1>11, <1>12, <1>13 DEF RunsInv

\* A hangup only tells the agent's run task, or closes an agent that never started.
LEMMA RunsHangup ==
    ASSUME Orderly, TypeInv, RunsInv, NEW c \in Calls, CallHangup(c)
    PROVE  RunsInv'
<1> USE DEF registry, shutdown
<1> DEFINE a == agents[c]
<1>0. /\ Delivers(c, "hangup") /\ UNCHANGED shutdown
      /\ stage = "up"
      /\ leg' = leg
      /\ \A d \in Calls : /\ delivered'[d]["initiated"] = delivered[d]["initiated"]
                          /\ delivered'[d]["answered"] = delivered[d]["answered"]
      /\ leg[c] \in {"down", "missed"}
      /\ leg[c] = "down" => delivered[c]["answered"] > 0
  <2>1. Delivers(c, "hangup") /\ UNCHANGED shutdown
    BY DEF CallHangup
  <2>2. "initiated" \in Webhooks /\ "answered" \in Webhooks /\ "hangup" \in Webhooks
    BY DEF Webhooks
  <2> QED
    BY <2>1, <2>2, DeliversOnce DEF Orderly, TypeInv
<1>1. CASE UNCHANGED <<registry, objects>>
  <2>1. "hangup" \in Webhooks /\ "hangup" # "answered"
    BY DEF Webhooks
  <2> QED
    BY <1>0, <1>1, <2>1, RunsDelivered
<1>2. ASSUME a # NoAgent, NEW o, objects' = [objects EXCEPT ![a] = o], agents' = agents,
             o.call = objects[a].call, o.run = objects[a].run, o.answering = objects[a].answering,
             o.cancelled = objects[a].cancelled,
             \/ o.closed = objects[a].closed /\ o.closing = objects[a].closing
             \/ o.closed = TRUE /\ o.closing = TRUE /\ objects[a].run = "none"
      PROVE  RunsInv'
  <2>1. AgentFits(a) /\ objects[a].call = c
    BY <1>2, RegisteredFits
  <2> HIDE DEF a
  <2>2. GoesOn(a) /\ objects'[a] = o
    BY <1>2, <2>1, UpdateGoesOn
  <2>3. c # NoCall /\ a \in AgentIds /\ objects[a] \in AgentSet
    BY <2>1, CallServerAssumption DEF AgentFits
  <2>4. OneAgentPerCall' /\ AnswersInbound'
    <3>1. \A d \in Calls : delivered[d]["initiated"] > 0 => delivered'[d]["initiated"] > 0
      BY <1>0
    <3>2. objects'[a].answering \in {"no", objects[a].answering}
      BY <1>2, <2>2
    <3> QED
      BY <1>0, <2>2, <3>1, <3>2, GoesOnKeeps
  <2>5. StartsWhenAnswered'
    <3>1. \A b \in AgentIds : /\ objects'[b].call = objects[b].call
                              /\ objects'[b].run = objects[b].run
                              /\ objects[b].call \in Calls \cup {NoCall}
      BY <1>2, <2>2 DEF GoesOn, TypeInv, TypeOK, AgentSet
    <3> QED
      BY <1>0, <3>1 DEF RunsInv, StartsWhenAnswered
  <2>6. ClosedUnstarted'
    <3>1. objects[a].run = "none" => leg[c] = "missed"
      BY <1>0, <2>1, <2>3 DEF RunsInv, StartsWhenAnswered
    <3> QED
      BY <1>0, <1>2, <2>1, <2>2, <2>3, <3>1 DEF RunsInv, ClosedUnstarted, GoesOn
  <2>7. RunsClose' /\ ShutdownIsQuiet'
    BY <1>0, <1>2, <2>2, <2>3 DEF RunsInv, RunsClose, ShutdownIsQuiet, GoesOn, AgentSet
  <2>8. RunsAreRegistered' /\ NoClientLeak'
    BY <1>0, <1>2, <2>2, <2>3 DEF RunsInv, RunsAreRegistered, NoClientLeak, GoesOn, AgentSet
  <2> QED
    BY <2>4, <2>5, <2>6, <2>7, <2>8 DEF RunsInv
<1>3. ASSUME a # NoAgent, objects' = [objects EXCEPT ![a].hangup = TRUE], agents' = agents
      PROVE  RunsInv'
  <2> DEFINE o == [objects[a] EXCEPT !.hangup = TRUE]
  <2>1. a \in AgentIds /\ objects[a] \in AgentSet
    BY <1>3, RegisteredFits DEF AgentFits
  <2>2. /\ o.call = objects[a].call /\ o.run = objects[a].run
        /\ o.answering = objects[a].answering /\ o.cancelled = objects[a].cancelled
        /\ o.closed = objects[a].closed /\ o.closing = objects[a].closing
    BY <2>1 DEF AgentSet
  <2>3. objects' = [objects EXCEPT ![a] = o]
    BY <1>3
  <2> HIDE DEF o, a
  <2> QED
    BY <1>2, <1>3, <2>2, <2>3
<1>4. ASSUME a # NoAgent, objects[a].run = "none", ClosesAndFinishes(a), ~objects[a].closed
      PROVE  RunsInv'
  <2> DEFINE o == [objects[a] EXCEPT !.closed = TRUE, !.closing = TRUE]
  <2>1. a \in AgentIds /\ objects[a] \in AgentSet /\ objects \in [AgentIds -> AgentSet]
    BY <1>4, RegisteredFits DEF AgentFits, TypeInv, TypeOK
  <2>2. /\ o.call = objects[a].call /\ o.run = objects[a].run
        /\ o.answering = objects[a].answering /\ o.cancelled = objects[a].cancelled
        /\ o.closed = TRUE /\ o.closing = TRUE
    BY <2>1 DEF AgentSet
  <2>3. objects' = [objects EXCEPT ![a] = o] /\ agents' = agents
    BY <1>4, <2>1 DEF ClosesAndFinishes
  <2> HIDE DEF o, a
  <2> QED
    BY <1>2, <1>4, <2>2, <2>3
<1>5. ASSUME a # NoAgent, objects[a].run = "none", ClosesAndFinishes(a), objects[a].closed
      PROVE  RunsInv'
  <2>1. AgentFits(a) /\ objects[a].call = c
    BY <1>5, RegisteredFits
  <2>2. UNCHANGED objects /\ FinishCall(c)
    BY <1>5, <2>1 DEF ClosesAndFinishes
  <2>3. /\ agents'[c] = NoAgent
        /\ \A d \in Calls \ {c} : agents'[d] = agents[d]
        /\ \A b \in AgentIds : objects[b].call \in Calls \cup {NoCall}
    BY <2>2 DEF FinishCall, TypeInv, TypeOK, AgentSet
  <2> HIDE DEF a
  <2>4. OneAgentPerCall' /\ AnswersInbound' /\ StartsWhenAnswered' /\ ClosedUnstarted'
    BY <1>0, <2>2, <2>3
       DEF RunsInv, OneAgentPerCall, AnswersInbound, StartsWhenAnswered, ClosedUnstarted
  <2>5. RunsClose' /\ ShutdownIsQuiet'
    BY <1>0, <2>2 DEF RunsInv, RunsClose, ShutdownIsQuiet
  <2>6. \A b \in AgentIds : objects[b].call = c => b = a
    BY <2>1 DEF AgentFits
  <2>7. RunsAreRegistered' /\ NoClientLeak'
    <3>1. \A b \in AgentIds : objects[b].run = "running" => objects[b].call \in Calls \ {c}
      BY <1>5, <2>3, <2>6 DEF TypeInv, HandlersHaveCalls
    <3> QED
      BY <1>0, <1>5, <2>1, <2>2, <2>3, <2>6, <3>1 DEF RunsInv, RunsAreRegistered, NoClientLeak
  <2> QED
    BY <2>4, <2>5, <2>7 DEF RunsInv
<1> QED
  BY <1>1, <1>3, <1>4, <1>5 DEF CallHangup

\* An agent's run task or handler goes on, and the call may leave the registry with
\* an agent that does not run and is closed.
LEMMA RunsUpdate ==
    ASSUME TypeInv, RunsInv, NEW a, GoesOn(a), UNCHANGED <<leg, delivered, stage, todo>>,
           objects'[a].answering \in {"no", objects[a].answering},
           objects'[a].cancelled = objects[a].cancelled,
           objects'[a].run = "none" <=> objects[a].run = "none",
           objects'[a].run \in {objects[a].run, "done", "over"},
           objects'[a].closing =>
               objects'[a].closed /\ objects'[a].run = "none" /\ stage = "up",
           stage = "up" /\ objects'[a].closed /\ objects'[a].run = "none" =>
               \/ leg[objects[a].call] = "missed"
               \/ /\ leg[objects[a].call] = "ringing"
                  /\ objects[a].call \in Incoming
                  /\ objects'[a].answering = "no",
           stage = "up" /\ objects'[a].run \in {"done", "over"} => objects'[a].closed,
           objects[a].closed => objects'[a].closed,
           \/ agents' = agents
           \/ /\ FinishCall(objects[a].call)
              /\ objects'[a].run # "running"
              /\ stage = "up" => objects'[a].closed
    PROVE  RunsInv'
<1> DEFINE c == objects[a].call
<1>0. /\ a \in AgentIds /\ objects[a] \in AgentSet /\ c \in Calls /\ c # NoCall
      /\ objects'[a].call = c
      /\ \A b \in AgentIds \ {a} : objects'[b] = objects[b]
      /\ \A b \in AgentIds : objects[b].call = c => b = a
      /\ \A b \in AgentIds : objects[b].call \in Calls \cup {NoCall}
      /\ \A b \in AgentIds : objects[b] \in AgentSet
  BY CallServerAssumption DEF GoesOn, AgentFits, TypeInv, TypeOK, AgentSet
<1>1. OneAgentPerCall' /\ AnswersInbound'
  BY GoesOnKeeps
<1>2. StartsWhenAnswered'
  BY <1>0 DEF RunsInv, StartsWhenAnswered
<1>3. ClosedUnstarted'
  BY <1>0 DEF RunsInv, ClosedUnstarted
<1>4. RunsClose' /\ ShutdownIsQuiet'
  BY <1>0 DEF RunsInv, RunsClose, ShutdownIsQuiet, AgentSet
<1>5. CASE agents' = agents
  <2>1. stage = "up" /\ objects[a].run = "running" => agents[c] = a
    BY <1>0 DEF RunsInv, RunsAreRegistered
  <2>2. objects'[a].run \in {"none", "running", "done", "over"}
    BY <1>0 DEF AgentSet
  <2>3. RunsAreRegistered'
    BY <1>0, <1>5 DEF RunsInv, RunsAreRegistered
  <2>4. NoClientLeak'
    BY <1>0, <1>5, <2>1, <2>2 DEF RunsInv, NoClientLeak
  <2> QED
    BY <1>1, <1>2, <1>3, <1>4, <2>3, <2>4 DEF RunsInv
<1>6. CASE /\ FinishCall(c)
           /\ objects'[a].run # "running"
           /\ stage = "up" => objects'[a].closed
  <2>1. agents'[c] = NoAgent /\ \A d \in Calls \ {c} : agents'[d] = agents[d]
    BY <1>0, <1>6 DEF FinishCall, TypeInv, TypeOK
  <2>2. \A b \in AgentIds : objects'[b].run = "running" => objects[b].call \in Calls \ {c}
    BY <1>0, <1>6 DEF TypeInv, HandlersHaveCalls
  <2>3. RunsAreRegistered' /\ NoClientLeak'
    BY <1>0, <1>6, <2>1, <2>2 DEF RunsInv, RunsAreRegistered, NoClientLeak
  <2> QED
    BY <1>1, <1>2, <1>3, <1>4, <2>3 DEF RunsInv
<1> QED
  BY <1>5, <1>6

LEMMA RunsAnswer ==
    ASSUME Orderly, TypeInv, RunsInv, NEW a \in AgentIds, AnswerReturns(a) \/ AnswerFails(a)
    PROVE  RunsInv'
<1> USE DEF registry, carrier, shutdown
<1> DEFINE c == objects[a].call
<1>0. /\ AgentFits(a)
      /\ objects[a] \in AgentSet /\ objects \in [AgentIds -> AgentSet]
      /\ objects[a].answering = "initiated"
      /\ c \in Incoming
      /\ stage = "up"
      /\ UNCHANGED <<leg, delivered, stage, todo>>
      /\ leg[c] \in {"ringing", "up", "down", "missed"}
  <2>1. objects[a].answering # "no" /\ UNCHANGED <<leg, delivered, stage, todo>>
    BY DEF AnswerReturns, AnswerFails
  <2>2. AgentFits(a) /\ objects[a] \in AgentSet /\ objects \in [AgentIds -> AgentSet]
    BY <2>1, CreatedFits DEF AgentFits, TypeInv, TypeOK
  <2> QED
    BY <2>1, <2>2 DEF RunsInv, AnswersInbound, ShutdownIsQuiet, TypeInv, TypeOK, AgentFits
<1>1. ASSUME NEW o, objects' = [objects EXCEPT ![a] = o],
             o.call = c, o.run = objects[a].run, o.answering = "no",
             o.cancelled = objects[a].cancelled,
             \/ o.closed = objects[a].closed /\ o.closing = objects[a].closing
             \/ o.closed = TRUE /\ o.closing = TRUE /\ objects[a].run = "none" /\ leg[c] \in {"ringing", "missed"},
             agents' = agents \/ (FinishCall(c) /\ o.closed /\ o.run = "none")
      PROVE  RunsInv'
  <2>1. GoesOn(a) /\ objects'[a] = o
    BY <1>0, <1>1, UpdateGoesOn
  <2>2. objects[a].closing => objects[a].closed /\ objects[a].run = "none"
    BY <1>0 DEF RunsInv, ClosedUnstarted
  <2>3. objects[a].closed /\ objects[a].run = "none" => leg[c] = "missed" \/ leg[c] = "ringing"
    BY <1>0 DEF RunsInv, ClosedUnstarted
  <2>4. objects[a].run \in {"done", "over"} => objects[a].closed
    BY <1>0 DEF RunsInv, RunsClose
  <2> HIDE DEF c
  <2>5. /\ objects'[a].closing => objects'[a].closed /\ objects'[a].run = "none" /\ stage = "up"
        /\ objects'[a].closed /\ objects'[a].run = "none" => leg[c] = "missed" \/ leg[c] = "ringing"
        /\ objects'[a].run \in {"done", "over"} => objects'[a].closed
        /\ objects[a].closed => objects'[a].closed
    BY <1>0, <1>1, <2>1, <2>2, <2>3, <2>4 DEF AgentSet
  <2> QED
    BY <1>0, <1>1, <2>1, <2>5, RunsUpdate DEF c
<1>2. CASE AnswerReturns(a)
  <2> DEFINE o == [objects[a] EXCEPT !.answering = "no"]
  <2>1. objects' = [objects EXCEPT ![a] = o] /\ agents' = agents
    BY <1>0, <1>2 DEF AnswerReturns
  <2>2. /\ o.call = c /\ o.run = objects[a].run /\ o.answering = "no"
        /\ o.cancelled = objects[a].cancelled
        /\ o.closed = objects[a].closed /\ o.closing = objects[a].closing
    BY <1>0 DEF AgentSet
  <2> HIDE DEF o, c
  <2> QED
    BY <1>1, <2>1, <2>2
<1>3. CASE AnswerFails(a)
  <2>1. leg[c] \in {"ringing", "missed"}
    BY <1>0, <1>3 DEF AnswerFails, MayFail, Orderly, AgentFits
  <2>2. objects[a].run = "none"
    <3>1. delivered[c]["answered"] \in Nat /\ ~(delivered[c]["answered"] > 0)
      BY <1>0, <2>1, CallServerAssumption DEF RunsInv, StartsWhenAnswered, TypeInv, TypeOK, AgentFits, Webhooks
    <3> QED
      BY <1>0, <3>1, CallServerAssumption DEF RunsInv, StartsWhenAnswered, AgentFits
  <2>3. CASE objects[a].closed
    <3> DEFINE o == [objects[a] EXCEPT !.answering = "no"]
    <3>1. objects' = [objects EXCEPT ![a] = o] /\ FinishCall(c)
      BY <1>0, <1>3, <2>3 DEF AnswerFails
    <3>2. /\ o.call = c /\ o.run = objects[a].run /\ o.answering = "no"
          /\ o.cancelled = objects[a].cancelled
          /\ o.closed = objects[a].closed /\ o.closing = objects[a].closing
      BY <1>0 DEF AgentSet
    <3> HIDE DEF o, c
    <3> QED
      BY <1>1, <2>2, <2>3, <3>1, <3>2
  <2>4. CASE ~objects[a].closed
    <3> DEFINE o == [objects[a] EXCEPT !.answering = "no", !.closed = TRUE, !.closing = TRUE]
    <3>1. objects' = [objects EXCEPT ![a] = o] /\ agents' = agents
      BY <1>0, <1>3, <2>4 DEF AnswerFails
    <3>2. /\ o.call = c /\ o.run = objects[a].run /\ o.answering = "no"
          /\ o.cancelled = objects[a].cancelled
          /\ o.closed = TRUE /\ o.closing = TRUE
      BY <1>0 DEF AgentSet
    <3> HIDE DEF o, c
    <3> QED
      BY <1>1, <2>1, <2>2, <3>1, <3>2
  <2> QED
    BY <2>3, <2>4
<1> QED
  BY <1>2, <1>3

LEMMA RunsClientCloses ==
    ASSUME TypeInv, RunsInv, NEW a \in AgentIds, ClientCloses(a)
    PROVE  RunsInv'
<1> USE DEF carrier, shutdown
<1> DEFINE o == [objects[a] EXCEPT !.closing = FALSE]
<1>0. /\ AgentFits(a) /\ objects[a] \in AgentSet /\ objects \in [AgentIds -> AgentSet]
      /\ objects[a].closing /\ stage = "up"
      /\ objects' = [objects EXCEPT ![a] = o] /\ FinishCall(objects[a].call)
      /\ UNCHANGED <<leg, delivered, stage, todo>>
  <2>1. objects[a].closing
    BY DEF ClientCloses
  <2> QED
    BY <2>1, CreatedFits DEF ClientCloses, AgentFits, RunsInv, ShutdownIsQuiet, TypeInv, TypeOK
<1>1. objects[a].closed /\ objects[a].run = "none"
  BY <1>0 DEF RunsInv, ClosedUnstarted
<1>2. /\ o.call = objects[a].call /\ o.run = "none" /\ o.answering = objects[a].answering
      /\ o.cancelled = objects[a].cancelled /\ o.closed /\ ~o.closing
  BY <1>0, <1>1 DEF AgentSet
<1> HIDE DEF o
<1>3. GoesOn(a) /\ objects'[a] = o
  BY <1>0, <1>2, UpdateGoesOn
<1>4. \/ leg[objects[a].call] = "missed"
      \/ /\ leg[objects[a].call] = "ringing"
         /\ objects[a].call \in Incoming
         /\ objects[a].answering = "no"
  BY <1>0, <1>1 DEF RunsInv, ClosedUnstarted
<1> QED
  BY <1>0, <1>1, <1>2, <1>3, <1>4, RunsUpdate

LEMMA RunsEnd ==
    ASSUME TypeInv, RunsInv, NEW a \in AgentIds, RunTask(a)
    PROVE  RunsInv'
<1> USE DEF registry, carrier, shutdown
<1>0. /\ AgentFits(a) /\ objects[a] \in AgentSet /\ objects \in [AgentIds -> AgentSet]
      /\ UNCHANGED <<leg, delivered, stage, todo>>
      /\ objects[a].run \in {"running", "done"}
  <2>1. objects[a].run \in {"running", "done"} /\ UNCHANGED <<leg, delivered, stage, todo>>
    BY DEF RunTask, RunEnds, DoneCallback
  <2> QED
    BY <2>1, CreatedFits DEF AgentFits, TypeInv, TypeOK
<1>1. ~objects[a].closing
  BY <1>0 DEF RunsInv, ClosedUnstarted
<1>2. stage = "up" => ~objects[a].cancelled
  BY <1>0 DEF RunsInv, RunsClose
<1>3. CASE RunEnds(a)
  <2>1. PICK closes \in BOOLEAN :
          /\ ~closes => objects[a].cancelled
          /\ objects' = [objects EXCEPT ![a].run = "done",
                                        ![a].closed = objects[a].closed \/ closes]
          /\ agents' = agents
    BY <1>3 DEF RunEnds
  <2> DEFINE closed == objects[a].closed \/ closes
             o == [objects[a] EXCEPT !.run = "done", !.closed = closed]
  <2>2. (objects[a].closed => closed) /\ (stage = "up" => closed)
    BY <1>2, <2>1
  <2>3. objects' = [objects EXCEPT ![a] = o]
    BY <1>0, <2>1
  <2> HIDE DEF closed
  <2>4. /\ o.call = objects[a].call /\ o.run = "done" /\ o.answering = objects[a].answering
        /\ o.cancelled = objects[a].cancelled /\ o.closed = closed /\ ~o.closing
    BY <1>0, <1>1 DEF AgentSet
  <2> HIDE DEF o
  <2>5. GoesOn(a) /\ objects'[a] = o
    BY <1>0, <2>3, <2>4, UpdateGoesOn
  <2> QED
    BY <1>0, <2>1, <2>2, <2>4, <2>5, RunsUpdate
<1>4. CASE DoneCallback(a)
  <2> DEFINE o == [objects[a] EXCEPT !.run = "over"]
  <2>1. objects' = [objects EXCEPT ![a] = o] /\ FinishCall(objects[a].call) /\ objects[a].run = "done"
    BY <1>0, <1>4 DEF DoneCallback
  <2>2. /\ o.call = objects[a].call /\ o.run = "over" /\ o.answering = objects[a].answering
        /\ o.cancelled = objects[a].cancelled /\ o.closed = objects[a].closed /\ ~o.closing
    BY <1>0, <1>1 DEF AgentSet
  <2> HIDE DEF o
  <2>3. GoesOn(a) /\ objects'[a] = o
    BY <1>0, <2>1, <2>2, UpdateGoesOn
  <2>4. stage = "up" => objects[a].closed
    BY <1>0, <2>1 DEF RunsInv, RunsClose
  <2> QED
    BY <1>0, <2>1, <2>2, <2>3, <2>4, RunsUpdate
<1> QED
  BY <1>3, <1>4 DEF RunTask

\* The shutdown leaves the calls of the agents, their handlers and their runs alone.
LEMMA RunsStopping ==
    ASSUME RunsInv, UNCHANGED <<leg, delivered>>, stage' # "up",
           (agents' = agents /\ stage # "down") \/ stage' = "down",
           \A a \in AgentIds :
              /\ objects'[a].call = objects[a].call
              /\ objects'[a].run = objects[a].run
              /\ objects'[a].answering = objects[a].answering
              /\ objects'[a].closing = objects[a].closing
              /\ objects[a].closed => objects'[a].closed
              /\ objects[a].answering = "no" /\ ~objects[a].closing
              /\ objects[a].run = "running" => stage' = "stopping" /\ a \in todo'
    PROVE  RunsInv'
<1>1. OneAgentPerCall' /\ AnswersInbound' /\ StartsWhenAnswered' /\ ClosedUnstarted'
  BY DEF RunsInv, OneAgentPerCall, AnswersInbound, StartsWhenAnswered, ClosedUnstarted
<1>2. RunsClose' /\ ShutdownIsQuiet'
  BY DEF RunsClose, ShutdownIsQuiet
<1>3. RunsAreRegistered' /\ NoClientLeak'
  BY DEF RunsInv, RunsAreRegistered, NoClientLeak
<1> QED
  BY <1>1, <1>2, <1>3 DEF RunsInv

LEMMA RunsLifespan ==
    ASSUME TypeInv, RunsInv, Lifespan
    PROVE  RunsInv'
<1> USE DEF registry, carrier
<1>0. /\ objects \in [AgentIds -> AgentSet]
      /\ stage # "up" => \A a \in AgentIds :
            /\ objects[a].answering = "no" /\ ~objects[a].closing
            /\ objects[a].run = "running" => stage = "stopping" /\ a \in todo
  BY DEF TypeInv, TypeOK, RunsInv, ShutdownIsQuiet
<1>1. CASE ShutdownBegins
  <2>1. /\ stage = "up" /\ stage' = "stopping" /\ todo' = Registered
        /\ UNCHANGED <<agents, objects, leg, delivered>>
        /\ \A a \in AgentIds : objects[a].answering = "no" /\ ~objects[a].closing
    BY <1>1 DEF ShutdownBegins
  <2>2. \A a \in AgentIds : objects[a].run = "running" => a \in Registered
    <3>1. \A a \in AgentIds : objects[a].run = "running" =>
             objects[a].call \in Calls /\ agents[objects[a].call] = a
      BY <1>0, <2>1 DEF RunsInv, RunsAreRegistered, TypeInv, HandlersHaveCalls, AgentSet
    <3> QED
      BY <3>1, CallServerAssumption DEF Registered
  <2> QED
    BY <2>1, <2>2, RunsStopping
<1>2. ASSUME NEW a \in AgentIds, ShutdownCancels(a) PROVE RunsInv'
  <2>1. /\ stage = "stopping" /\ stage' = stage /\ todo' = todo
        /\ UNCHANGED <<agents, leg, delivered>>
        /\ objects' = [objects EXCEPT ![a].cancelled = TRUE]
    BY <1>2 DEF ShutdownCancels
  <2>2. \A b \in AgentIds :
              /\ objects'[b].call = objects[b].call
              /\ objects'[b].run = objects[b].run
              /\ objects'[b].answering = objects[b].answering
              /\ objects'[b].closing = objects[b].closing
              /\ objects[b].closed => objects'[b].closed
    BY <1>0, <2>1 DEF AgentSet
  <2> QED
    BY <1>0, <2>1, <2>2, RunsStopping
<1>3. ASSUME NEW a \in AgentIds, ShutdownReaps(a) PROVE RunsInv'
  <2>1. /\ todo' = todo \ {a}
        /\ UNCHANGED <<agents, objects, leg, delivered, stage>>
        /\ objects[a].run # "running" /\ awaited = a
    BY <1>3 DEF ShutdownReaps
  <2>2. ShutdownIsQuiet'
    BY <1>0, <2>1 DEF ShutdownIsQuiet
  <2> QED
    BY <2>1, <2>2
       DEF RunsInv, OneAgentPerCall, AnswersInbound, StartsWhenAnswered, ClosedUnstarted,
           RunsClose, RunsAreRegistered, NoClientLeak
<1>4. ASSUME NEW a \in AgentIds, ShutdownCloses(a) PROVE RunsInv'
  <2>1. /\ stage = "stopping" /\ stage' = stage /\ todo' = todo \ {a}
        /\ objects[a].run # "running"
        /\ UNCHANGED <<agents, leg, delivered>>
        /\ objects' = [objects EXCEPT ![a].closed = TRUE]
    BY <1>4 DEF ShutdownCloses
  <2>2. \A b \in AgentIds :
              /\ objects'[b].call = objects[b].call
              /\ objects'[b].run = objects[b].run
              /\ objects'[b].answering = objects[b].answering
              /\ objects'[b].closing = objects[b].closing
              /\ objects[b].closed => objects'[b].closed
    BY <1>0, <2>1 DEF AgentSet
  <2> QED
    BY <1>0, <2>1, <2>2, RunsStopping
<1>5. CASE ShutdownEnds
  <2>1. /\ stage = "stopping" /\ stage' = "down" /\ todo = {}
        /\ UNCHANGED <<objects, leg, delivered>>
    BY <1>5 DEF ShutdownEnds
  <2> QED
    BY <1>0, <2>1, RunsStopping
<1> QED
  BY <1>1, <1>2, <1>3, <1>4, <1>5 DEF Lifespan

LEMMA RunsStep == Orderly /\ TypeInv /\ RunsInv /\ [Next]_vars => RunsInv'
<1> SUFFICES ASSUME Orderly, TypeInv, RunsInv, [Next]_vars PROVE RunsInv'
  OBVIOUS
<1> USE DEF registry, carrier, shutdown
<1>1. CASE \E c \in Calls : Carrier(c)
  BY <1>1, RunsCarrier
<1>2. ASSUME NEW c \in Calls, CallInitiated(c) PROVE RunsInv'
  <2>1. Delivers(c, "initiated") /\ UNCHANGED shutdown
    BY <1>2 DEF CallInitiated
  <2>2. CASE UNCHANGED <<registry, objects>>
    BY <2>1, <2>2, RunsDelivered DEF Webhooks
  <2>3. CASE Registers(c, "initiated")
    BY <2>1, <2>3, RunsRegisters
  <2> QED
    BY <1>2, <2>2, <2>3 DEF CallInitiated, Rejects
<1>3. ASSUME NEW c \in Calls, CallAnswered(c) PROVE RunsInv'
  <2>1. Delivers(c, "answered") /\ UNCHANGED shutdown
    BY <1>3 DEF CallAnswered
  <2>2. CASE Rejects(c)
    <3>1. \A a \in AgentIds : objects[a].call # c
      BY <2>1, <2>2, NoAgentYet DEF Rejects
    <3> QED
      BY <2>1, <2>2, <3>1, RunsDelivered DEF Webhooks, Rejects
  <2>3. CASE Registers(c, "answered")
    BY <2>1, <2>3, RunsRegisters
  <2>4. CASE /\ agents[c] # NoAgent
             /\ objects' = [objects EXCEPT ![agents[c]] = Started(agents[c])]
             /\ UNCHANGED registry
    BY <2>1, <2>4, RunsStarts
  <2> QED
    BY <1>3, <2>2, <2>3, <2>4 DEF CallAnswered
<1>4. CASE \E c \in Calls : Webhook(c)
  BY <1>2, <1>3, <1>4, RunsHangup DEF Webhook
<1>5. CASE \E a \in AgentIds : Handler(a) \/ RunTask(a)
  BY <1>5, RunsAnswer, RunsClientCloses, RunsEnd DEF Handler
<1>6. CASE Lifespan
  BY <1>6, RunsLifespan
<1>7. CASE Over \/ UNCHANGED vars
  BY <1>7 DEF Over, vars, RunsInv, OneAgentPerCall, AnswersInbound, StartsWhenAnswered,
              ClosedUnstarted, RunsClose, ShutdownIsQuiet, RunsAreRegistered, NoClientLeak
<1> QED
  BY <1>1, <1>4, <1>5, <1>6, <1>7 DEF Next

LEMMA RunsInvariant ==
    ASSUME Orderly
    PROVE  Spec => []RunsInv
  BY TypeInvInit, TypeInvStep, RunsInit, RunsStep, PTL DEF Spec

\* While the carrier keeps the order of its webhooks, every live run task is that of
\* the agent which the registry has for its call: hangups reach it, and it gives its
\* slot back exactly when it ends (server.py:274-279).
THEOREM RunsStayRegistered ==
    ASSUME Orderly
    PROVE  Spec => []RunsAreRegistered
<1>1. RunsInv => RunsAreRegistered
  BY DEF RunsInv
<1> QED
  BY <1>1, RunsInvariant, PTL

\* The end of the lifespan finds every live run task and ends it
\* (server.py:64-78).
THEOREM ShutdownEndsTheRuns ==
    ASSUME Orderly
    PROVE  Spec => []ShutdownLeavesNoRun
<1>1. RunsInv => ShutdownLeavesNoRun
  BY DEF RunsInv, ShutdownIsQuiet, ShutdownLeavesNoRun
<1> QED
  BY <1>1, RunsInvariant, PTL

-----------------------------------------------------------------------------
(***************************************************************************)
(* The LLM clients, while the carrier delivers each webhook once and in    *)
(* order.  An answer that is late may give a call a second agent, or leave *)
(* one running that is not registered; the clients are closed nevertheless.*)
(***************************************************************************)

\* An agent that left the registry before it ran, with nothing left to do.
Spent(a) ==
    /\ agents[objects[a].call] # a
    /\ objects[a].run = "none"
    /\ objects[a].answering = "no"
    /\ ~objects[a].closing
    /\ objects[a].closed

\* The call has no further webhook that creates an agent.
Settled(c) == leg[c] = "missed" \/ delivered[c]["answered"] > 0

ClientFits(a) ==
    LET o == objects[a]
        c == objects[a].call
    IN  /\ delivered[c]["initiated"] > 0
        /\ o.answering = "answered" \/ o.run # "none" => delivered[c]["answered"] > 0
        /\ ~o.cancelled
        /\ o.closing => o.closed
        /\ o.run \in {"done", "over"} => o.closed
        /\ o.closed /\ o.answering # "no" => Settled(c)
        /\ agents[c] # a => Spent(a) \/ Settled(c)
        /\ agents[c] # a => o.closed \/ o.run = "running"

\* All agents of a call are spent but one.
ClientsInv ==
    stage = "up" =>
        /\ \A a \in AgentIds : objects[a].call # NoCall => ClientFits(a)
        /\ \A a, b \in AgentIds :
              a # b /\ objects[a].call # NoCall /\ objects[a].call = objects[b].call
                => Spent(a) \/ Spent(b)

\* The legs end and webhooks are delivered, and neither is taken back.
CarrierGoesOn ==
    /\ \A c \in Calls, w \in {"initiated", "answered"} :
          delivered[c][w] > 0 => delivered'[c][w] > 0
    /\ \A c \in Calls : leg[c] = "missed" => leg'[c] = "missed"

LEMMA SettledStays ==
    ASSUME CarrierGoesOn, NEW c \in Calls, Settled(c)
    PROVE  Settled(c)'
  BY DEF CarrierGoesOn, Settled

LEMMA CreatedHasCall ==
    ASSUME TypeInv, NEW a \in AgentIds, objects[a].call # NoCall
    PROVE  objects[a] \in AgentSet /\ objects[a].call \in Calls
  BY DEF TypeInv, TypeOK, AgentSet

LEMMA ClientsSame ==
    ASSUME TypeInv, ClientsInv, CarrierGoesOn, UNCHANGED <<agents, objects>>,
           stage' = "up" => stage = "up"
    PROVE  ClientsInv'
<1> SUFFICES ASSUME stage' = "up" PROVE ClientsInv'
  BY DEF ClientsInv
<1>1. \A b \in AgentIds : Spent(b)' <=> Spent(b)
  BY DEF Spent
<1>2. ASSUME NEW b \in AgentIds, objects[b].call # NoCall
      PROVE  ClientFits(b)'
  <2>1. objects[b].call \in Calls /\ ClientFits(b)
    BY <1>2, CreatedHasCall DEF ClientsInv
  <2>2. Settled(objects[b].call) => Settled(objects[b].call)'
    BY <2>1, SettledStays
  <2> QED
    BY <1>1, <2>1, <2>2 DEF ClientFits, CarrierGoesOn
<1> QED
  BY <1>1, <1>2 DEF ClientsInv

\* An agent goes on that is not spent, and may leave the registry.
LEMMA ClientsUpdate ==
    ASSUME TypeInv, ClientsInv, CarrierGoesOn, stage = "up",
           NEW a \in AgentIds, objects[a].call # NoCall, ~Spent(a),
           NEW o \in AgentSet, o.call = objects[a].call,
           objects' = [objects EXCEPT ![a] = o],
           agents' = agents \/ agents' = [agents EXCEPT ![o.call] = NoAgent],
           ClientFits(a)'
    PROVE  ClientsInv'
<1> DEFINE c == objects[a].call
<1>1. /\ \A b \in AgentIds : objects'[b] = IF b = a THEN o ELSE objects[b]
      /\ \A b \in AgentIds : objects'[b].call = objects[b].call
  BY DEF TypeInv, TypeOK
<1>2. \A d \in Calls : agents'[d] = agents[d] \/ (d = c /\ agents'[d] = NoAgent)
  BY DEF TypeInv, TypeOK
<1>3. NoAgent \notin AgentIds
  BY CallServerAssumption
<1>4. ASSUME NEW b \in AgentIds, b # a, objects[b].call # NoCall, Spent(b)
      PROVE  Spent(b)'
  <2>1. objects'[b] = objects[b] /\ objects[b].call \in Calls
    BY <1>1, <1>4, CreatedHasCall
  <2> QED
    BY <1>2, <1>3, <1>4, <2>1 DEF Spent
<1>5. ASSUME NEW b \in AgentIds, b # a, objects[b].call # NoCall
      PROVE  ClientFits(b)'
  <2> DEFINE d == objects[b].call
  <2>1. objects'[b] = objects[b] /\ d \in Calls /\ ClientFits(b)
    BY <1>1, <1>5, CreatedHasCall DEF ClientsInv
  <2>2. Settled(d) => Settled(d)'
    BY <2>1, SettledStays
  <2>3. agents[d] = b => agents'[d] = b
    <3> SUFFICES ASSUME agents[d] = b, agents'[d] # b PROVE FALSE
      OBVIOUS
    <3>1. d = c
      BY <1>2, <2>1
    <3>2. Spent(b)
      BY <1>5, <3>1 DEF ClientsInv
    <3> QED
      BY <3>2 DEF Spent
  <2>4. Spent(b) => Spent(b)'
    BY <1>4, <1>5
  <2> HIDE DEF d
  <2>5. /\ delivered'[d]["initiated"] > 0
        /\ delivered[d]["answered"] > 0 => delivered'[d]["answered"] > 0
    BY <2>1 DEF ClientFits, CarrierGoesOn, d
  <2> QED
    BY <2>1, <2>2, <2>3, <2>4, <2>5 DEF ClientFits, d
<1>6. ASSUME NEW x \in AgentIds, NEW y \in AgentIds, x # y,
             objects'[x].call # NoCall, objects'[x].call = objects'[y].call
      PROVE  Spent(x)' \/ Spent(y)'
  <2>1. objects[x].call # NoCall /\ objects[y].call # NoCall /\ objects[x].call = objects[y].call
    BY <1>1, <1>6
  <2>2. Spent(x) \/ Spent(y)
    BY <1>6, <2>1 DEF ClientsInv
  <2> QED
    BY <1>4, <1>6, <2>1, <2>2
<1>7. \A b \in AgentIds : objects'[b].call # NoCall => ClientFits(b)'
  BY <1>1, <1>5
<1> QED
  BY <1>6, <1>7 DEF ClientsInv

\* A webhook goes through, and no other one is taken back.
LEMMA DeliveryGoesOn ==
    ASSUME InOrder, TypeOK, NEW c \in Calls, NEW w \in Webhooks, Delivers(c, w)
    PROVE  CarrierGoesOn
<1>1. /\ leg' = leg
      /\ \A d \in Calls, v \in Webhooks :
            delivered'[d][v] = IF d = c /\ v = w THEN 1 ELSE delivered[d][v]
  BY DeliversOnce
<1> QED
  BY <1>1 DEF CarrierGoesOn, Webhooks

LEMMA ClientsCarrier ==
    ASSUME TypeInv, ClientsInv, NEW c \in Calls, Carrier(c)
    PROVE  ClientsInv'
<1>1. UNCHANGED <<agents, objects, delivered, stage>>
  BY DEF Carrier, LegAnswered, LegEnds, registry, shutdown
<1>2. \A d \in Calls : leg[d] = "missed" => leg'[d] = "missed"
  BY DEF Carrier, LegAnswered, LegEnds, TypeInv, TypeOK
<1>3. CarrierGoesOn
  BY <1>1, <1>2 DEF CarrierGoesOn
<1> QED
  BY <1>1, <1>3, ClientsSame

\* A new agent finds those before it spent.
LEMMA ClientsRegisters ==
    ASSUME InOrder, TypeInv, ClientsInv, NEW c \in Calls, NEW w \in {"initiated", "answered"},
           Delivers(c, w), Registers(c, w), UNCHANGED shutdown
    PROVE  ClientsInv'
<1>0. /\ stage = "up" /\ leg' = leg /\ delivered[c][w] = 0
      /\ \A d \in Calls, v \in Webhooks :
            delivered'[d][v] = IF d = c /\ v = w THEN 1 ELSE delivered[d][v]
      /\ w # "initiated" => delivered[c]["initiated"] > 0
      /\ w = "answered" => leg[c] \in {"up", "down"}
  BY DeliversOnce DEF TypeInv, Webhooks
<1>1. CarrierGoesOn
  BY DeliveryGoesOn DEF TypeInv, Webhooks
<1>2. agents[c] = NoAgent /\ NoAgent \notin AgentIds /\ c # NoCall
  BY CallServerAssumption DEF Registers
<1>3. PICK a \in AgentIds :
          /\ objects[a].call = NoCall
          /\ agents' = [agents EXCEPT ![c] = a]
          /\ objects' = [objects EXCEPT ![a] =
                [NotCreated EXCEPT
                    !.call = c,
                    !.answering = IF c \in Incoming THEN w ELSE "no",
                    !.run = IF c \notin Incoming /\ w = "answered" THEN "running" ELSE "none"]]
  BY DEF Registers
<1>4. /\ \A b \in AgentIds : b # a => objects'[b] = objects[b]
      /\ \A d \in Calls : agents'[d] = IF d = c THEN a ELSE agents[d]
      /\ objects'[a].call = c
      /\ objects'[a].answering \in {w, "no"}
      /\ objects'[a].run = "running" => w = "answered"
      /\ objects'[a].run \in {"running", "none"}
      /\ ~objects'[a].cancelled /\ ~objects'[a].closing /\ ~objects'[a].closed
  BY <1>3 DEF TypeInv, TypeOK, NotCreated
<1>5. ASSUME NEW b \in AgentIds, objects[b].call = c
      PROVE  Spent(b)
  <2>1. ClientFits(b)
    BY <1>0, <1>2, <1>5 DEF ClientsInv
  <2>2. w = "answered"
    BY <1>0, <1>5, <2>1 DEF ClientFits
  <2>3. ~Settled(c)
    BY <1>0, <2>2 DEF Settled
  <2> QED
    BY <1>2, <1>5, <2>1, <2>3 DEF ClientFits
<1>6. ASSUME NEW b \in AgentIds, b # a, objects[b].call # NoCall, Spent(b)
      PROVE  Spent(b)'
  <2>1. objects[b].call \in Calls
    BY <1>6, CreatedHasCall
  <2> QED
    BY <1>4, <1>6, <2>1 DEF Spent
<1>7. ASSUME NEW b \in AgentIds, b # a, objects[b].call # NoCall
      PROVE  ClientFits(b)'
  <2> DEFINE d == objects[b].call
  <2>1. objects'[b] = objects[b] /\ d \in Calls /\ ClientFits(b)
    BY <1>0, <1>4, <1>7, CreatedHasCall DEF ClientsInv
  <2>2. Settled(d) => Settled(d)'
    BY <1>1, <2>1, SettledStays
  <2>3. Spent(b) => Spent(b)'
    BY <1>6, <1>7
  <2>4. d = c => Spent(b)
    BY <1>5
  <2>5. d # c => agents'[d] = agents[d]
    BY <1>4, <2>1
  <2>6. Spent(b) => ~objects[b].closing /\ objects[b].closed /\ objects[b].run = "none"
    BY DEF Spent
  <2> HIDE DEF d
  <2>7. /\ delivered'[d]["initiated"] > 0
        /\ delivered[d]["answered"] > 0 => delivered'[d]["answered"] > 0
    BY <1>1, <2>1 DEF ClientFits, CarrierGoesOn, d
  <2> QED
    BY <2>1, <2>2, <2>3, <2>4, <2>5, <2>6, <2>7 DEF ClientFits, d
<1>8. ClientFits(a)'
  <2>1. delivered'[c]["initiated"] > 0 /\ (w = "answered" => delivered'[c]["answered"] > 0)
    BY <1>0 DEF Webhooks
  <2>2. agents'[c] = a
    BY <1>4
  <2> QED
    BY <1>4, <2>1, <2>2 DEF ClientFits
<1>9. ASSUME NEW x \in AgentIds, NEW y \in AgentIds, x # y,
             objects'[x].call # NoCall, objects'[x].call = objects'[y].call
      PROVE  Spent(x)' \/ Spent(y)'
  <2>1. CASE x = a
    BY <1>2, <1>4, <1>5, <1>6, <1>9, <2>1
  <2>2. CASE y = a
    BY <1>2, <1>4, <1>5, <1>6, <1>9, <2>2
  <2>3. CASE x # a /\ y # a
    <3>1. Spent(x) \/ Spent(y)
      BY <1>0, <1>4, <1>9, <2>3 DEF ClientsInv
    <3> QED
      BY <1>4, <1>6, <1>9, <2>3, <3>1
  <2> QED
    BY <2>1, <2>2, <2>3
<1>10. \A b \in AgentIds : objects'[b].call # NoCall => ClientFits(b)'
  BY <1>4, <1>7, <1>8
<1> QED
  BY <1>9, <1>10 DEF ClientsInv

\* The agent that the registry has for a call.
LEMMA RegisteredAgent ==
    ASSUME TypeInv, ClientsInv, stage = "up", NEW c \in Calls, agents[c] # NoAgent
    PROVE  /\ agents[c] \in AgentIds
           /\ objects[agents[c]] \in AgentSet
           /\ objects[agents[c]].call = c
           /\ c # NoCall
           /\ ClientFits(agents[c])
           /\ ~Spent(agents[c])
<1>1. agents[c] \in AgentIds /\ objects[agents[c]].call = c /\ c # NoCall
  BY CallServerAssumption DEF TypeInv, TypeOK, EntriesAreCreated
<1> QED
  BY <1>1 DEF TypeInv, TypeOK, ClientsInv, Spent

LEMMA ClientsStarts ==
    ASSUME InOrder, TypeInv, ClientsInv, NEW c \in Calls, Delivers(c, "answered"),
           agents[c] # NoAgent,
           objects' = [objects EXCEPT ![agents[c]] = Started(agents[c])],
           UNCHANGED <<registry, shutdown>>
    PROVE  ClientsInv'
<1>0. /\ stage = "up" /\ leg' = leg
      /\ \A d \in Calls, v \in Webhooks :
            delivered'[d][v] = IF d = c /\ v = "answered" THEN 1 ELSE delivered[d][v]
      /\ delivered[c]["initiated"] > 0
  BY DeliversOnce DEF TypeInv, Webhooks
<1>1. CarrierGoesOn
  BY DeliveryGoesOn DEF TypeInv, Webhooks
<1>2. PICK a : a = agents[c]
  OBVIOUS
<1>3. /\ a \in AgentIds /\ objects[a] \in AgentSet /\ objects[a].call = c /\ c # NoCall
      /\ ClientFits(a) /\ ~Spent(a)
  BY <1>0, <1>2, RegisteredAgent
<1>4. Started(a) \in AgentSet /\ Started(a).call = c
  BY <1>3, StartedType DEF TypeInv
<1>5. objects'[a] = Started(a) /\ agents'[c] = a
  BY <1>2, <1>3 DEF TypeInv, TypeOK, registry
<1>6. delivered'[c]["initiated"] > 0 /\ delivered'[c]["answered"] > 0
  BY <1>0 DEF Webhooks
<1>7. ClientFits(a)'
  BY <1>3, <1>4, <1>5, <1>6 DEF ClientFits, Started, AgentSet, Settled
<1> QED
  BY <1>0, <1>1, <1>2, <1>3, <1>4, <1>7, ClientsUpdate DEF registry

LEMMA ClientsHangup ==
    ASSUME InOrder, TypeInv, ClientsInv, NEW c \in Calls, CallHangup(c)
    PROVE  ClientsInv'
<1>0. Delivers(c, "hangup") /\ UNCHANGED shutdown
  BY DEF CallHangup
<1>1. /\ stage = "up" /\ leg' = leg
      /\ \A d \in Calls, v \in Webhooks :
            delivered'[d][v] = IF d = c /\ v = "hangup" THEN 1 ELSE delivered[d][v]
      /\ leg[c] \in {"down", "missed"}
      /\ leg[c] = "down" => delivered[c]["answered"] > 0
  BY <1>0, DeliversOnce DEF TypeInv, Webhooks
<1>2. CarrierGoesOn
  BY <1>0, DeliveryGoesOn DEF TypeInv, Webhooks
<1>3. Settled(c) /\ Settled(c)'
  BY <1>1, <1>2, SettledStays DEF Settled
<1>4. CASE agents[c] = NoAgent
  <2>1. UNCHANGED <<registry, objects>>
    BY <1>4 DEF CallHangup
  <2> QED
    BY <1>0, <1>2, <2>1, ClientsSame DEF registry, shutdown
<1>5. CASE agents[c] # NoAgent
  <2>1. PICK a : a = agents[c]
    OBVIOUS
  <2>2. /\ a \in AgentIds /\ objects[a] \in AgentSet /\ objects[a].call = c /\ c # NoCall
        /\ ClientFits(a) /\ ~Spent(a)
    BY <1>1, <1>5, <2>1, RegisteredAgent
  <2>3. /\ delivered'[c]["initiated"] > 0
        /\ delivered[c]["answered"] > 0 => delivered'[c]["answered"] > 0
    BY <1>2, <2>2 DEF ClientFits, CarrierGoesOn
  <2>4. CASE objects[a].run # "none"
    <3> DEFINE o == [objects[a] EXCEPT !.hangup = TRUE]
    <3>1. o \in AgentSet /\ o.call = c
      BY <2>2 DEF AgentSet
    <3>2. objects' = [objects EXCEPT ![a] = o] /\ agents' = agents
      BY <1>5, <2>1, <2>4 DEF CallHangup, ClosesAndFinishes, registry
    <3>3. objects'[a] = o
      BY <2>2, <3>2 DEF TypeInv, TypeOK
    <3>4. ClientFits(a)'
      BY <1>3, <2>1, <2>2, <2>3, <3>1, <3>2, <3>3 DEF ClientFits, AgentSet
    <3> HIDE DEF o
    <3> QED
      BY <1>1, <1>2, <2>2, <3>1, <3>2, <3>4, ClientsUpdate
  <2>5. CASE objects[a].run = "none"
    <3>1. ClosesAndFinishes(a)
      BY <1>5, <2>1, <2>5 DEF CallHangup
    <3>2. CASE objects[a].closed
      <4> DEFINE o == objects[a]
      <4>1. objects' = objects /\ agents' = [agents EXCEPT ![c] = NoAgent]
        BY <2>2, <3>1, <3>2 DEF ClosesAndFinishes, FinishCall
      <4>2. objects' = [objects EXCEPT ![a] = o] /\ objects'[a] = o
        BY <4>1 DEF TypeInv, TypeOK
      <4>3. ClientFits(a)'
        BY <1>3, <2>2, <2>3, <3>2, <4>2 DEF ClientFits
      <4> HIDE DEF o
      <4> QED
        BY <1>1, <1>2, <2>2, <4>1, <4>2, <4>3, ClientsUpdate DEF o
    <3>3. CASE ~objects[a].closed
      <4> DEFINE o == [objects[a] EXCEPT !.closed = TRUE, !.closing = TRUE]
      <4>1. o \in AgentSet /\ o.call = c
        BY <2>2 DEF AgentSet
      <4>2. objects' = [objects EXCEPT ![a] = o] /\ agents' = agents
        BY <2>2, <3>1, <3>3 DEF ClosesAndFinishes, registry, TypeInv, TypeOK
      <4>3. objects'[a] = o
        BY <2>2, <4>2 DEF TypeInv, TypeOK
      <4>4. ClientFits(a)'
        BY <1>3, <2>1, <2>2, <2>3, <4>1, <4>2, <4>3 DEF ClientFits, AgentSet
      <4> HIDE DEF o
      <4> QED
        BY <1>1, <1>2, <2>2, <4>1, <4>2, <4>4, ClientsUpdate
    <3> QED
      BY <3>2, <3>3
  <2> QED
    BY <2>4, <2>5
<1> QED
  BY <1>4, <1>5

\* An agent with something left to do goes on; what is left of its invariant.
LEMMA ClientsAgent ==
    ASSUME TypeInv, ClientsInv, stage = "up", UNCHANGED carrier,
           NEW a \in AgentIds, objects[a].call # NoCall, ~Spent(a),
           NEW o \in AgentSet, o.call = objects[a].call,
           objects' = [objects EXCEPT ![a] = o],
           agents' = agents \/ agents' = [agents EXCEPT ![o.call] = NoAgent],
           o.answering \in {"no", objects[a].answering},
           o.run # "none" => objects[a].run # "none" \/ objects[a].answering = "answered",
           ~o.cancelled,
           o.closing => o.closed,
           o.run \in {"done", "over"} => o.closed,
           o.closed /\ o.answering # "no" => Settled(o.call),
           agents' # agents => o.closed,
           agents' # agents => Settled(o.call) \/ (o.run = "none" /\ o.answering = "no" /\ ~o.closing),
           objects[a].closed => o.closed,
           objects[a].run = "running" => o.run = "running" \/ o.closed
    PROVE  ClientsInv'
<1> DEFINE c == o.call
<1>1. ClientFits(a) /\ c \in Calls
  BY CreatedHasCall DEF ClientsInv
<1>2. CarrierGoesOn /\ delivered' = delivered /\ leg' = leg
  BY DEF carrier, CarrierGoesOn
<1>3. objects'[a] = o
  BY DEF TypeInv, TypeOK
<1>4. Settled(c)' <=> Settled(c)
  BY <1>2 DEF Settled
<1>5. agents' = agents \/ agents'[c] = NoAgent
  BY <1>1 DEF TypeInv, TypeOK
<1>6. agents'[c] # a => o.closed \/ o.run = "running"
  BY <1>1, <1>5 DEF ClientFits
<1>7. agents'[c] # a => Spent(a)' \/ Settled(c)
  <2> SUFFICES ASSUME agents'[c] # a, ~Settled(c)
               PROVE  Spent(a)'
    OBVIOUS
  <2>1. agents' # agents
    BY <1>1 DEF ClientFits
  <2> QED
    BY <1>3, <2>1 DEF Spent
<1>8. ClientFits(a)'
  BY <1>1, <1>2, <1>3, <1>4, <1>6, <1>7 DEF ClientFits
<1> QED
  BY <1>2, <1>8, ClientsUpdate

LEMMA ClientsHandler ==
    ASSUME TypeInv, ClientsInv, stage = "up", NEW a \in AgentIds, Handler(a)
    PROVE  ClientsInv'
<1>0. objects[a] \in AgentSet
  BY DEF TypeInv, TypeOK
<1>1. objects[a].answering # "no" \/ objects[a].closing
  BY DEF Handler, AnswerReturns, AnswerFails, ClientCloses
<1>2. objects[a].call # NoCall /\ ~Spent(a) /\ UNCHANGED carrier
  BY <1>1 DEF Handler, AnswerReturns, AnswerFails, ClientCloses, TypeInv, HandlersHaveCalls, Spent
<1>3. ClientFits(a)
  BY <1>2 DEF ClientsInv
<1>4. CASE AnswerReturns(a)
  <2> DEFINE s == IF objects[a].answering = "answered" THEN Started(a) ELSE objects[a]
             o == [s EXCEPT !.answering = "no"]
  <2>1. s \in AgentSet /\ s.call = objects[a].call
    BY <1>0, StartedType DEF TypeInv
  <2>2. /\ s.cancelled = objects[a].cancelled /\ s.closing = objects[a].closing
        /\ s.closed = objects[a].closed
        /\ s.run = objects[a].run \/ (s.run = "running" /\ objects[a].answering = "answered"
                                        /\ objects[a].run = "none")
    BY <1>0 DEF Started, AgentSet
  <2>3. objects' = [objects EXCEPT ![a] = o] /\ agents' = agents
    BY <1>4 DEF AnswerReturns, registry
  <2> HIDE DEF s
  <2>4. /\ o \in AgentSet /\ o.call = s.call /\ o.answering = "no" /\ o.run = s.run
        /\ o.cancelled = s.cancelled /\ o.closing = s.closing /\ o.closed = s.closed
    BY <2>1 DEF AgentSet
  <2> HIDE DEF o
  <2> QED
    BY <1>2, <1>3, <2>1, <2>2, <2>3, <2>4, ClientsAgent DEF ClientFits
<1>5. CASE AnswerFails(a) /\ objects[a].closed
  <2> DEFINE o == [objects[a] EXCEPT !.answering = "no"]
  <2>1. /\ o \in AgentSet /\ o.call = objects[a].call /\ o.answering = "no"
        /\ o.run = objects[a].run /\ o.cancelled = objects[a].cancelled
        /\ o.closing = objects[a].closing /\ o.closed
    BY <1>0, <1>5 DEF AgentSet
  <2>2. objects' = [objects EXCEPT ![a] = o] /\ agents' = [agents EXCEPT ![objects[a].call] = NoAgent]
    BY <1>5 DEF AnswerFails, FinishCall
  <2>3. Settled(o.call)
    BY <1>3, <1>5, <2>1 DEF ClientFits, AnswerFails
  <2> HIDE DEF o
  <2> QED
    BY <1>2, <1>3, <2>1, <2>2, <2>3, ClientsAgent DEF ClientFits
<1>6. CASE AnswerFails(a) /\ ~objects[a].closed
  <2> DEFINE o == [objects[a] EXCEPT !.answering = "no", !.closed = TRUE, !.closing = TRUE]
  <2>1. /\ o \in AgentSet /\ o.call = objects[a].call /\ o.answering = "no"
        /\ o.run = objects[a].run /\ o.cancelled = objects[a].cancelled
        /\ o.closing /\ o.closed
    BY <1>0, <1>6 DEF AgentSet
  <2>2. objects' = [objects EXCEPT ![a] = o] /\ agents' = agents
    BY <1>0, <1>6 DEF AnswerFails, registry, TypeInv, TypeOK
  <2> HIDE DEF o
  <2> QED
    BY <1>2, <1>3, <2>1, <2>2, ClientsAgent DEF ClientFits
<1>7. CASE ClientCloses(a)
  <2> DEFINE o == [objects[a] EXCEPT !.closing = FALSE]
  <2>1. /\ o \in AgentSet /\ o.call = objects[a].call /\ o.answering = objects[a].answering
        /\ o.run = objects[a].run /\ o.cancelled = objects[a].cancelled
        /\ ~o.closing /\ o.closed = objects[a].closed
    BY <1>0 DEF AgentSet
  <2>2. /\ objects' = [objects EXCEPT ![a] = o]
        /\ agents' = [agents EXCEPT ![objects[a].call] = NoAgent]
        /\ objects[a].closing
    BY <1>7 DEF ClientCloses, FinishCall
  <2>3. objects[a].closed
    BY <1>3, <2>2 DEF ClientFits
  <2>4. Settled(o.call) \/ (o.run = "none" /\ o.answering = "no")
    BY <1>3, <2>1, <2>3 DEF ClientFits, Settled
  <2> HIDE DEF o
  <2> QED
    BY <1>2, <1>3, <2>1, <2>2, <2>3, <2>4, ClientsAgent DEF ClientFits
<1> QED
  BY <1>4, <1>5, <1>6, <1>7 DEF Handler

LEMMA ClientsRunTask ==
    ASSUME TypeInv, ClientsInv, stage = "up", NEW a \in AgentIds, RunTask(a)
    PROVE  ClientsInv'
<1>0. objects[a] \in AgentSet
  BY DEF TypeInv, TypeOK
<1>1. objects[a].run \in {"running", "done"} /\ UNCHANGED carrier
  BY DEF RunTask, RunEnds, DoneCallback
<1>2. objects[a].call # NoCall /\ ~Spent(a)
  BY <1>1 DEF TypeInv, HandlersHaveCalls, Spent
<1>3. ClientFits(a)
  BY <1>2 DEF ClientsInv
<1>4. CASE RunEnds(a)
  <2> DEFINE o == [objects[a] EXCEPT !.run = "done", !.closed = TRUE]
  <2>1. /\ o \in AgentSet /\ o.call = objects[a].call /\ o.answering = objects[a].answering
        /\ o.run = "done" /\ o.cancelled = objects[a].cancelled
        /\ o.closing = objects[a].closing /\ o.closed
    BY <1>0 DEF AgentSet
  <2>2. PICK closes \in BOOLEAN :
            /\ ~closes => objects[a].cancelled
            /\ objects' = [objects EXCEPT ![a].run = "done",
                                          ![a].closed = objects[a].closed \/ closes]
    BY <1>4 DEF RunEnds
  <2>3. closes = TRUE
    BY <1>3, <2>2 DEF ClientFits
  <2>4. objects' = [objects EXCEPT ![a] = o] /\ agents' = agents
    BY <1>0, <1>4, <2>2, <2>3 DEF RunEnds, registry, TypeInv, TypeOK
  <2>5. Settled(o.call)
    BY <1>1, <1>3, <2>1 DEF ClientFits, Settled
  <2> HIDE DEF o
  <2> QED
    BY <1>1, <1>2, <1>3, <2>1, <2>4, <2>5, ClientsAgent DEF ClientFits
<1>5. CASE DoneCallback(a)
  <2> DEFINE o == [objects[a] EXCEPT !.run = "over"]
  <2>1. /\ o \in AgentSet /\ o.call = objects[a].call /\ o.answering = objects[a].answering
        /\ o.run = "over" /\ o.cancelled = objects[a].cancelled
        /\ o.closing = objects[a].closing /\ o.closed = objects[a].closed
    BY <1>0 DEF AgentSet
  <2>2. /\ objects' = [objects EXCEPT ![a] = o]
        /\ agents' = [agents EXCEPT ![objects[a].call] = NoAgent]
        /\ objects[a].run = "done"
    BY <1>5 DEF DoneCallback, FinishCall
  <2>3. Settled(o.call) /\ o.closed
    BY <1>3, <2>1, <2>2 DEF ClientFits, Settled
  <2> HIDE DEF o
  <2> QED
    BY <1>1, <1>2, <1>3, <2>1, <2>2, <2>3, ClientsAgent DEF ClientFits
<1> QED
  BY <1>4, <1>5 DEF RunTask

LEMMA ClientsStep == InOrder /\ TypeInv /\ ClientsInv /\ [Next]_vars => ClientsInv'
<1> SUFFICES ASSUME InOrder, TypeInv, ClientsInv, [Next]_vars PROVE ClientsInv'
  OBVIOUS
<1> USE DEF registry, carrier, shutdown
<1>0. stage' # "up" => ClientsInv'
  BY DEF ClientsInv
<1>1. CASE \E c \in Calls : Carrier(c)
  BY <1>1, ClientsCarrier
<1>2. ASSUME NEW c \in Calls, NEW w \in {"initiated", "answered"}, Delivers(c, w),
             UNCHANGED <<registry, objects, shutdown>>
      PROVE  ClientsInv'
  BY <1>2, DeliveryGoesOn, ClientsSame DEF TypeInv, Webhooks
<1>3. ASSUME NEW c \in Calls, CallInitiated(c)
      PROVE  ClientsInv'
  <2>1. Delivers(c, "initiated") /\ UNCHANGED shutdown
    BY <1>3 DEF CallInitiated
  <2> QED
    BY <1>2, <1>3, <2>1, ClientsRegisters DEF CallInitiated, Rejects
<1>4. ASSUME NEW c \in Calls, CallAnswered(c)
      PROVE  ClientsInv'
  <2>1. Delivers(c, "answered") /\ UNCHANGED shutdown
    BY <1>4 DEF CallAnswered
  <2> QED
    BY <1>2, <1>4, <2>1, ClientsRegisters, ClientsStarts DEF CallAnswered, Rejects
<1>5. CASE \E c \in Calls : Webhook(c)
  BY <1>3, <1>4, <1>5, ClientsHangup DEF Webhook
<1>6. CASE \E a \in AgentIds : Handler(a) \/ RunTask(a)
  <2>1. stage' = stage
    BY <1>6 DEF Handler, AnswerReturns, AnswerFails, ClientCloses, RunTask, RunEnds, DoneCallback
  <2> QED
    BY <1>0, <1>6, <2>1, ClientsHandler, ClientsRunTask
<1>7. CASE Lifespan
  <2>1. CASE \E a \in AgentIds : ShutdownReaps(a)
    <3>1. CarrierGoesOn /\ UNCHANGED <<agents, objects, stage>>
      BY <2>1 DEF ShutdownReaps, CarrierGoesOn
    <3> QED
      BY <3>1, ClientsSame
  <2>2. CASE \/ ShutdownBegins \/ ShutdownEnds
            \/ \E a \in AgentIds : ShutdownCancels(a) \/ ShutdownCloses(a)
    <3>1. stage' # "up"
      BY <2>2 DEF ShutdownBegins, ShutdownCancels, ShutdownCloses, ShutdownEnds
    <3> QED
      BY <1>0, <3>1
  <2> QED
    BY <1>7, <2>1, <2>2 DEF Lifespan
<1>8. CASE Over \/ UNCHANGED vars
  <2>1. CarrierGoesOn /\ UNCHANGED <<agents, objects, stage>>
    BY <1>8 DEF Over, vars, CarrierGoesOn
  <2> QED
    BY <2>1, ClientsSame
<1> QED
  BY <1>1, <1>5, <1>6, <1>7, <1>8 DEF Next

\* No agent leaves the registry with an LLM client that nobody closes, not even when
\* an answer command that was carried out is reported as failed, and its handler
\* rolls back a registration whose call goes on (server.py:204-207, :266-269).
THEOREM ClientsAreClosed ==
    ASSUME InOrder
    PROVE  Spec => []NoClientLeak
<1>1. Init => ClientsInv
  BY DEF Init, NotCreated, ClientsInv
<1>2. ClientsInv => NoClientLeak
  BY DEF ClientsInv, ClientFits, NoClientLeak
<1> QED
  BY <1>1, <1>2, TypeInvInit, TypeInvStep, ClientsStep, PTL DEF Spec

=============================================================================

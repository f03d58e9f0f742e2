----------------------------- MODULE CallServer -----------------------------
(***************************************************************************)
(* offleash/server.py: the dispatcher of the carrier's webhooks, with its  *)
(* registry of agents and the CallLimiter of offleash/limits.py.           *)
(*                                                                         *)
(* Every webhook is handled by a task of its own, so handlers of one call  *)
(* overlap at their awaits: while the answer command is out and while an   *)
(* agent's LLM client is closed.  A step of a handler is what it does      *)
(* between two awaits.  The hangup commands of the handlers are their last *)
(* awaits and change nothing in the server; the leg may end at any time.   *)
(* Webhooks for other applications are refused at once and left out.       *)
(*                                                                         *)
(* Of an agent the server sees whether its run task was started and has    *)
(* ended; VoiceAgent is the model of the rest.                             *)
(***************************************************************************)
EXTENDS Integers, FiniteSets

CONSTANTS
    Calls,          \* the calls, by their call_control_id
    Incoming,       \* the calls whose direction is "incoming"
    AgentIds,       \* the VoiceAgent objects that may be created
    NoAgent,        \* no VoiceAgent object
    NoCall,         \* the call of an object that was not created
    MaxConcurrent,  \* Settings.max_concurrent_calls, 0 for no limit
    MaxDeliveries,  \* bound: deliveries of one webhook
    Faults          \* what the carrier and the network do

ASSUME CallServerAssumption ==
    /\ IsFiniteSet(Calls)
    /\ Incoming \subseteq Calls
    /\ NoAgent \notin AgentIds
    /\ NoCall \notin Calls
    /\ MaxConcurrent \in Nat
    /\ MaxDeliveries \in Nat
    /\ Faults \subseteq
         {"reorder",    \* webhooks of a call overtake one another
          "timeout"}    \* an answer command is carried out and reported as failed

VARIABLES
    agents,     \* app.state.agents
    active,     \* CallLimiter._active
    objects,    \* the VoiceAgent objects and the handlers suspended with them
    leg,        \* the carrier's leg of each call
    delivered,  \* the number of deliveries of each webhook
    stage,      \* of the server: up, stopping or down
    todo,       \* the agents that the shutdown has yet to end
    awaited     \* the agent whose run task the shutdown awaits

registry == <<agents, active>>
carrier == <<leg, delivered>>
shutdown == <<stage, todo, awaited>>
vars == <<registry, objects, carrier, shutdown>>

NotCreated ==
    [call |-> NoCall,
     run |-> "none",        \* _run_task: none, running, done, or over once its
                            \* done callback has run
     hangup |-> FALSE,      \* submit_hangup was called
     cancelled |-> FALSE,   \* the run task was cancelled
     answering |-> "no",    \* the webhook whose handler awaits answer
     closing |-> FALSE,     \* a handler awaits aclose and then calls _finish_call
     closed |-> FALSE]      \* _closed

Webhooks == {"initiated", "answered", "hangup"}

Init ==
    /\ agents = [c \in Calls |-> NoAgent]
    /\ active = 0
    /\ objects = [a \in AgentIds |-> NotCreated]
    /\ leg = [c \in Calls |-> "ringing"]
    /\ delivered = [c \in Calls |-> [w \in Webhooks |-> 0]]
    /\ stage = "up"
    /\ todo = {}
    /\ awaited = NoAgent

-----------------------------------------------------------------------------
(***************************************************************************)
(* The carrier.                                                            *)
(***************************************************************************)

\* The leg is answered: by the callee, or by the answer command.
LegAnswered(c) ==
    /\ leg[c] = "ringing"
    /\ c \in Incoming => \E a \in AgentIds : objects[a].call = c /\ objects[a].answering # "no"
    /\ leg' = [leg EXCEPT ![c] = "up"]
    /\ UNCHANGED <<registry, objects, delivered, shutdown>>

\* The leg ends; a leg that was never answered is "missed".
LegEnds(c) ==
    /\ leg[c] \in {"ringing", "up"}
    /\ leg' = [leg EXCEPT ![c] = IF leg[c] = "up" THEN "down" ELSE "missed"]
    /\ UNCHANGED <<registry, objects, delivered, shutdown>>

\* The events of the leg of c that have happened.
Happened(c) ==
    {"initiated"}
      \cup (IF leg[c] \in {"up", "down"} THEN {"answered"} ELSE {})
      \cup (IF leg[c] \in {"down", "missed"} THEN {"hangup"} ELSE {})

\* The webhooks that are delivered before w when none overtakes another.
Before(w) ==
    CASE w = "initiated" -> {}
      [] w = "answered" -> {"initiated"}
      [] w = "hangup" -> {"initiated", "answered"}

\* A webhook of the call arrives.
Delivers(c, w) ==
    /\ stage = "up"
    /\ w \in Happened(c)
    /\ delivered[c][w] < MaxDeliveries
    /\ "reorder" \in Faults \/ \A v \in Before(w) \cap Happened(c) : delivered[c][v] > 0
    /\ delivered' = [delivered EXCEPT ![c][w] = @ + 1]
    /\ UNCHANGED leg

-----------------------------------------------------------------------------
(***************************************************************************)
(* The handlers of the webhooks.                                           *)
(***************************************************************************)

\* Mutant: one call too many.
AtCapacityOffByOne == MaxConcurrent > 0 /\ active > MaxConcurrent

AtCapacity == MaxConcurrent > 0 /\ active >= MaxConcurrent

\* Mutant: release without its max(0, ...), for an entry or not.
FinishCallCountsBelowZero(c) ==
    /\ agents' = [agents EXCEPT ![c] = NoAgent]
    /\ active' = active - 1

\* Mutant: the slot is released whether or not the call was registered.
FinishCallAlwaysReleases(c) ==
    /\ agents' = [agents EXCEPT ![c] = NoAgent]
    /\ active' = IF active > 0 THEN active - 1 ELSE 0

\* _finish_call: the slot is released if the call was registered.
FinishCall(c) ==
    /\ agents' = [agents EXCEPT ![c] = NoAgent]
    /\ active' = IF agents[c] # NoAgent /\ active > 0 THEN active - 1 ELSE active

\* _ensure_registered for a call that is not registered: take a slot, create the
\* agent and, for an inbound call, await its answer.  An outbound call is
\* answered already when the webhook is "answered", and its run task starts.
Registers(c, webhook) ==
    /\ agents[c] = NoAgent
    /\ ~AtCapacity
    /\ active' = active + 1
    /\ \E a \in AgentIds :
          /\ objects[a].call = NoCall
          /\ agents' = [agents EXCEPT ![c] = a]
          /\ objects' = [objects EXCEPT ![a] =
                [NotCreated EXCEPT
                    !.call = c,
                    !.answering = IF c \in Incoming THEN webhook ELSE "no",
                    !.run = IF c \notin Incoming /\ webhook = "answered" THEN "running"
                                                                          ELSE "none"]]

\* At capacity the call is hung up instead.
Rejects(c) ==
    /\ agents[c] = NoAgent
    /\ AtCapacity
    /\ UNCHANGED <<registry, objects>>

\* start, unless the run task exists.
Started(a) == IF objects[a].run = "none" THEN [objects[a] EXCEPT !.run = "running"]
                                         ELSE objects[a]

CallInitiated(c) ==
    /\ Delivers(c, "initiated")
    /\ \/ agents[c] # NoAgent /\ UNCHANGED <<registry, objects>>
       \/ Registers(c, "initiated")
       \/ Rejects(c)
    /\ UNCHANGED shutdown

CallAnswered(c) ==
    /\ Delivers(c, "answered")
    /\ \/ /\ agents[c] # NoAgent
          /\ objects' = [objects EXCEPT ![agents[c]] = Started(agents[c])]
          /\ UNCHANGED registry
       \/ Registers(c, "answered")
       \/ Rejects(c)
    /\ UNCHANGED shutdown

\* Mutant: the LLM client of an agent that was never started is left open.
CallHangupLeavesClient(c) ==
    /\ Delivers(c, "hangup")
    /\ LET a == agents[c]
       IN  \/ a = NoAgent /\ UNCHANGED <<registry, objects>>
           \/ /\ a # NoAgent
              /\ objects[a].run # "none"
              /\ objects' = [objects EXCEPT ![a].hangup = TRUE]
              /\ UNCHANGED registry
           \/ /\ a # NoAgent
              /\ objects[a].run = "none"
              /\ FinishCall(c)
              /\ UNCHANGED objects
    /\ UNCHANGED shutdown

\* aclose by a handler that calls _finish_call afterwards.  It only awaits the
\* client when it is the first to close it.
ClosesAndFinishes(a) ==
    IF objects[a].closed
    THEN FinishCall(objects[a].call) /\ UNCHANGED objects
    ELSE /\ objects' = [objects EXCEPT ![a].closed = TRUE, ![a].closing = TRUE]
         /\ UNCHANGED registry

\* Mutant: the slot of a running call is released by the hangup webhook.
CallHangupFinishesAtOnce(c) ==
    /\ Delivers(c, "hangup")
    /\ LET a == agents[c]
       IN  \/ a = NoAgent /\ UNCHANGED <<registry, objects>>
           \/ /\ a # NoAgent
              /\ objects[a].run # "none"
              /\ objects' = [objects EXCEPT ![a].hangup = TRUE]
              /\ FinishCall(c)
           \/ a # NoAgent /\ objects[a].run = "none" /\ ClosesAndFinishes(a)
    /\ UNCHANGED shutdown

CallHangup(c) ==
    /\ Delivers(c, "hangup")
    /\ LET a == agents[c]
       IN  \/ a = NoAgent /\ UNCHANGED <<registry, objects>>
           \/ /\ a # NoAgent
              /\ objects[a].run # "none"
              /\ objects' = [objects EXCEPT ![a].hangup = TRUE]
              /\ UNCHANGED registry
           \/ a # NoAgent /\ objects[a].run = "none" /\ ClosesAndFinishes(a)
    /\ UNCHANGED shutdown

\* An answer command may raise when it did not answer the leg: the leg is not
\* answered, or another registration of the call answered it.
MayFail(a) ==
    LET c == objects[a].call
    IN  \/ leg[c] \in {"ringing", "missed"}
        \/ \E b \in AgentIds \ {a} : objects[b].call = c
        \/ "timeout" \in Faults

\* The answer command of a registration returns: the handler of "answered" goes
\* on to start the run task.
AnswerReturns(a) ==
    /\ objects[a].answering # "no"
    /\ leg[objects[a].call] # "ringing"
    /\ objects' = [objects EXCEPT ![a] =
          [IF objects[a].answering = "answered" THEN Started(a) ELSE objects[a]
             EXCEPT !.answering = "no"]]
    /\ UNCHANGED <<registry, carrier, shutdown>>

\* The answer command raises: the registration is rolled back.  The carrier may
\* have answered the leg nevertheless, when only its response is late.
AnswerFails(a) ==
    /\ objects[a].answering # "no"
    /\ MayFail(a)
    /\ IF objects[a].closed
       THEN /\ FinishCall(objects[a].call)
            /\ objects' = [objects EXCEPT ![a].answering = "no"]
       ELSE /\ objects' = [objects EXCEPT ![a].answering = "no", ![a].closed = TRUE,
                                          ![a].closing = TRUE]
            /\ UNCHANGED registry
    /\ UNCHANGED <<carrier, shutdown>>

\* The handler that closed the LLM client of the agent goes on to _finish_call.
ClientCloses(a) ==
    /\ objects[a].closing
    /\ objects' = [objects EXCEPT ![a].closing = FALSE]
    /\ FinishCall(objects[a].call)
    /\ UNCHANGED <<carrier, shutdown>>

-----------------------------------------------------------------------------
(***************************************************************************)
(* The agents' run tasks.                                                  *)
(***************************************************************************)

\* The run task ends: after a hangup or a cancellation, and on its own when a
\* reaped response ends with CancelledError (VoiceAgent).  Its teardown closes
\* the client, unless a cancellation cuts the teardown short.
RunEnds(a) ==
    /\ objects[a].run = "running"
    /\ \E closes \in BOOLEAN :
          /\ ~closes => objects[a].cancelled
          /\ objects' = [objects EXCEPT ![a].run = "done",
                                        ![a].closed = objects[a].closed \/ closes]
    /\ UNCHANGED <<registry, carrier, shutdown>>

\* Mutant: the done callback is missing.
DoneCallbackMissing(a) == FALSE

\* The done callback, which the event loop calls after the end of the task.
DoneCallback(a) ==
    /\ objects[a].run = "done"
    /\ objects' = [objects EXCEPT ![a].run = "over"]
    /\ FinishCall(objects[a].call)
    /\ UNCHANGED <<carrier, shutdown>>

-----------------------------------------------------------------------------
(***************************************************************************)
(* The end of lifespan.  The web server has waited for its handlers.       *)
(***************************************************************************)

Registered == {agents[c] : c \in Calls} \ {NoAgent}

ShutdownBegins ==
    /\ stage = "up"
    /\ \A a \in AgentIds : objects[a].answering = "no" /\ ~objects[a].closing
    /\ stage' = "stopping"
    /\ todo' = Registered
    /\ UNCHANGED <<registry, objects, carrier, awaited>>

\* The next agent's run task is cancelled and awaited.
ShutdownCancels(a) ==
    /\ stage = "stopping"
    /\ awaited = NoAgent
    /\ a \in todo
    /\ objects[a].run = "running"
    /\ objects' = [objects EXCEPT ![a].cancelled = TRUE]
    /\ awaited' = a
    /\ UNCHANGED <<registry, carrier, stage, todo>>

\* Mutant: the cancelled task is not awaited.
ShutdownDoesNotWait(a) ==
    /\ awaited = a
    /\ awaited' = NoAgent
    /\ todo' = todo \ {a}
    /\ UNCHANGED <<registry, objects, carrier, stage>>

ShutdownReaps(a) ==
    /\ awaited = a
    /\ objects[a].run \in {"done", "over"}
    /\ awaited' = NoAgent
    /\ todo' = todo \ {a}
    /\ UNCHANGED <<registry, objects, carrier, stage>>

\* An agent without a live run task has its client closed.
ShutdownCloses(a) ==
    /\ stage = "stopping"
    /\ awaited = NoAgent
    /\ a \in todo
    /\ objects[a].run # "running"
    /\ objects' = [objects EXCEPT ![a].closed = TRUE]
    /\ todo' = todo \ {a}
    /\ UNCHANGED <<registry, carrier, stage, awaited>>

\* agents.clear() drops the entries and leaves the limiter alone.
ShutdownEnds ==
    /\ stage = "stopping"
    /\ awaited = NoAgent
    /\ todo = {}
    /\ stage' = "down"
    /\ agents' = [c \in Calls |-> NoAgent]
    /\ UNCHANGED <<active, objects, carrier, todo, awaited>>

-----------------------------------------------------------------------------

Carrier(c) == LegAnswered(c) \/ LegEnds(c)

Webhook(c) == CallInitiated(c) \/ CallAnswered(c) \/ CallHangup(c)

Handler(a) == AnswerReturns(a) \/ AnswerFails(a) \/ ClientCloses(a)

RunTask(a) == RunEnds(a) \/ DoneCallback(a)

Lifespan ==
    \/ ShutdownBegins
    \/ \E a \in AgentIds : ShutdownCancels(a) \/ ShutdownReaps(a) \/ ShutdownCloses(a)
    \/ ShutdownEnds

Over == stage = "down" /\ UNCHANGED vars

Next ==
    \/ \E c \in Calls : Carrier(c) \/ Webhook(c)
    \/ \E a \in AgentIds : Handler(a) \/ RunTask(a)
    \/ Lifespan
    \/ Over

(***************************************************************************)
(* The carrier repeats a webhook until it is taken, commands and closes    *)
(* have a timeout, and a run task ends once it has a hangup on its queue   *)
(* (LegEndsTheRun of AgentCall).                                           *)
(***************************************************************************)
Fairness ==
    /\ \A c \in Calls : WF_vars(CallInitiated(c)) /\ WF_vars(CallAnswered(c))
                                                  /\ WF_vars(CallHangup(c))
    /\ \A a \in AgentIds : WF_vars(Handler(a)) /\ WF_vars(DoneCallback(a))
                             /\ WF_vars(objects[a].hangup /\ RunEnds(a))

Spec == Init /\ [][Next]_vars /\ Fairness

-----------------------------------------------------------------------------
(***************************************************************************)
(* Properties.                                                             *)
(***************************************************************************)

AgentSet ==
    [call : Calls \cup {NoCall}, run : {"none", "running", "done", "over"},
     hangup : BOOLEAN, cancelled : BOOLEAN, answering : {"no", "initiated", "answered"},
     closing : BOOLEAN, closed : BOOLEAN]

\* The type invariant.
TypeOK ==
    /\ agents \in [Calls -> AgentIds \cup {NoAgent}]
    /\ active \in Nat
    /\ objects \in [AgentIds -> AgentSet]
    /\ leg \in [Calls -> {"ringing", "up", "down", "missed"}]
    /\ delivered \in [Calls -> [Webhooks -> 0..MaxDeliveries]]
    /\ stage \in {"up", "stopping", "down"}
    /\ todo \subseteq AgentIds
    /\ awaited \in AgentIds \cup {NoAgent}

Held == {c \in Calls : agents[c] # NoAgent}

\* The limiter counts exactly the registered calls, whatever webhooks are late,
\* repeated or handled at the same time and whichever of them fail: no slot
\* leaks in the counter and none is given back twice (server.py:274-279).
SlotAccounting == stage # "down" => active = Cardinality(Held)

Slots == INSTANCE CallSlots WITH held <- Held

\* The registry and its counter implement the slots of the limiter.
ImplementsSlots == Slots!SlotsSpec

\* A live run task belongs to a registered call: its slot is held "once the agent
\* run task ends" (server.py:275), hangups reach it and a shutdown cancels it.
RunsAreRegistered ==
    stage # "down" =>
        \A a \in AgentIds :
            objects[a].run = "running" => agents[objects[a].call] = a

\* The LLM client of every agent that has left the registry is closed, or will be
\* by its run task (agent.py:264-270, server.py:204-207, :266-269).
NoClientLeak ==
    stage = "up" =>
        \A a \in AgentIds :
            objects[a].call # NoCall /\ agents[objects[a].call] # a
                => objects[a].closed \/ objects[a].run = "running"

\* Nothing of a call survives the shutdown (server.py:64-78).
ShutdownLeavesNoRun ==
    stage = "down" => \A a \in AgentIds : objects[a].run # "running"

\* The slot of a call that has ended is freed, unless the server goes down.
EndedCallsAreFreed ==
    \A c \in Calls : leg[c] \in {"down", "missed"} ~> (agents[c] = NoAgent \/ stage # "up")

=============================================================================

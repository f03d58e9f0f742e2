--------------------------- MODULE ToolLoopProofs ---------------------------
(***************************************************************************)
(* Theorems about the replies of a call: their types, the budget, the      *)
(* prompt and the flow, what the history has of the tool calls, and that   *)
(* the replies implement Reply.  They hold for every stream of the LLM,    *)
(* every number of turns, and all of the faults.                           *)
(***************************************************************************)
EXTENDS ToolLoop, ConversationProofs, LlmStreamProofs

-----------------------------------------------------------------------------
(***************************************************************************)
(* What is counted.                                                        *)
(***************************************************************************)

LEMMA ArgumentsCounted ==
    ASSUME NEW tool_calls \in Seq(ToolCall)
    PROVE  ArgumentsLength(tool_calls) \in Nat
<1> DEFINE n == Len(tool_calls)
           Adds(f) ==
             f = [s \in SUBSET (DOMAIN tool_calls) |->
                    IF s = {} THEN 0 ELSE f[s \ {Max(s)}] + Len(tool_calls[Max(s)].arguments)]
           iter == CHOOSE f : Adds(f)
           step == [x \in Nat \X (1..n) |-> x[1] + Len(tool_calls[x[2]].arguments)]
<1>0. n \in Nat /\ DOMAIN tool_calls = 1..n
  OBVIOUS
<1>1. ArgumentsLength(tool_calls) = iter[DOMAIN tool_calls]
  BY DEF ArgumentsLength, FoldLeft, MapThenFoldSet
<1>2. \A i \in 1..n : Len(tool_calls[i].arguments) \in Nat
  <2>1. \A i \in 1..n : tool_calls[i] \in ToolCall
    OBVIOUS
  <2>2. ASSUME NEW i \in 1..n
        PROVE  tool_calls[i].arguments \in Seq(STRING)
    BY <2>1 DEF ToolCall
  <2> QED
    BY <2>2
<1> HIDE DEF n
<1>3. step \in [Nat \X (1..n) -> Nat]
  BY <1>2
<1>4. \A x \in Nat, i \in 1..n : step[<<x, i>>] = x + Len(tool_calls[i].arguments)
  OBVIOUS
<1> HIDE DEF step
<1>5. PICK f \in [SUBSET (1..n) -> Nat] : Folds(f, 0, step, n)
  BY <1>0, <1>3, FoldDefined
<1>6. \A s \in SUBSET (1..n) : s # {} => Max(s) \in 1..n /\ s \ {Max(s)} \in SUBSET (1..n)
  BY <1>0, MaxOfNumbers
<1>7. \A s \in SUBSET (1..n) :
         f[s] = IF s = {} THEN 0 ELSE f[s \ {Max(s)}] + Len(tool_calls[Max(s)].arguments)
  BY <1>4, <1>5, <1>6 DEF Folds
<1>8. Adds(f)
  BY <1>0, <1>7
<1>9. Adds(iter)
  BY <1>8, Zenon
<1> HIDE DEF iter, Adds
<1>10. /\ iter[{}] = 0
       /\ \A s \in SUBSET (1..n) : s # {} =>
             iter[s] = iter[s \ {Max(s)}] + Len(tool_calls[Max(s)].arguments)
  BY <1>0, <1>9 DEF Adds
<1>11. \A s \in SUBSET (1..n) : iter[s] \in Nat
  <2>1. ASSUME NEW s \in SUBSET (1..n), s # {}, iter[s \ {Max(s)}] \in Nat
        PROVE  iter[s] \in Nat
    <3> DEFINE added == Len(tool_calls[Max(s)].arguments)
    <3>1. added \in Nat
      BY <1>2, <1>6, <2>1
    <3>2. iter[s] = iter[s \ {Max(s)}] + added
      BY <1>10, <2>1
    <3> HIDE DEF added
    <3> QED
      BY <2>1, <3>1, <3>2
  <2>2. iter[{}] \in Nat
    BY <1>10
  <2> QED
    BY <1>0, <2>1, <2>2, FoldTyped
<1> QED
  BY <1>0, <1>1, <1>11

LEMMA NoArguments == ArgumentsLength(<<>>) = 0
<1> DEFINE Adds(f) ==
             f = [s \in SUBSET (DOMAIN <<>>) |->
                    IF s = {} THEN 0 ELSE f[s \ {Max(s)}] + Len(<<>>[Max(s)].arguments)]
           iter == CHOOSE f : Adds(f)
           f == [s \in {{}} |-> 0]
<1>1. ArgumentsLength(<<>>) = iter[DOMAIN <<>>]
  BY DEF ArgumentsLength, FoldLeft, MapThenFoldSet
<1>2. SUBSET (DOMAIN <<>>) = {{}} /\ DOMAIN <<>> = {}
  OBVIOUS
<1>3. Adds(f)
  BY <1>2
<1>4. Adds(iter)
  BY <1>3, Zenon
<1> HIDE DEF iter
<1> QED
  BY <1>1, <1>2, <1>4

LEMMA PromptCounted ==
    ASSUME NEW m \in Seq(Message)
    PROVE  PromptLength(m) \in Nat
<1> DEFINE told == {i \in 1..Len(m) : m[i].role # "tool_calls"}
<1>1. IsFiniteSet(told)
  BY FS_Interval, FS_Subset
<1>2. Cardinality(told) \in Nat
  BY <1>1, FS_CardinalityType
<1> QED
  BY <1>2, ToolLoopAssumption DEF PromptLength

\* A step of the stream takes no text back, and what it passes on before anything
\* was passed on is nothing at all.
LEMMA StreamCounts ==
    ASSUME StreamInv, StreamStep
    PROVE  /\ Len(stream'.text) - Len(stream.text) \in Nat
           /\ stream.at \in {"open", "read", "backoff"}
           /\ stream'.at # "idle"
           /\ stream'.at \in {"open", "read", "backoff"} =>
                 /\ stream'.calls = <<>>
                 /\ stream'.text = <<>> => stream.text = <<>>
<1>0. /\ RetryInv /\ RetryInv'
      /\ stream.text \in Seq(STRING)
      /\ stream.at \in {"open", "read", "backoff"} => stream.calls = <<>>
      /\ stream'.at \in {"open", "read", "backoff"} => stream'.calls = <<>>
  BY StreamSteps, Zenon DEF StreamInv, StreamData, RetryInv
<1>1. CASE ChunkArrives
  <2>1. PICK chunk \in Chunks : stream'.text = stream.text \o chunk.text
    BY <1>0, <1>1, ChunkFields, Zenon
  <2>2. chunk.text \in Seq(STRING)
    BY LlmStreamAssumption DEF Chunk
  <2>3. Len(stream'.text) = Len(stream.text) + Len(chunk.text)
    BY <1>0, <2>1, <2>2
  <2>4. ASSUME stream'.text = <<>>
        PROVE  stream.text = <<>>
    <3>1. Len(stream'.text) = 0
      BY <2>4
    <3>2. Len(stream.text) = 0
      <4>1. Len(stream.text) \in Nat /\ Len(chunk.text) \in Nat
        BY <1>0, <2>2
      <4>2. Len(stream.text) + Len(chunk.text) = 0
        BY <2>3, <3>1, Zenon
      <4> DEFINE a == Len(stream.text)
                 b == Len(chunk.text)
      <4>3. a \in Nat /\ b \in Nat /\ a + b = 0
        BY <4>1, <4>2
      <4> HIDE DEF a, b
      <4>4. a = 0
        BY <4>3
      <4> QED
        BY <4>4 DEF a
    <3> QED
      BY <1>0, <3>2
  <2>5. stream.at = "read" /\ stream'.at = "read"
    BY <1>0, <1>1, ChunkFields, Zenon
  <2> QED
    BY <1>0, <2>2, <2>3, <2>4, <2>5
<1>2. CASE ~ChunkArrives
  <2>1. /\ stream'.text = stream.text
        /\ stream.at \in {"open", "read", "backoff"}
        /\ stream'.at \in {"open", "read", "backoff", "ended", "failed"}
    <3>1. CASE StreamOpens
      BY <1>0, <3>1, RequestDomain DEF StreamOpens, RetryInv
    <3>2. CASE StreamEnds
      BY <1>0, <3>2, EndFields
    <3>3. CASE StreamBreaks
      BY <1>0, <3>3, RequestDomain DEF StreamBreaks, RetryInv
    <3>4. CASE BackoffEnds
      BY <1>0, <3>4, RequestDomain DEF BackoffEnds, RetryInv
    <3> QED
      BY <1>2, <3>1, <3>2, <3>3, <3>4 DEF StreamStep
  <2> QED
    BY <1>0, <2>1
<1> QED
  BY <1>1, <1>2

-----------------------------------------------------------------------------
(***************************************************************************)
(* Types, in four parts.  A reply that asks the LLM or runs tools is still *)
(* within its rounds, which is what bounds tool_rounds.                    *)
(***************************************************************************)

ReplyTypes ==
    /\ at \in {"idle", "new", "llm", "tool", "speak", "hangup", "over"}
    /\ saying \in {"reply", "budget", "apology"}
    /\ tool_rounds \in Nat
    /\ tool_rounds <= MaxToolRounds + 1
    /\ at \in {"llm", "tool"} => tool_rounds <= MaxToolRounds
    /\ calls \in [all : Seq(ToolCall), run : Nat]
    /\ calls.run <= Len(calls.all)
    /\ StreamInv
    /\ at = "llm" <=> stream.at # "idle"

FlowTypes ==
    /\ tools_schemas \subseteq Tool
    /\ system_prompt \in [node : Node, slots : SUBSET Slot]
    /\ current_node \in Node
    /\ slots \subseteq Slot
    /\ ending \in BOOLEAN
    /\ strayed \in BOOLEAN

HistoryTypes ==
    /\ turn \in Nat
    /\ turn <= MaxTurnsOfCall
    /\ messages \in Seq(Message)

BudgetTypes ==
    /\ chars \in Nat
    /\ announced \in BOOLEAN

TypeInv == ReplyTypes /\ FlowTypes /\ HistoryTypes /\ BudgetTypes

LEMMA NoToolCallsType ==
    /\ NoToolCalls \in [all : Seq(ToolCall), run : Nat]
    /\ NoToolCalls.run <= Len(NoToolCalls.all)
<1>1. <<>> \in Seq(ToolCall) /\ Len(<<>>) = 0
  BY NoPieces
<1> QED
  BY <1>1 DEF NoToolCalls

LEMMA StreamOfReply ==
    /\ (stream = Request)' => StreamInv' /\ (stream.at = "open")' /\ (stream.text = <<>>)'
    /\ (stream = NoRequest)' => StreamInv' /\ (stream.at = "idle")'
<1>1. stream = Request => StreamInv /\ stream.at = "open" /\ stream.text = <<>>
  BY StreamStarts, RequestFields
<1>2. stream = NoRequest => StreamInv /\ stream.at = "idle"
  <2>1. stream = NoRequest => StreamInv
    BY StreamStarts
  <2>2. stream = NoRequest => stream.at = "idle"
    BY DEF NoRequest, Request
  <2> QED
    BY <2>1, <2>2
<1> QED
  BY <1>1, <1>2, PTL


LEMMA ReplyTypesStep == TypeInv /\ Next => ReplyTypes'
<1> SUFFICES ASSUME TypeInv, Next
             PROVE  ReplyTypes'
  OBVIOUS
<1> USE DEF reply
<1>0. ReplyTypes /\ MaxToolRounds \in Nat
  BY ToolLoopAssumption DEF TypeInv
<1>1. ASSUME at' = "llm", stream' = Request, calls' = NoToolCalls, saying' = saying,
             tool_rounds' = 0 \/ (tool_rounds' = tool_rounds /\ at = "tool")
      PROVE  ReplyTypes'
  <2>1. StreamInv' /\ stream'.at = "open"
    BY <1>1, StreamOfReply
  <2>2. tool_rounds' \in Nat /\ tool_rounds' <= MaxToolRounds
    BY <1>0, <1>1 DEF ReplyTypes
  <2> QED
    BY <1>0, <1>1, <2>1, <2>2, NoToolCallsType DEF ReplyTypes
<1>2. ASSUME at' \in {"speak", "idle", "hangup"}, stream' = NoRequest, calls' = NoToolCalls,
             saying' = saying \/ saying' \in {"reply", "budget", "apology"},
             \/ tool_rounds' = 0
             \/ tool_rounds' = tool_rounds
             \/ tool_rounds' = tool_rounds + 1 /\ at = "llm"
      PROVE  ReplyTypes'
  <2>1. StreamInv' /\ stream'.at = "idle"
    BY <1>2, StreamOfReply
  <2>2. tool_rounds' \in Nat /\ tool_rounds' <= MaxToolRounds + 1
    BY <1>0, <1>2 DEF ReplyTypes
  <2> QED
    BY <1>0, <1>2, <2>1, <2>2, NoToolCallsType DEF ReplyTypes
<1>3. CASE ReplyStarts \/ NextRound
  <2>1. /\ tool_rounds' = 0 \/ (tool_rounds' = tool_rounds /\ at = "tool")
        /\ AskLlm \/ AnnounceBudget
    BY <1>3 DEF ReplyStarts, NextRound
  <2>2. CASE AnnounceBudget
    BY <1>2, <2>1, <2>2 DEF AnnounceBudget, Say
  <2>3. CASE AskLlm
    <3>1. \/ AnnounceBudget
          \/ at' = "llm" /\ stream' = Request /\ calls' = NoToolCalls /\ saying' = saying
      BY <2>3 DEF AskLlm
    <3> QED
      BY <1>1, <2>1, <2>2, <3>1
  <2> QED
    BY <2>1, <2>2, <2>3
<1>4. CASE LlmFails \/ LlmAnswers \/ ToolRaises \/ LlmCallsTooManyTools
  BY <1>2, <1>4 DEF LlmFails, LlmAnswers, ToolRaises, LlmCallsTooManyTools, Say
<1>5. CASE LlmIsSilent \/ SpeakEnds \/ ReplySuperseded
  <2>1. \E records, role : Finish(records, role)
    BY <1>5, Zenon DEF LlmIsSilent, SpeakEnds, ReplySuperseded
  <2> QED
    BY <1>2, <2>1 DEF Finish
<1>6. CASE SpeakFails
  BY <1>2, <1>6 DEF SpeakFails, Say, Finish
<1>7. CASE TurnArrives \/ ReplySkipped \/ BargeIn \/ HangupReturns
  <2>1. /\ UNCHANGED <<stream, saying, tool_rounds, calls>>
        /\ at \in {"idle", "new", "speak", "hangup"} /\ at' \in {"idle", "new", "over"}
    BY <1>7 DEF TurnArrives, ReplySkipped, BargeIn, HangupReturns
  <2>2. StreamInv'
    BY <1>0, <2>1 DEF ReplyTypes, StreamInv, StreamData, RetryInv
  <2> QED
    BY <1>0, <2>1, <2>2 DEF ReplyTypes
<1>8. CASE LlmStreams
  <2>1. UNCHANGED <<at, saying, tool_rounds, calls>> /\ at = "llm" /\ StreamStep
    BY <1>8 DEF LlmStreams
  <2>2. StreamInv' /\ stream'.at # "idle"
    BY <1>0, <2>1, StreamSteps, StreamCounts DEF ReplyTypes
  <2> QED
    BY <1>0, <2>1, <2>2 DEF ReplyTypes
<1>9. CASE LlmCallsTools
  <2>1. /\ at = "llm" /\ at' = "tool" /\ stream' = NoRequest
        /\ calls' = [all |-> stream.calls, run |-> 0]
        /\ tool_rounds < MaxToolRounds /\ tool_rounds' = tool_rounds + 1 /\ saying' = saying
    BY <1>9 DEF LlmCallsTools
  <2>2. StreamInv' /\ stream'.at = "idle"
    BY <2>1, StreamOfReply
  <2>3. stream.calls \in Seq(ToolCall)
    BY <1>0 DEF ReplyTypes, StreamInv, StreamData
  <2>4. calls' \in [all : Seq(ToolCall), run : Nat] /\ calls'.run <= Len(calls'.all)
    BY <2>1, <2>3
  <2>5. tool_rounds' \in Nat /\ tool_rounds' <= MaxToolRounds
    BY <1>0, <2>1 DEF ReplyTypes
  <2> QED
    BY <1>0, <2>1, <2>2, <2>4, <2>5 DEF ReplyTypes
<1>10. CASE ToolRuns
  <2>1. /\ UNCHANGED <<stream, at, saying, tool_rounds>> /\ at = "tool"
        /\ calls.run < Len(calls.all) /\ calls' = [calls EXCEPT !.run = calls.run + 1]
    BY <1>10 DEF ToolRuns
  <2>2. calls' \in [all : Seq(ToolCall), run : Nat] /\ calls'.run <= Len(calls'.all)
    BY <1>0, <2>1 DEF ReplyTypes
  <2>3. StreamInv'
    BY <1>0, <2>1 DEF ReplyTypes, StreamInv, StreamData, RetryInv
  <2> QED
    BY <1>0, <2>1, <2>2, <2>3 DEF ReplyTypes
<1>11. CASE Over
  BY <1>0, <1>11 DEF Over, vars, ReplyTypes, StreamInv, StreamData, RetryInv
<1> QED
  BY <1>3, <1>4, <1>5, <1>6, <1>7, <1>8, <1>9, <1>10, <1>11 DEF Next, ReplyStep, Caller

\* What a step does to the flow.
RoundStarts ==
    /\ tools_schemas' = NodeTools[current_node]
    /\ system_prompt' = [node |-> current_node, slots |-> slots]
    /\ UNCHANGED <<current_node, slots, ending, strayed>>

RunsTool(name) ==
    /\ at = "tool" /\ at' = "tool"
    /\ UNCHANGED <<tools_schemas, system_prompt>>
    /\ slots' \in {slots, slots \cup {"date", "time", "party_size"}, slots \cup {"name"}}
    /\ "name" \in slots' => "name" \in slots \/ name = "make_reservation"
    /\ strayed' = (strayed \/ name \notin tools_schemas)
    /\ \/ /\ name \in DOMAIN Transitions[current_node]
          /\ current_node' = Transitions[current_node][name]
          /\ ending' = (ending \/ current_node' \in Terminal)
       \/ /\ name \notin DOMAIN Transitions[current_node]
          /\ UNCHANGED <<current_node, ending>>

LEMMA FlowEffect ==
    ASSUME Next
    PROVE  \/ UNCHANGED flow /\ (at' = "llm" => at = "llm")
           \/ RoundStarts
           \/ \E name : RunsTool(name)
<1> USE DEF flow, reply
<1>1. CASE ReplyStarts \/ NextRound
  <2>1. RoundStarts
    BY <1>1 DEF ReplyStarts, NextRound, RoundStarts, ToolSchemas, BuildSystemPrompt
  <2> QED
    BY <2>1
<1>2. CASE ToolRuns
  <2> DEFINE call == calls.all[calls.run + 1]
  <2>1. /\ slots' = slots \cup Stores(call.name, call.arguments)
        /\ strayed' = (strayed \/ call.name \notin tools_schemas)
        /\ HandleTransition(call.name)
        /\ at = "tool" /\ at' = "tool" /\ UNCHANGED <<tools_schemas, system_prompt>>
    BY <1>2, Zenon DEF ToolRuns
  <2> HIDE DEF call
  <2>2. \/ Stores(call.name, call.arguments) = {"date", "time", "party_size"}
        \/ Stores(call.name, call.arguments) = {"name"} /\ call.name = "make_reservation"
        \/ Stores(call.name, call.arguments) = {}
    BY DEF Stores
  <2>3. slots' \in {slots, slots \cup {"date", "time", "party_size"}, slots \cup {"name"}}
    BY <2>1, <2>2
  <2>4. "name" \in slots' => "name" \in slots \/ call.name = "make_reservation"
    BY <2>1, <2>2
  <2>5. \/ /\ call.name \in DOMAIN Transitions[current_node]
           /\ current_node' = Transitions[current_node][call.name]
           /\ ending' = (ending \/ current_node' \in Terminal)
        \/ /\ call.name \notin DOMAIN Transitions[current_node]
           /\ UNCHANGED <<current_node, ending>>
    BY <2>1, Zenon DEF HandleTransition, Triggers
  <2>6. RunsTool(call.name)
    BY <2>1, <2>3, <2>4, <2>5, Zenon DEF RunsTool
  <2> QED
    BY <2>6
<1>3. CASE LlmIsSilent \/ SpeakEnds \/ ReplySuperseded
  BY <1>3 DEF LlmIsSilent, SpeakEnds, ReplySuperseded, Finish
<1>4. CASE LlmFails \/ LlmAnswers \/ ToolRaises \/ LlmCallsTooManyTools \/ LlmCallsTools
  BY <1>4 DEF LlmFails, LlmAnswers, ToolRaises, LlmCallsTooManyTools, LlmCallsTools, Say
<1>5. CASE SpeakFails
  BY <1>5 DEF SpeakFails, Say, Finish
<1>6. CASE TurnArrives \/ ReplySkipped \/ BargeIn \/ HangupReturns
  BY <1>6 DEF TurnArrives, ReplySkipped, BargeIn, HangupReturns
<1>7. CASE LlmStreams
  BY <1>7 DEF LlmStreams
<1>8. CASE Over
  BY <1>8 DEF Over, vars
<1> QED
  BY <1>1, <1>2, <1>3, <1>4, <1>5, <1>6, <1>7, <1>8 DEF Next, ReplyStep, Caller

\* The nodes that a transition leads to.
LEMMA TransitionNodes ==
    ASSUME NEW node \in Node, NEW name \in DOMAIN Transitions[node]
    PROVE  \/ Transitions[node][name] = "confirm" /\ node # "farewell"
           \/ Transitions[node][name] = "farewell" /\ node = "confirm"
                /\ name = "make_reservation"
  BY DEF Node, Transitions

LEMMA FlowTypesStep == TypeInv /\ Next => FlowTypes'
<1> SUFFICES ASSUME TypeInv, Next
             PROVE  FlowTypes'
  OBVIOUS
<1>0. FlowTypes
  BY DEF TypeInv
<1>1. CASE UNCHANGED flow
  BY <1>0, <1>1 DEF flow, FlowTypes
<1>2. CASE RoundStarts
  <2>1. NodeTools[current_node] \subseteq Tool
    BY <1>0 DEF FlowTypes, Node, NodeTools, Tool
  <2> QED
    BY <1>0, <1>2, <2>1 DEF RoundStarts, FlowTypes
<1>3. ASSUME NEW name, RunsTool(name)
      PROVE  FlowTypes'
  <2>1. current_node' \in Node
    BY <1>0, <1>3, TransitionNodes DEF RunsTool, FlowTypes, Node
  <2>2. slots' \subseteq Slot
    BY <1>0, <1>3 DEF RunsTool, FlowTypes, Slot
  <2>3. ending' \in BOOLEAN /\ strayed' \in BOOLEAN
    BY <1>0, <1>3, Zenon DEF RunsTool, FlowTypes
  <2> QED
    BY <1>0, <1>3, <2>1, <2>2, <2>3, Zenon DEF RunsTool, FlowTypes
<1> QED
  BY <1>1, <1>2, <1>3, FlowEffect

\* What a step does to the history.
LEMMA HistoryEffect ==
    ASSUME Next
    PROVE  \/ /\ UNCHANGED <<messages, turn>>
              /\ at' = "new" => at = "new"
              /\ at' = "tool" => at = "tool" /\ UNCHANGED <<calls, tool_rounds>>
              /\ at' = "llm" =>
                    \/ at = "new"
                    \/ at = "llm"
                    \/ at = "tool" /\ calls.run = Len(calls.all)
           \/ TurnArrives
           \/ LlmCallsTools
           \/ ToolRuns
           \/ \E role \in {"assistant", "interrupted"} :
                 /\ messages' = AddTurn(messages, role, <<turn>>)
                 /\ turn' = turn
                 /\ at' \in {"idle", "hangup", "over"}
<1> USE DEF reply
<1>1. CASE ReplyStarts \/ NextRound
  <2>1. /\ UNCHANGED <<messages, turn>>
        /\ at = "new" \/ (at = "tool" /\ calls.run = Len(calls.all))
        /\ AskLlm \/ AnnounceBudget
    BY <1>1 DEF ReplyStarts, NextRound
  <2>2. at' \in {"llm", "speak"}
    BY <2>1 DEF AskLlm, AnnounceBudget, Say
  <2> QED
    BY <2>1, <2>2
<1>2. ASSUME NEW records, NEW role, Finish(records, role), turn' = turn,
             role \in {"assistant", "interrupted"}
      PROVE  \/ UNCHANGED <<messages, turn>>
             \/ /\ messages' = AddTurn(messages, role, <<turn>>)
                /\ turn' = turn
  BY <1>2, Zenon DEF Finish
<1>3. CASE LlmIsSilent \/ SpeakEnds \/ ReplySuperseded
  <2>1. \E records : Finish(records, "assistant")
    BY <1>3, Zenon DEF LlmIsSilent, SpeakEnds, ReplySuperseded
  <2>2. turn' = turn
    BY <1>3 DEF LlmIsSilent, SpeakEnds, ReplySuperseded
  <2>3. at' \in {"idle", "hangup"}
    BY <2>1 DEF Finish
  <2> QED
    BY <1>2, <2>1, <2>2, <2>3
<1>4. CASE LlmFails \/ LlmAnswers \/ ToolRaises \/ LlmCallsTooManyTools
  BY <1>4 DEF LlmFails, LlmAnswers, ToolRaises, LlmCallsTooManyTools, Say
<1>5. CASE SpeakFails
  <2>1. turn' = turn
    BY <1>5 DEF SpeakFails
  <2>2. CASE saying = "apology"
    <3>1. Finish(TRUE, "assistant")
      BY <1>5, <2>2 DEF SpeakFails
    <3>2. at' \in {"idle", "hangup"}
      BY <3>1 DEF Finish
    <3> QED
      BY <1>2, <2>1, <3>1, <3>2
  <2>3. CASE saying # "apology"
    BY <1>5, <2>3 DEF SpeakFails, Say
  <2> QED
    BY <2>2, <2>3
<1>6. CASE ReplySkipped \/ HangupReturns
  BY <1>6 DEF ReplySkipped, HangupReturns
<1>7. CASE BargeIn
  BY <1>7 DEF BargeIn
<1>8. CASE LlmStreams
  BY <1>8 DEF LlmStreams
<1>9. CASE Over
  BY <1>9 DEF Over, vars
<1> QED
  BY <1>1, <1>3, <1>4, <1>5, <1>6, <1>7, <1>8, <1>9 DEF Next, ReplyStep, Caller

LEMMA HistoryTypesStep == TypeInv /\ Next => HistoryTypes'
<1> SUFFICES ASSUME TypeInv, Next
             PROVE  HistoryTypes'
  OBVIOUS
<1>0. HistoryTypes /\ MaxTurnsOfCall \in Nat
  BY ToolLoopAssumption DEF TypeInv
<1>1. CASE UNCHANGED <<messages, turn>>
  BY <1>0, <1>1 DEF HistoryTypes
<1>2. CASE TurnArrives
  <2>1. turn' = turn + 1 /\ turn < MaxTurnsOfCall
        /\ messages' = AddTurn(messages, "user", <<turn + 1>>)
    BY <1>2 DEF TurnArrives
  <2>2. "user" \in Role /\ <<turn + 1>> \in Seq(Nat)
    BY <1>0 DEF HistoryTypes, Role
  <2>3. messages' \in Seq(Message)
    BY <1>0, <2>1, <2>2, AddTurnType, Zenon DEF HistoryTypes
  <2> QED
    BY <1>0, <2>1, <2>3 DEF HistoryTypes
<1>3. CASE LlmCallsTools
  <2>1. turn' = turn
        /\ messages' = AddTurn(messages, "tool_calls", <<turn, tool_rounds + 1, Len(stream.calls)>>)
    BY <1>3 DEF LlmCallsTools
  <2>2. "tool_calls" \in Role /\ <<turn, tool_rounds + 1, Len(stream.calls)>> \in Seq(Nat)
    <3>1. turn \in Nat /\ tool_rounds + 1 \in Nat /\ Len(stream.calls) \in Nat
      BY <1>0 DEF HistoryTypes, TypeInv, ReplyTypes, StreamInv, StreamData
    <3> QED
      BY <3>1 DEF Role
  <2>3. messages' \in Seq(Message)
    BY <1>0, <2>1, <2>2, AddTurnType, Zenon DEF HistoryTypes
  <2> QED
    BY <1>0, <2>1, <2>3 DEF HistoryTypes
<1>4. CASE ToolRuns
  <2>1. turn' = turn
        /\ messages' = AddToolResult(messages, <<turn, tool_rounds, calls.run + 1>>)
    BY <1>4 DEF ToolRuns
  <2>2. <<turn, tool_rounds, calls.run + 1>> \in Seq(Nat)
    <3>1. turn \in Nat /\ tool_rounds \in Nat /\ calls.run + 1 \in Nat
      BY <1>0 DEF HistoryTypes, TypeInv, ReplyTypes
    <3> QED
      BY <3>1
  <2>3. messages' \in Seq(Message)
    BY <1>0, <2>1, <2>2, AddToolResultType, Zenon DEF HistoryTypes
  <2> QED
    BY <1>0, <2>1, <2>3 DEF HistoryTypes
<1>5. ASSUME NEW role \in {"assistant", "interrupted"},
             messages' = AddTurn(messages, role, <<turn>>), turn' = turn
      PROVE  HistoryTypes'
  <2>1. role \in Role /\ <<turn>> \in Seq(Nat)
    BY <1>0 DEF HistoryTypes, Role
  <2>2. messages' \in Seq(Message)
    BY <1>0, <1>5, <2>1, AddTurnType, Zenon DEF HistoryTypes
  <2> QED
    BY <1>0, <1>5, <2>2 DEF HistoryTypes
<1> QED
  BY <1>1, <1>2, <1>3, <1>4, <1>5, HistoryEffect

\* What a step does to the budget: a round that starts is counted and then either
\* asks the LLM or announces that the budget is gone.
LEMMA BudgetEffect ==
    ASSUME TypeInv, Next
    PROVE  /\ chars' \in Nat
           /\ \/ /\ UNCHANGED budget
                 /\ at' # "llm"
                 /\ at' = "tool" => at \in {"llm", "tool"}
              \/ /\ at = "llm" /\ at' = "llm" /\ StreamStep
                 /\ UNCHANGED <<announced, announcements>>
                 /\ stream'.at \in {"open", "read", "backoff"} /\ stream'.text = <<>>
                       => chars' = chars
              \/ /\ at = "tool" \/ (at = "new" /\ ~(Exhausted(chars) /\ announced))
                 /\ \/ /\ at' = "llm"
                       /\ ~Exhausted(chars')
                       /\ at = "new" => ~Exhausted(chars)
                       /\ UNCHANGED <<announced, announcements>>
                    \/ /\ at' = "speak"
                       /\ Exhausted(chars')
                       /\ announced' = TRUE
                       /\ announcements' = announcements + 1
<1> USE DEF reply, budget
<1>0. chars \in Nat /\ StreamInv /\ PromptLength(messages) \in Nat
  BY PromptCounted DEF TypeInv, BudgetTypes, HistoryTypes, ReplyTypes
<1>1. CASE ReplyStarts \/ NextRound
  <2>1. /\ at = "tool" \/ (at = "new" /\ ~(Exhausted(chars) /\ announced))
        /\ \/ AskLlm /\ (at = "new" => ~Exhausted(chars))
           \/ AnnounceBudget /\ UNCHANGED chars /\ Exhausted(chars)
    BY <1>1 DEF ReplyStarts, NextRound
  <2>2. CASE AskLlm /\ (at = "new" => ~Exhausted(chars))
    <3>1. chars' = chars + PromptLength(messages)
      BY <2>2, Zenon DEF AskLlm
    <3>2. chars' \in Nat
      BY <1>0, <3>1
    <3>3. \/ /\ Exhausted(chars') /\ AnnounceBudget
          \/ ~Exhausted(chars') /\ at' = "llm" /\ UNCHANGED <<announced, announcements>>
      BY <2>2, Zenon DEF AskLlm
    <3>4. AnnounceBudget =>
             at' = "speak" /\ announced' = TRUE /\ announcements' = announcements + 1
      BY DEF AnnounceBudget, Say
    <3> QED
      BY <2>1, <2>2, <3>2, <3>3, <3>4, Zenon
  <2>3. CASE AnnounceBudget /\ UNCHANGED chars /\ Exhausted(chars)
    <3>1. at' = "speak" /\ announced' = TRUE /\ announcements' = announcements + 1
      BY <2>3 DEF AnnounceBudget, Say
    <3>2. Exhausted(chars') /\ chars' \in Nat
      BY <1>0, <2>3
    <3> QED
      BY <2>1, <3>1, <3>2, Zenon
  <2> QED
    BY <2>1, <2>2, <2>3
<1>2. CASE LlmStreams
  <2>1. /\ at = "llm" /\ at' = "llm" /\ StreamStep /\ UNCHANGED <<announced, announcements>>
        /\ chars' = chars + (Len(stream'.text) - Len(stream.text)) + ArgumentsLength(stream'.calls)
    BY <1>2, Zenon DEF LlmStreams
  <2>2. stream'.calls \in Seq(ToolCall)
    <3>1. StreamInv'
      BY <1>0, <2>1, StreamSteps
    <3> QED
      BY <3>1, Zenon DEF StreamInv, StreamData
  <2>3. ArgumentsLength(stream'.calls) \in Nat
    BY <2>2, ArgumentsCounted, Zenon
  <2> DEFINE text == Len(stream'.text) - Len(stream.text)
             arguments == ArgumentsLength(stream'.calls)
  <2>4. text \in Nat /\ arguments \in Nat /\ chars' = chars + text + arguments
    BY <1>0, <2>1, <2>3, StreamCounts, Zenon
  <2>5. ASSUME stream'.at \in {"open", "read", "backoff"}, stream'.text = <<>>
        PROVE  text = 0 /\ arguments = 0
    <3>1. stream'.calls = <<>> /\ stream.text = <<>>
      BY <1>0, <2>1, <2>5, StreamCounts, Zenon
    <3>2. Len(stream'.text) = 0 /\ Len(stream.text) = 0
      BY <2>5, <3>1
    <3>3. text = 0
      BY <3>2
    <3>4. arguments = 0
      BY <3>1, NoArguments, Zenon
    <3> QED
      BY <3>3, <3>4
  <2> HIDE DEF text, arguments
  <2>6. chars' \in Nat
    BY <1>0, <2>4
  <2>7. stream'.at \in {"open", "read", "backoff"} /\ stream'.text = <<>> => chars' = chars
    BY <1>0, <2>4, <2>5
  <2> QED
    BY <2>1, <2>6, <2>7, Zenon
<1>3. CASE LlmIsSilent \/ SpeakEnds \/ ReplySuperseded
  BY <1>0, <1>3 DEF LlmIsSilent, SpeakEnds, ReplySuperseded, Finish
<1>4. CASE LlmFails \/ LlmAnswers \/ ToolRaises \/ LlmCallsTooManyTools \/ LlmCallsTools
  BY <1>0, <1>4 DEF LlmFails, LlmAnswers, ToolRaises, LlmCallsTooManyTools, LlmCallsTools, Say
<1>5. CASE SpeakFails
  BY <1>0, <1>5 DEF SpeakFails, Say, Finish
<1>6. CASE TurnArrives \/ ReplySkipped \/ BargeIn \/ HangupReturns
  BY <1>0, <1>6 DEF TurnArrives, ReplySkipped, BargeIn, HangupReturns
<1>7. CASE ToolRuns
  BY <1>0, <1>7 DEF ToolRuns
<1>8. ASSUME Over
      PROVE  UNCHANGED budget /\ at' \notin {"llm", "tool"}
  BY <1>8 DEF Over, vars
<1> QED
  BY <1>0, <1>1, <1>2, <1>3, <1>4, <1>5, <1>6, <1>7, <1>8 DEF Next, ReplyStep, Caller

LEMMA BudgetTypesStep == TypeInv /\ Next => BudgetTypes'
<1> SUFFICES ASSUME TypeInv, Next
             PROVE  BudgetTypes'
  OBVIOUS
<1>1. announced' = announced \/ announced' = TRUE
  BY BudgetEffect, Zenon DEF budget
<1>2. announced' \in BOOLEAN
  BY <1>1 DEF TypeInv, BudgetTypes
<1> QED
  BY <1>2, BudgetEffect DEF BudgetTypes

LEMMA TypeInit == Init => TypeInv
<1> SUFFICES ASSUME Init
             PROVE  TypeInv
  OBVIOUS
<1>1. stream \in {Request, NoRequest} /\ stream.at = "idle"
  BY DEF Init, NoRequest, Request
<1>2. StreamInv
  BY <1>1, StreamStarts
<1>3. ReplyTypes
  BY <1>1, <1>2, NoToolCallsType, ToolLoopAssumption DEF Init, ReplyTypes
<1>4. FlowTypes
  BY DEF Init, FlowTypes, BuildSystemPrompt, InitialNode, Node
<1>5. HistoryTypes
  <2>1. messages = <<>> /\ <<>> \in Seq(Message)
    BY NoPieces DEF Init
  <2> QED
    BY <2>1, ToolLoopAssumption DEF Init, HistoryTypes
<1>6. BudgetTypes
  BY DEF Init, BudgetTypes
<1> QED
  BY <1>3, <1>4, <1>5, <1>6 DEF TypeInv

LEMMA TypeStep == TypeInv /\ [Next]_vars => TypeInv'
<1>1. ASSUME TypeInv, UNCHANGED vars
      PROVE  TypeInv'
  BY <1>1 DEF vars, reply, flow, budget, TypeInv, ReplyTypes, FlowTypes, HistoryTypes,
              BudgetTypes, StreamInv, StreamData, RetryInv
<1> QED
  BY <1>1, ReplyTypesStep, FlowTypesStep, HistoryTypesStep, BudgetTypesStep DEF TypeInv

LEMMA TypeInvType == TypeInv => TypeOK
<1> SUFFICES ASSUME TypeInv
             PROVE  TypeOK
  OBVIOUS
<1>1. /\ turn \in 0..MaxTurnsOfCall
      /\ tool_rounds \in 0..(MaxToolRounds + 1)
      /\ calls.run \in 0..Len(calls.all)
  BY ToolLoopAssumption DEF TypeInv, HistoryTypes, ReplyTypes
<1>2. StreamTypeOK
  BY StreamInvType DEF TypeInv, ReplyTypes
<1> QED
  BY <1>1, <1>2 DEF TypeOK, TypeInv, ReplyTypes, FlowTypes, HistoryTypes, BudgetTypes

\* The types, with the two bounds that are not: a reply asks the LLM at most once
\* more than max_tool_rounds allows, and a stream is open only for a reply that
\* waits for it (agent.py:389-399).
THEOREM LoopTypeCorrect == Spec => []TypeOK
  BY TypeInit, TypeStep, TypeInvType, PTL DEF Spec

-----------------------------------------------------------------------------
(***************************************************************************)
(* The prompt and the flow.                                                *)
(***************************************************************************)

LEMMA PromptStep == TypeInv /\ PromptIsCurrent /\ [Next]_vars => PromptIsCurrent'
<1> SUFFICES ASSUME TypeInv, PromptIsCurrent, [Next]_vars
             PROVE  PromptIsCurrent'
  OBVIOUS
<1>1. CASE UNCHANGED flow /\ (at' = "llm" => at = "llm")
  BY <1>1 DEF PromptIsCurrent, flow
<1>2. CASE RoundStarts
  BY <1>2 DEF RoundStarts, PromptIsCurrent
<1>3. ASSUME NEW name, RunsTool(name)
      PROVE  PromptIsCurrent'
  BY <1>3 DEF RunsTool, PromptIsCurrent
<1>4. CASE UNCHANGED vars
  BY <1>4 DEF vars, reply, flow, PromptIsCurrent
<1> QED
  BY <1>1, <1>2, <1>3, <1>4, FlowEffect

\* In whatever round or attempt, the LLM is offered the tools of the node that the
\* call is in by then, and told of that node and of all that was collected
\* (agent.py:290-296, prompts.py:78-82).
THEOREM LlmKnowsTheNode == Spec => []PromptIsCurrent
<1>1. Init => PromptIsCurrent
  BY DEF Init, PromptIsCurrent
<1> QED
  BY TypeInit, TypeStep, <1>1, PromptStep, PTL DEF Spec

\* The tools offered in a round stay what they were at its start, while its calls
\* move the call on: a reservation is offered only after a check has left the
\* first node, to which no transition leads back.
FlowInv ==
    /\ "make_reservation" \in tools_schemas => current_node # "booking"
    /\ current_node = "farewell" => ending
    /\ ReservationsFollowTheFlow

LEMMA FlowStep == TypeInv /\ FlowInv /\ [Next]_vars => FlowInv'
<1> SUFFICES ASSUME TypeInv, FlowInv, [Next]_vars
             PROVE  FlowInv'
  OBVIOUS
<1>0. FlowTypes
  BY DEF TypeInv
<1>1. CASE UNCHANGED flow
  BY <1>1 DEF FlowInv, flow, ReservationsFollowTheFlow
<1>2. CASE RoundStarts
  <2>1. "make_reservation" \in NodeTools[current_node] => current_node # "booking"
    BY DEF NodeTools
  <2> QED
    BY <1>2, <2>1 DEF RoundStarts, FlowInv, ReservationsFollowTheFlow
<1>3. ASSUME NEW name, RunsTool(name)
      PROVE  FlowInv'
  <2>1. CASE name \in DOMAIN Transitions[current_node]
    <3>1. /\ current_node' = Transitions[current_node][name]
          /\ ending' = (ending \/ current_node' \in Terminal)
          /\ tools_schemas' = tools_schemas
          /\ strayed' = (strayed \/ name \notin tools_schemas)
          /\ "name" \in slots' => "name" \in slots \/ name = "make_reservation"
      BY <1>3, <2>1, Zenon DEF RunsTool
    <3>2. \/ current_node' = "confirm" /\ current_node # "farewell"
          \/ current_node' = "farewell" /\ name = "make_reservation"
      BY <1>0, <2>1, <3>1, TransitionNodes DEF FlowTypes
    <3>3. current_node' # "booking" /\ (current_node' = "farewell" => ending')
      BY <3>1, <3>2 DEF Terminal
    <3>4. ASSUME "name" \in slots', ~strayed'
          PROVE  current_node' = "farewell"
      <4>1. ~strayed /\ name \in tools_schemas
        BY <3>1, <3>4, Zenon
      <4>2. CASE "name" \in slots
        <5>1. current_node = "farewell"
          BY <4>1, <4>2 DEF FlowInv, ReservationsFollowTheFlow
        <5> QED
          BY <3>2, <5>1
      <4>3. CASE name = "make_reservation"
        <5>1. current_node # "booking"
          BY <4>1, <4>3 DEF FlowInv
        <5>2. Transitions[current_node][name] = "farewell"
          BY <1>0, <2>1, <4>3, <5>1 DEF FlowTypes, Node, Transitions
        <5> QED
          BY <3>1, <5>2
      <4> QED
        BY <3>1, <3>4, <4>2, <4>3
    <3> QED
      BY <3>3, <3>4 DEF FlowInv, ReservationsFollowTheFlow
  <2>2. CASE name \notin DOMAIN Transitions[current_node]
    <3>1. /\ UNCHANGED <<current_node, ending, tools_schemas>>
          /\ strayed' = (strayed \/ name \notin tools_schemas)
          /\ "name" \in slots' => "name" \in slots \/ name = "make_reservation"
      BY <1>3, <2>2, Zenon DEF RunsTool
    <3>2. ASSUME "name" \in slots', ~strayed'
          PROVE  current_node = "farewell" /\ ending
      <4>1. ~strayed /\ name \in tools_schemas
        BY <3>1, <3>2, Zenon
      <4>2. CASE "name" \in slots
        BY <4>1, <4>2 DEF FlowInv, ReservationsFollowTheFlow
      <4>3. CASE name = "make_reservation"
        <5>1. current_node # "booking"
          BY <4>1, <4>3 DEF FlowInv
        <5>2. current_node # "confirm"
          BY <2>2, <4>3 DEF Transitions
        <5>3. current_node = "farewell"
          BY <1>0, <5>1, <5>2 DEF FlowTypes, Node
        <5> QED
          BY <5>3 DEF FlowInv
      <4> QED
        BY <3>1, <3>2, <4>2, <4>3
    <3> QED
      BY <3>1, <3>2 DEF FlowInv, ReservationsFollowTheFlow
  <2> QED
    BY <2>1, <2>2
<1>4. CASE UNCHANGED vars
  BY <1>1, <1>4 DEF vars
<1> QED
  BY <1>1, <1>2, <1>3, <1>4, FlowEffect

\* However the LLM batches its calls, a reservation that it makes with an offered
\* tool leads to the farewell, and the conversation ends (prompts.py:139-143).
THEOREM ReservationsLeadToFarewell == Spec => []ReservationsFollowTheFlow
<1>1. Init => FlowInv
  BY DEF Init, FlowInv, ReservationsFollowTheFlow, InitialNode
<1>2. FlowInv => ReservationsFollowTheFlow
  BY DEF FlowInv
<1> QED
  BY TypeInit, TypeStep, <1>1, <1>2, FlowStep, PTL DEF Spec

-----------------------------------------------------------------------------
(***************************************************************************)
(* The budget.                                                             *)
(***************************************************************************)

\* A budget that is announced is gone, and no reply asks the LLM or runs tools any
\* more; and what a request was let through with has not grown while nothing of it
\* was passed on, so that its further attempts are within the budget too.
BudgetInv ==
    /\ announcements = IF announced THEN 1 ELSE 0
    /\ announced => Exhausted(chars) /\ at \notin {"llm", "tool"}
    /\ at = "llm" /\ stream.at \in {"open", "read", "backoff"} /\ stream.text = <<>>
          => ~Exhausted(chars)

LEMMA BudgetStep == TypeInv /\ BudgetInv /\ [Next]_vars => BudgetInv'
<1> SUFFICES ASSUME TypeInv, BudgetInv, [Next]_vars
             PROVE  BudgetInv'
  OBVIOUS
<1>0. announced \in BOOLEAN /\ StreamInv
  BY DEF TypeInv, BudgetTypes, ReplyTypes
<1>1. CASE UNCHANGED vars
  BY <1>1 DEF vars, reply, budget, BudgetInv, Exhausted
<1>2. CASE UNCHANGED budget /\ at' # "llm" /\ (at' = "tool" => at \in {"llm", "tool"})
  BY <1>2 DEF budget, BudgetInv, Exhausted
<1>3. ASSUME at = "llm", at' = "llm", StreamStep, UNCHANGED <<announced, announcements>>,
             stream'.at \in {"open", "read", "backoff"} /\ stream'.text = <<>> => chars' = chars
      PROVE  BudgetInv'
  <2>1. ~announced
    BY <1>3 DEF BudgetInv
  <2>2. ASSUME stream'.at \in {"open", "read", "backoff"}, stream'.text = <<>>
        PROVE  ~Exhausted(chars')
    <3>1. stream.at \in {"open", "read", "backoff"} /\ stream.text = <<>>
      BY <1>0, <1>3, <2>2, StreamCounts, Zenon
    <3>2. ~Exhausted(chars)
      BY <1>3, <3>1, Zenon DEF BudgetInv
    <3> QED
      BY <1>3, <2>2, <3>2
  <2> QED
    BY <1>3, <2>1, <2>2 DEF BudgetInv
<1>4. ASSUME at = "tool" \/ (at = "new" /\ ~(Exhausted(chars) /\ announced))
      PROVE  ~announced /\ announcements = 0
  BY <1>0, <1>4 DEF BudgetInv
<1>5. ASSUME at = "tool" \/ (at = "new" /\ ~(Exhausted(chars) /\ announced)),
             at' = "llm", ~Exhausted(chars'), UNCHANGED <<announced, announcements>>
      PROVE  BudgetInv'
  BY <1>4, <1>5 DEF BudgetInv
<1>6. ASSUME at = "tool" \/ (at = "new" /\ ~(Exhausted(chars) /\ announced)),
             at' = "speak", Exhausted(chars'), announced' = TRUE,
             announcements' = announcements + 1
      PROVE  BudgetInv'
  BY <1>4, <1>6 DEF BudgetInv
<1> QED
  BY <1>1, <1>2, <1>3, <1>5, <1>6, BudgetEffect

\* The budget is announced at most once in a call, no LLM is asked after that, and
\* none with a prompt that exhausts it, in no round and no attempt
\* (agent.py:310-321, 343-354).
THEOREM BudgetHolds == Spec => []BudgetIsKept
<1>1. Init => BudgetInv
  BY DEF Init, BudgetInv
<1>2. TypeInv /\ BudgetInv => BudgetIsKept
  <2> SUFFICES ASSUME TypeInv, BudgetInv
               PROVE  BudgetIsKept
    OBVIOUS
  <2>1. stream.at = "open" => stream.text = <<>>
    BY DEF TypeInv, ReplyTypes, StreamInv, RetryInv
  <2> QED
    BY <2>1 DEF BudgetInv, BudgetIsKept
<1> QED
  BY TypeInit, TypeStep, <1>1, <1>2, BudgetStep, PTL DEF Spec

-----------------------------------------------------------------------------
(***************************************************************************)
(* The replies implement Reply.                                            *)
(***************************************************************************)

ReplyRounds == IF Stage = "asking" THEN tool_rounds ELSE 0

LEMMA StageIs ==
    ASSUME TypeInv
    PROVE  /\ at \in {"idle", "new"} => Stage = "none"
           /\ at \in {"llm", "tool"} => Stage = "asking"
           /\ at = "speak" => Stage = IF saying = "apology" THEN "apologising" ELSE "speaking"
           /\ at \in {"hangup", "over"} => Stage = "over"
  BY DEF Stage, TypeInv, ReplyTypes

LEMMA StageIsNext ==
    ASSUME TypeInv'
    PROVE  /\ at' \in {"idle", "new"} => Stage' = "none"
           /\ at' \in {"llm", "tool"} => Stage' = "asking"
           /\ at' = "speak" => Stage' = IF saying' = "apology" THEN "apologising" ELSE "speaking"
           /\ at' \in {"hangup", "over"} => Stage' = "over"
  BY DEF Stage, TypeInv, ReplyTypes

LEMMA ReplySteps ==
    TypeInv /\ TypeInv' /\ [Next]_vars
        => Replies!RepliesNext \/ UNCHANGED <<Stage, ReplyRounds>>
<1> SUFFICES ASSUME TypeInv, TypeInv', [Next]_vars
             PROVE  Replies!RepliesNext \/ UNCHANGED <<Stage, ReplyRounds>>
  OBVIOUS
<1> USE StageIs, StageIsNext DEF reply
<1>1. CASE ReplyStarts
  <2>1. at = "new" /\ tool_rounds' = 0 /\ (AskLlm \/ AnnounceBudget)
    BY <1>1 DEF ReplyStarts
  <2>2. at' = "llm" \/ (at' = "speak" /\ saying' = "budget")
    BY <2>1 DEF AskLlm, AnnounceBudget, Say
  <2>3. CASE at' = "llm"
    <3>1. Replies!Ask
      BY <2>1, <2>3 DEF Replies!Ask, ReplyRounds
    <3> QED
      BY <3>1 DEF Replies!RepliesNext
  <2>4. CASE at' = "speak" /\ saying' = "budget"
    <3>1. Replies!Speak
      BY <2>1, <2>4 DEF Replies!Speak, ReplyRounds
    <3> QED
      BY <3>1 DEF Replies!RepliesNext
  <2> QED
    BY <2>2, <2>3, <2>4
<1>2. CASE NextRound
  <2>1. at = "tool" /\ tool_rounds' = tool_rounds /\ (AskLlm \/ AnnounceBudget)
    BY <1>2 DEF NextRound
  <2>2. at' = "llm" \/ (at' = "speak" /\ saying' = "budget")
    BY <2>1 DEF AskLlm, AnnounceBudget, Say
  <2>3. CASE at' = "llm"
    BY <2>1, <2>3 DEF ReplyRounds
  <2>4. CASE at' = "speak" /\ saying' = "budget"
    <3>1. Replies!Speak
      BY <2>1, <2>4 DEF Replies!Speak, ReplyRounds
    <3> QED
      BY <3>1 DEF Replies!RepliesNext
  <2> QED
    BY <2>2, <2>3, <2>4
<1>3. CASE LlmAnswers \/ LlmCallsTooManyTools
  <2>1. at = "llm" /\ at' = "speak" /\ saying' = "reply"
    BY <1>3 DEF LlmAnswers, LlmCallsTooManyTools, Say
  <2>2. Replies!Speak
    BY <2>1 DEF Replies!Speak, ReplyRounds
  <2> QED
    BY <2>2 DEF Replies!RepliesNext
<1>4. CASE LlmFails \/ ToolRaises \/ (SpeakFails /\ saying # "apology")
  <2>1. /\ at \in {"llm", "tool"} \/ (at = "speak" /\ saying # "apology")
        /\ at' = "speak" /\ saying' = "apology"
    BY <1>4 DEF LlmFails, ToolRaises, SpeakFails, Say
  <2>2. Replies!Apologise
    BY <2>1 DEF Replies!Apologise, ReplyRounds
  <2> QED
    BY <2>2 DEF Replies!RepliesNext
<1>5. CASE LlmIsSilent \/ SpeakEnds \/ ReplySuperseded \/ (SpeakFails /\ saying = "apology")
           \/ BargeIn
  <2>1. at \in {"llm", "tool", "speak"} /\ at' \in {"idle", "hangup", "over"}
    BY <1>5 DEF LlmIsSilent, SpeakEnds, ReplySuperseded, SpeakFails, BargeIn, Finish
  <2>2. Stage # "over" /\ Stage' \in {"none", "over"}
    BY <2>1
  <2>3. Replies!End
    BY <2>2 DEF Replies!End, ReplyRounds
  <2> QED
    BY <2>3 DEF Replies!RepliesNext
<1>6. CASE TurnArrives \/ ReplySkipped \/ HangupReturns
  <2>1. \/ at \in {"idle", "new"} /\ at' \in {"idle", "new"}
        \/ at = "hangup" /\ at' = "over"
    BY <1>6 DEF TurnArrives, ReplySkipped, HangupReturns
  <2> QED
    BY <2>1 DEF ReplyRounds
<1>7. CASE LlmCallsTools
  <2>1. /\ at = "llm" /\ at' = "tool"
        /\ tool_rounds < MaxToolRounds /\ tool_rounds' = tool_rounds + 1
    BY <1>7 DEF LlmCallsTools
  <2>2. Replies!AskAgain
    BY <2>1 DEF Replies!AskAgain, ReplyRounds
  <2> QED
    BY <2>2 DEF Replies!RepliesNext
<1>8. CASE LlmStreams \/ ToolRuns
  <2>1. at \in {"llm", "tool"} /\ UNCHANGED <<at, tool_rounds>>
    BY <1>8 DEF LlmStreams, ToolRuns
  <2> QED
    BY <2>1 DEF ReplyRounds
<1>9. ASSUME Over \/ UNCHANGED vars
      PROVE  UNCHANGED <<Stage, ReplyRounds>>
  BY <1>9 DEF Over, vars, Stage, ReplyRounds
<1> QED
  BY <1>1, <1>2, <1>3, <1>4, <1>5, <1>6, <1>7, <1>8, <1>9 DEF Next, ReplyStep, Caller

\* Whatever the LLM, its tools and the speak commands do, a reply stays within its
\* rounds, speaks once, and apologises at most after that (agent.py:343-439).
THEOREM LoopImplementsReply == Spec => ImplementsReply
<1>1. Init => Replies!InitReply
  BY DEF Init, Stage, Replies!InitReply
<1>2. TypeInv /\ TypeInv' /\ [Next]_vars => [Replies!RepliesNext]_<<Stage, ReplyRounds>>
  BY ReplySteps
<1>3. TypeInv /\ TypeInv' /\ [Next]_vars
         => [Replies!RepliesNext]_<<Stage, IF Stage = "asking" THEN tool_rounds ELSE 0>>
  BY <1>2 DEF ReplyRounds
<1> QED
  BY TypeInit, TypeStep, <1>1, <1>3, PTL DEF Spec, ImplementsReply, Replies!RepliesSpec

-----------------------------------------------------------------------------
(***************************************************************************)
(* The tool calls in the history.                                          *)
(***************************************************************************)

\* The result in message i has its call before it, with nothing but results between
\* them.
BehindItsCall(m, i) ==
    LET k == m[i].turn[3]
    IN  /\ k \in 1..(i - 1)
        /\ m[i - k].role = "tool_calls"
        /\ SubSeq(m[i - k].turn, 1, 2) = SubSeq(m[i].turn, 1, 2)
        /\ \A j \in (i - k + 1)..i : m[j].role = "tool"

Grounded(m) == \A i \in 1..Len(m) : m[i].role = "tool" => BehindItsCall(m, i)

\* No message is of a later turn than t, and one with calls tells how many.
Dated(m, t) ==
    \A i \in 1..Len(m) :
        /\ m[i].turn[1] \in 0..t
        /\ m[i].role = "tool_calls" => m[i].turn[3] \in Nat

\* s is m without its first d messages.
Suffix(m, d, s) ==
    /\ d \in 0..Len(m)
    /\ Len(s) = Len(m) - d
    /\ \A i \in 1..Len(s) : s[i] = m[d + i]

\* A history that is cut behind a message of the caller keeps no result without its
\* call.
LEMMA GroundedSuffix ==
    ASSUME NEW m \in Seq(Message), NEW d, NEW s \in Seq(Message), Suffix(m, d, s), Grounded(m),
           \/ d = 0
           \/ m[d].role = "user"
           \/ \A i \in (d + 1)..Len(m) : m[i].role = "user"
    PROVE  Grounded(s)
<1> SUFFICES ASSUME NEW i \in 1..Len(s), s[i].role = "tool"
             PROVE  BehindItsCall(s, i)
  BY DEF Grounded
<1>1. /\ d \in Nat /\ Len(m) \in Nat /\ Len(s) \in Nat /\ d <= Len(m)
      /\ Len(s) = Len(m) - d
      /\ \A j \in 1..Len(s) : s[j] = m[d + j]
  BY DEF Suffix
<1>2. PICK c \in 1..Len(m) : c = d + i /\ s[i] = m[c] /\ i \in Nat
  BY <1>1
<1> DEFINE k == m[c].turn[3]
<1>3. /\ k \in 1..(c - 1)
      /\ m[c - k].role = "tool_calls"
      /\ SubSeq(m[c - k].turn, 1, 2) = SubSeq(m[c].turn, 1, 2)
      /\ \A j \in (c - k + 1)..c : m[j].role = "tool"
  <2>1. BehindItsCall(m, c)
    BY <1>2 DEF Grounded
  <2> QED
    BY <2>1, Zenon DEF BehindItsCall
<1> HIDE DEF k
<1>4. k \in 1..(i - 1)
  <2>1. SUFFICES ASSUME ~(k <= i - 1)
                 PROVE  FALSE
    BY <1>1, <1>2, <1>3
  <2>2. d # 0
    BY <1>1, <1>2, <1>3, <2>1
  <2>3. m[c].role # "user"
    BY <1>2
  <2>4. d = c - k \/ d \in (c - k + 1)..c
    BY <1>1, <1>2, <1>3, <2>1
  <2>5. m[d].role # "user"
    BY <1>3, <2>4
  <2>6. c \in (d + 1)..Len(m)
    BY <1>1, <1>2
  <2> QED
    BY <2>2, <2>3, <2>5, <2>6
<1>5. s[i - k] = m[c - k]
  <2>1. i - k \in 1..Len(s) /\ d + (i - k) = c - k
    BY <1>1, <1>2, <1>4
  <2> QED
    BY <1>1, <2>1
<1>6. ASSUME NEW j \in (i - k + 1)..i
      PROVE  s[j].role = "tool"
  <2>1. j \in 1..Len(s) /\ d + j \in (c - k + 1)..c
    BY <1>1, <1>2, <1>4
  <2> QED
    BY <1>1, <1>3, <2>1
<1> QED
  BY <1>2, <1>3, <1>4, <1>5, <1>6, Zenon DEF BehindItsCall, k

LEMMA AppendIs ==
    ASSUME NEW m \in Seq(Message), NEW x \in Message
    PROVE  /\ Append(m, x) \in Seq(Message)
           /\ Len(m) \in Nat
           /\ Len(Append(m, x)) = Len(m) + 1
           /\ Append(m, x)[Len(m) + 1] = x
           /\ \A i \in 1..Len(m) : Append(m, x)[i] = m[i]
  OBVIOUS

\* A message that is no result leaves the results where they are.
LEMMA GroundedAppend ==
    ASSUME NEW m \in Seq(Message), NEW x \in Message, Grounded(m), x.role # "tool"
    PROVE  Grounded(Append(m, x))
<1> DEFINE a == Append(m, x)
<1>1. /\ Len(m) \in Nat /\ Len(a) = Len(m) + 1 /\ a[Len(m) + 1] = x
      /\ \A i \in 1..Len(m) : a[i] = m[i]
  BY AppendIs, Zenon
<1> HIDE DEF a
<1> SUFFICES ASSUME NEW i \in 1..Len(a), a[i].role = "tool"
             PROVE  BehindItsCall(a, i)
  BY DEF Grounded, a
<1>2. i \in 1..Len(m) /\ a[i] = m[i]
  BY <1>1
<1> DEFINE k == m[i].turn[3]
<1>3. /\ k \in 1..(i - 1)
      /\ m[i - k].role = "tool_calls"
      /\ SubSeq(m[i - k].turn, 1, 2) = SubSeq(m[i].turn, 1, 2)
      /\ \A j \in (i - k + 1)..i : m[j].role = "tool"
  BY <1>2, Zenon DEF Grounded, BehindItsCall
<1> HIDE DEF k
<1>4. i - k \in 1..Len(m) /\ (i - k + 1)..i \subseteq 1..Len(m)
  BY <1>1, <1>2, <1>3
<1>5. a[i - k] = m[i - k] /\ \A j \in (i - k + 1)..i : a[j].role = "tool"
  BY <1>1, <1>3, <1>4
<1> QED
  BY <1>2, <1>3, <1>5, Zenon DEF BehindItsCall, k

\* What was answered in full stays so behind a cut, and when a message is added.
LEMMA AnsweredSuffix ==
    ASSUME NEW m, NEW d, NEW s, Len(m) \in Nat, Suffix(m, d, s),
           NEW i \in 1..Len(s), s[i].turn[3] \in Nat, AnsweredInFull(m, d + i)
    PROVE  AnsweredInFull(s, i)
<1>1. /\ d \in Nat /\ Len(s) = Len(m) - d /\ s[i] = m[d + i] /\ i \in Nat
      /\ \A j \in 1..Len(s) : s[j] = m[d + j]
  BY DEF Suffix
<1>2. ASSUME NEW k \in 1..s[i].turn[3]
      PROVE  /\ i + k <= Len(s)
             /\ s[i + k] = [role |-> "tool", turn |-> <<s[i].turn[1], s[i].turn[2], k>>]
  <2>1. k \in Nat /\ k >= 1
    BY <1>2
  <2>2. /\ d + i + k <= Len(m)
        /\ m[d + i + k] = [role |-> "tool", turn |-> <<s[i].turn[1], s[i].turn[2], k>>]
    BY <1>1, Zenon DEF AnsweredInFull
  <2>3. i + k \in 1..Len(s) /\ d + (i + k) = d + i + k
    BY <1>1, <2>1, <2>2
  <2>4. s[i + k] = m[d + i + k]
    BY <1>1, <2>3
  <2> QED
    BY <2>2, <2>3, <2>4
<1> QED
  BY <1>2 DEF AnsweredInFull

LEMMA AnsweredAppend ==
    ASSUME NEW m \in Seq(Message), NEW x \in Message,
           NEW i \in 1..Len(m), m[i].turn[3] \in Nat, AnsweredInFull(m, i)
    PROVE  AnsweredInFull(Append(m, x), i)
<1> DEFINE a == Append(m, x)
<1>1. /\ Len(m) \in Nat /\ Len(a) = Len(m) + 1
      /\ \A j \in 1..Len(m) : a[j] = m[j]
  BY AppendIs, Zenon
<1> HIDE DEF a
<1>2. a[i] = m[i]
  BY <1>1
<1>3. ASSUME NEW k \in 1..m[i].turn[3]
      PROVE  /\ i + k <= Len(a)
             /\ a[i + k] = [role |-> "tool", turn |-> <<m[i].turn[1], m[i].turn[2], k>>]
  <2>1. k \in Nat /\ k >= 1
    BY <1>3
  <2>2. /\ i + k <= Len(m)
        /\ m[i + k] = [role |-> "tool", turn |-> <<m[i].turn[1], m[i].turn[2], k>>]
    BY Zenon DEF AnsweredInFull
  <2>3. i + k \in 1..Len(m)
    BY <1>1, <2>1, <2>2
  <2> QED
    BY <1>1, <2>2, <2>3
<1> QED
  BY <1>2, <1>3 DEF AnsweredInFull, a

\* Each message of s but the last is one of m, answered in full if it was there.
Keeps(m, s) ==
    \A i \in 1..(Len(s) - 1) :
        \E h \in 1..Len(m) :
            /\ s[i] = m[h]
            /\ m[h].turn[3] \in Nat /\ AnsweredInFull(m, h) => AnsweredInFull(s, i)

\* s is m without some of its first messages and with x behind it.
EndsIn(m, s, x) ==
    /\ Grounded(s)
    /\ Keeps(m, s)
    /\ Len(s) \in Nat \ {0}
    /\ s[Len(s)] = x

\* Whatever is trimmed when a turn is added, the history stays grounded, and what was
\* answered in full stays so.
LEMMA AddTurnHistory ==
    ASSUME NEW m \in Seq(Message), NEW role \in Role, role # "tool", NEW id \in Seq(Nat),
           Grounded(m)
    PROVE  EndsIn(m, AddTurn(m, role, id), [role |-> role, turn |-> id])
<1> DEFINE s == AddTurn(m, role, id)
           x == [role |-> role, turn |-> id]
           a == Append(m, x)
           d == Popped(a)
<1>1. x \in Message /\ x.role = role
  BY DEF Message
<1>2. s = Trimmed(a)
  BY DEF AddTurn
<1> HIDE DEF x
<1>3. /\ a \in Seq(Message) /\ Len(m) \in Nat /\ Len(a) = Len(m) + 1 /\ a[Len(m) + 1] = x
      /\ \A i \in 1..Len(m) : a[i] = m[i]
  BY <1>1, AppendIs, Zenon
<1>4. Grounded(a)
  BY <1>1, GroundedAppend, Zenon
<1> HIDE DEF a, s
<1>5. /\ a # <<>>
      /\ d \in 0..Len(a)
      /\ s \in Seq(Message)
      /\ Len(s) = Len(a) - d
      /\ \A i \in 1..Len(s) : s[i] = a[d + i]
  <2>1. a # <<>>
    <3>1. Len(<<>>) = 0 /\ Len(a) # 0
      BY <1>3
    <3> QED
      BY <3>1, Zenon
  <2>2. d \in 0..Len(a)
    BY <1>3, PoppedIsLeast, Zenon
  <2>3. /\ Trimmed(a) \in Seq(Message)
        /\ Len(Trimmed(a)) = Len(a) - d
        /\ \A i \in 1..Len(Trimmed(a)) : Trimmed(a)[i] = a[d + i]
    BY <1>3, TrimmedType, Zenon
  <2> HIDE DEF d
  <2> QED
    BY <1>2, <2>1, <2>2, <2>3, Zenon
<1>6. s # <<>> /\ s[Len(s)] = a[Len(a)]
  BY <1>2, <1>3, <1>5, TrimmedLast, Zenon
<1>7. \/ d = 0
      \/ a[d].role = "user"
      \/ \A i \in (d + 1)..Len(a) : a[i].role = "user"
  BY <1>3, TrimmedAtUser, Zenon
<1> HIDE DEF d
<1>8. Suffix(a, d, s)
  BY <1>5, Zenon DEF Suffix
<1>9. Grounded(s)
  BY <1>3, <1>4, <1>5, <1>7, <1>8, GroundedSuffix, Zenon
<1>10. Len(s) \in Nat \ {0}
  BY <1>5, <1>6
<1>11. ASSUME NEW i \in 1..(Len(s) - 1)
       PROVE  \E h \in 1..Len(m) :
                 /\ s[i] = m[h]
                 /\ m[h].turn[3] \in Nat /\ AnsweredInFull(m, h) => AnsweredInFull(s, i)
  <2>1. PICK h \in 1..Len(m) : h = d + i
    BY <1>3, <1>5, <1>10
  <2>2. i \in 1..Len(s)
    BY <1>10
  <2>3. s[i] = a[h] /\ a[h] = m[h]
    BY <1>3, <1>5, <2>1, <2>2
  <2>4. ASSUME m[h].turn[3] \in Nat, AnsweredInFull(m, h)
        PROVE  AnsweredInFull(s, i)
    <3>1. AnsweredInFull(a, h)
      BY <1>1, <2>4, AnsweredAppend, Zenon DEF a
    <3>2. s[i].turn[3] \in Nat
      BY <2>3, <2>4
    <3>3. AnsweredInFull(a, d + i) /\ Len(a) \in Nat
      BY <1>3, <2>1, <3>1
    <3> QED
      BY <1>8, <2>2, <3>2, <3>3, AnsweredSuffix, Zenon
  <2> QED
    BY <2>3, <2>4
<1>12. Keeps(m, s)
  BY <1>11, Zenon DEF Keeps
<1>13. s[Len(s)] = x
  BY <1>3, <1>6
<1> QED
  BY <1>9, <1>10, <1>12, <1>13, Zenon DEF EndsIn, s, x

\* The result of the next of the calls whose message is p.
LEMMA GroundedResult ==
    ASSUME NEW m \in Seq(Message), NEW id \in Seq(Nat), NEW p \in 1..Len(m), Grounded(m),
           id[3] = Len(m) + 1 - p,
           m[p].role = "tool_calls",
           SubSeq(m[p].turn, 1, 2) = SubSeq(id, 1, 2),
           \A j \in (p + 1)..Len(m) : m[j].role = "tool"
    PROVE  Grounded(AddToolResult(m, id))
<1> DEFINE x == [role |-> "tool", turn |-> id]
           a == Append(m, x)
<1>1. x \in Message /\ x.role = "tool" /\ x.turn = id
  BY DEF Message, Role
<1> HIDE DEF x
<1>2. /\ Len(m) \in Nat /\ Len(a) = Len(m) + 1 /\ a[Len(m) + 1] = x
      /\ \A i \in 1..Len(m) : a[i] = m[i]
  BY <1>1, AppendIs, Zenon
<1> HIDE DEF a
<1> SUFFICES ASSUME NEW i \in 1..Len(a), a[i].role = "tool"
             PROVE  BehindItsCall(a, i)
  BY DEF Grounded, AddToolResult, a, x
<1>3. CASE i = Len(m) + 1
  <2>1. a[i].turn[3] = Len(m) + 1 - p /\ a[i].turn = id
    BY <1>1, <1>2, <1>3
  <2> DEFINE k == a[i].turn[3]
  <2>2. k \in 1..(i - 1) /\ i - k = p
    BY <1>2, <1>3, <2>1
  <2> HIDE DEF k
  <2>3. a[i - k] = m[p]
    BY <1>2, <2>2
  <2>4. ASSUME NEW j \in (i - k + 1)..i
        PROVE  a[j].role = "tool"
    <3>1. CASE j = i
      BY <3>1
    <3>2. CASE j # i
      <4>1. j \in (p + 1)..Len(m) /\ j \in 1..Len(m)
        BY <1>2, <1>3, <2>2, <3>2
      <4> QED
        BY <1>2, <4>1
    <3> QED
      BY <3>1, <3>2
  <2>5. a[i - k].role = "tool_calls" /\ SubSeq(a[i - k].turn, 1, 2) = SubSeq(a[i].turn, 1, 2)
    BY <2>1, <2>3
  <2> QED
    BY <2>2, <2>4, <2>5, Zenon DEF BehindItsCall, k
<1>4. CASE i # Len(m) + 1
  <2>1. i \in 1..Len(m) /\ a[i] = m[i]
    <3> DEFINE n == Len(m)
               c == Len(a)
    <3>1. n \in Nat /\ c = n + 1 /\ i \in 1..c /\ i # n + 1
      BY <1>2, <1>4
    <3> HIDE DEF n, c
    <3>2. i \in 1..n
      BY <3>1
    <3> QED
      BY <1>2, <3>2 DEF n
  <2> DEFINE k == m[i].turn[3]
  <2>2. /\ k \in 1..(i - 1)
        /\ m[i - k].role = "tool_calls"
        /\ SubSeq(m[i - k].turn, 1, 2) = SubSeq(m[i].turn, 1, 2)
        /\ \A j \in (i - k + 1)..i : m[j].role = "tool"
    BY <2>1, Zenon DEF Grounded, BehindItsCall
  <2> HIDE DEF k
  <2>3. i - k \in 1..Len(m) /\ (i - k + 1)..i \subseteq 1..Len(m)
    BY <1>2, <2>1, <2>2
  <2>4. a[i - k] = m[i - k] /\ \A j \in (i - k + 1)..i : a[j].role = "tool"
    BY <1>2, <2>2, <2>3
  <2> QED
    BY <2>1, <2>2, <2>4, Zenon DEF BehindItsCall, k
<1> QED
  BY <1>3, <1>4

LEMMA DatedKeeps ==
    ASSUME NEW m, NEW s, NEW t \in Nat, NEW u \in Nat, t <= u, Dated(m, t),
           Keeps(m, s), Len(s) \in Nat \ {0},
           s[Len(s)].turn[1] \in 0..u,
           s[Len(s)].role = "tool_calls" => s[Len(s)].turn[3] \in Nat
    PROVE  Dated(s, u)
<1> SUFFICES ASSUME NEW i \in 1..Len(s)
             PROVE  /\ s[i].turn[1] \in 0..u
                    /\ s[i].role = "tool_calls" => s[i].turn[3] \in Nat
  BY DEF Dated
<1>1. CASE i = Len(s)
  BY <1>1
<1>2. CASE i # Len(s)
  <2>1. i \in 1..(Len(s) - 1)
    BY <1>2
  <2>2. PICK h \in 1..Len(m) : s[i] = m[h]
    BY <2>1, Zenon DEF Keeps
  <2>3. m[h].turn[1] \in 0..t /\ (m[h].role = "tool_calls" => m[h].turn[3] \in Nat)
    BY DEF Dated
  <2>4. m[h].turn[1] \in 0..u
    BY <2>3
  <2> QED
    BY <2>2, <2>3, <2>4
<1> QED
  BY <1>1, <1>2

\* While the tools of a round run, p is the message with their calls: those that were
\* run have their results behind it.
RunsCallsOf(p) ==
    /\ p + calls.run = Len(messages)
    /\ messages[p] = [role |-> "tool_calls", turn |-> <<turn, tool_rounds, Len(calls.all)>>]
    /\ \A j \in 1..calls.run :
          messages[p + j] = [role |-> "tool", turn |-> <<turn, tool_rounds, j>>]
    /\ \A i \in 1..Len(messages) :
          AsksOfTurn(messages, i) /\ i # p => AnsweredInFull(messages, i)

\* What the two properties of the history rest on: a reply that was cut short leaves
\* calls without results, but only in turns that are over.
HistoryInv ==
    /\ Grounded(messages)
    /\ Dated(messages, turn)
    /\ at = "new" => \A i \in 1..Len(messages) : ~AsksOfTurn(messages, i)
    /\ at = "llm" => \A i \in 1..Len(messages) :
                        AsksOfTurn(messages, i) => AnsweredInFull(messages, i)
    /\ at = "tool" => \E p \in 1..Len(messages) : RunsCallsOf(p)

LEMMA HistorySame ==
    ASSUME TypeInv, HistoryInv, UNCHANGED <<messages, turn>>,
           at' = "new" => at = "new",
           at' = "tool" => at = "tool" /\ UNCHANGED <<calls, tool_rounds>>,
           at' = "llm" => \/ at = "new"
                          \/ at = "llm"
                          \/ at = "tool" /\ calls.run = Len(calls.all)
    PROVE  HistoryInv'
<1>1. Grounded(messages)' /\ Dated(messages, turn)'
  BY DEF HistoryInv, Grounded, BehindItsCall, Dated
<1>2. \A i : /\ AsksOfTurn(messages, i)' <=> AsksOfTurn(messages, i)
             /\ AnsweredInFull(messages, i)' <=> AnsweredInFull(messages, i)
  BY DEF AsksOfTurn, AnsweredInFull
<1>3. at' = "new" => \A i \in 1..Len(messages') : ~AsksOfTurn(messages, i)'
  BY <1>2, Zenon DEF HistoryInv
<1>4. ASSUME at' = "tool"
      PROVE  \E p \in 1..Len(messages') : RunsCallsOf(p)'
  <2>1. PICK p \in 1..Len(messages) : RunsCallsOf(p)
    BY <1>4 DEF HistoryInv
  <2>2. RunsCallsOf(p)'
    BY <1>2, <1>4, <2>1 DEF RunsCallsOf
  <2> QED
    BY <2>2
<1>5. ASSUME at' = "llm", NEW i \in 1..Len(messages'), AsksOfTurn(messages, i)'
      PROVE  AnsweredInFull(messages, i)'
  <2>1. AsksOfTurn(messages, i) /\ i \in 1..Len(messages)
    BY <1>2, <1>5
  <2>2. CASE at = "new" \/ at = "llm"
    BY <1>2, <2>1, <2>2, Zenon DEF HistoryInv
  <2>3. CASE at = "tool" /\ calls.run = Len(calls.all)
    <3>1. PICK p \in 1..Len(messages) : RunsCallsOf(p)
      BY <2>3 DEF HistoryInv
    <3>2. CASE i # p
      BY <1>2, <2>1, <3>1, <3>2, Zenon DEF RunsCallsOf
    <3>3. CASE i = p
      <4> DEFINE id == messages[p].turn
      <4>1. /\ id = <<turn, tool_rounds, calls.run>>
            /\ p + calls.run = Len(messages)
            /\ \A j \in 1..calls.run :
                  messages[p + j] = [role |-> "tool", turn |-> <<turn, tool_rounds, j>>]
        BY <2>3, <3>1 DEF RunsCallsOf
      <4>2. calls.run \in Nat /\ p \in Nat
        BY DEF TypeInv, ReplyTypes
      <4>3. id[1] = turn /\ id[2] = tool_rounds /\ id[3] = calls.run
        BY <4>1
      <4> HIDE DEF id
      <4>4. ASSUME NEW k \in 1..id[3]
            PROVE  /\ p + k <= Len(messages)
                   /\ messages[p + k] = [role |-> "tool", turn |-> <<id[1], id[2], k>>]
        <5>1. k \in 1..calls.run /\ p + k <= p + calls.run
          BY <4>2, <4>3
        <5>2. messages[p + k] = [role |-> "tool", turn |-> <<turn, tool_rounds, k>>]
          BY <4>1, <5>1
        <5> QED
          BY <4>1, <4>3, <5>1, <5>2
      <4>5. AnsweredInFull(messages, p)
        BY <4>4, Zenon DEF AnsweredInFull, id
      <4> QED
        BY <1>2, <3>3, <4>5, Zenon
    <3> QED
      BY <3>2, <3>3
  <2> QED
    BY <1>5, <2>2, <2>3
<1> QED
  BY <1>1, <1>3, <1>4, <1>5, Zenon DEF HistoryInv

LEMMA HistoryTurnArrives == TypeInv /\ HistoryInv /\ TurnArrives => HistoryInv'
<1> SUFFICES ASSUME TypeInv, HistoryInv, TurnArrives
             PROVE  HistoryInv'
  OBVIOUS
<1> DEFINE s == messages'
           id == <<turn + 1>>
<1>1. turn' = turn + 1 /\ s = AddTurn(messages, "user", id) /\ at' = "new"
  BY DEF TurnArrives, reply
<1>2. turn \in Nat /\ messages \in Seq(Message) /\ Grounded(messages) /\ Dated(messages, turn)
  BY DEF TypeInv, HistoryTypes, HistoryInv
<1>3. "user" \in Role /\ "user" # "tool" /\ id \in Seq(Nat) /\ id[1] = turn + 1
  BY <1>2 DEF Role
<1> HIDE DEF s, id
<1>4. /\ Grounded(s) /\ Keeps(messages, s) /\ Len(s) \in Nat \ {0}
      /\ s[Len(s)] = [role |-> "user", turn |-> id]
  <2> DEFINE x == [role |-> "user", turn |-> id]
             added == AddTurn(messages, "user", id)
  <2>1. EndsIn(messages, added, x)
    BY <1>2, <1>3, AddTurnHistory, Zenon
  <2> HIDE DEF x, added
  <2>2. s = added
    BY <1>1, Zenon DEF added
  <2>3. EndsIn(messages, s, x)
    BY <2>1, <2>2
  <2> QED
    BY <2>3, Zenon DEF EndsIn, x
<1>5. s[Len(s)].role = "user" /\ s[Len(s)].turn[1] = turn + 1
  BY <1>3, <1>4
<1>6. Dated(s, turn + 1)
  <2>1. turn + 1 \in Nat /\ turn <= turn + 1 /\ turn + 1 \in 0..(turn + 1)
    BY <1>2
  <2>2. s[Len(s)].role # "tool_calls"
    BY <1>5
  <2> QED
    BY <1>2, <1>4, <1>5, <2>1, <2>2, DatedKeeps
<1>7. ASSUME NEW i \in 1..Len(s)
      PROVE  ~(s[i].role = "tool_calls" /\ s[i].turn[1] = turn + 1)
  <2>1. CASE i = Len(s)
    BY <1>5, <2>1
  <2>2. CASE i # Len(s)
    <3>1. i \in 1..(Len(s) - 1)
      BY <1>4, <2>2
    <3>2. PICK h \in 1..Len(messages) : s[i] = messages[h]
      BY <1>4, <3>1, Zenon DEF Keeps
    <3>3. messages[h].turn[1] \in 0..turn
      BY <1>2 DEF Dated
    <3> QED
      BY <1>2, <3>2, <3>3
  <2> QED
    BY <2>1, <2>2
<1> QED
  BY <1>1, <1>4, <1>6, <1>7 DEF HistoryInv, AsksOfTurn, s

LEMMA HistoryReplyEnds ==
    ASSUME TypeInv, HistoryInv, NEW role \in {"assistant", "interrupted"},
           messages' = AddTurn(messages, role, <<turn>>), turn' = turn,
           at' \in {"idle", "hangup", "over"}
    PROVE  HistoryInv'
<1> DEFINE s == messages'
           id == <<turn>>
<1>1. s = AddTurn(messages, role, id)
  OBVIOUS
<1>2. turn \in Nat /\ messages \in Seq(Message) /\ Grounded(messages) /\ Dated(messages, turn)
  BY DEF TypeInv, HistoryTypes, HistoryInv
<1>3. role \in Role /\ role # "tool" /\ role # "tool_calls" /\ id \in Seq(Nat) /\ id[1] = turn
  BY <1>2 DEF Role
<1> HIDE DEF s, id
<1>4. /\ Grounded(s) /\ Keeps(messages, s) /\ Len(s) \in Nat \ {0}
      /\ s[Len(s)] = [role |-> role, turn |-> id]
  <2> DEFINE x == [role |-> role, turn |-> id]
             added == AddTurn(messages, role, id)
  <2>1. EndsIn(messages, added, x)
    BY <1>2, <1>3, AddTurnHistory, Zenon
  <2> HIDE DEF x, added
  <2>2. s = added
    BY <1>1, Zenon DEF added
  <2>3. EndsIn(messages, s, x)
    BY <2>1, <2>2
  <2> QED
    BY <2>3, Zenon DEF EndsIn, x
<1>5. s[Len(s)].role = role /\ s[Len(s)].turn[1] = turn
  BY <1>3, <1>4
<1>6. Dated(s, turn)
  <2>1. turn <= turn /\ turn \in 0..turn
    BY <1>2
  <2> QED
    BY <1>2, <1>3, <1>4, <1>5, <2>1, DatedKeeps
<1> QED
  BY <1>4, <1>6 DEF HistoryInv, s

LEMMA HistoryLlmCallsTools == TypeInv /\ HistoryInv /\ LlmCallsTools => HistoryInv'
<1> SUFFICES ASSUME TypeInv, HistoryInv, LlmCallsTools
             PROVE  HistoryInv'
  OBVIOUS
<1> DEFINE s == messages'
           n == Len(stream.calls)
           r == tool_rounds + 1
           id == <<turn, r, n>>
<1>1. /\ s = AddTurn(messages, "tool_calls", id)
      /\ turn' = turn /\ tool_rounds' = r /\ at' = "tool"
      /\ calls' = [all |-> stream.calls, run |-> 0]
      /\ at = "llm"
  BY DEF LlmCallsTools
<1>2. turn \in Nat /\ messages \in Seq(Message) /\ Grounded(messages) /\ Dated(messages, turn)
  BY DEF TypeInv, HistoryTypes, HistoryInv
<1>3. /\ "tool_calls" \in Role /\ "tool_calls" # "tool"
      /\ id \in Seq(Nat) /\ id[1] = turn /\ id[3] = n
      /\ n \in Nat
  <2>1. r \in Nat /\ n \in Nat
    BY DEF TypeInv, ReplyTypes, StreamInv, StreamData
  <2> HIDE DEF r, n
  <2> QED
    BY <1>2, <2>1 DEF Role
<1>4. calls'.run = 0 /\ Len(calls'.all) = n
  BY <1>1
<1>5. \A h \in 1..Len(messages) :
         messages[h].role = "tool_calls" /\ messages[h].turn[1] = turn
            => AnsweredInFull(messages, h)
  BY <1>1 DEF HistoryInv, AsksOfTurn
<1> HIDE DEF s, id, n, r
<1>6. /\ Grounded(s) /\ Keeps(messages, s) /\ Len(s) \in Nat \ {0}
      /\ s[Len(s)] = [role |-> "tool_calls", turn |-> id]
  <2> DEFINE x == [role |-> "tool_calls", turn |-> id]
             added == AddTurn(messages, "tool_calls", id)
  <2>1. EndsIn(messages, added, x)
    BY <1>2, <1>3, AddTurnHistory, Zenon
  <2> HIDE DEF x, added
  <2>2. s = added
    BY <1>1, Zenon DEF added
  <2>3. EndsIn(messages, s, x)
    BY <2>1, <2>2
  <2> QED
    BY <2>3, Zenon DEF EndsIn, x
<1>7. s[Len(s)].turn = id
  BY <1>6
<1>8. Dated(s, turn)
  <2>1. turn <= turn /\ turn \in 0..turn
    BY <1>2
  <2> QED
    BY <1>2, <1>3, <1>6, <1>7, <2>1, DatedKeeps
<1>9. ASSUME NEW i \in 1..Len(s), i # Len(s), s[i].role = "tool_calls", s[i].turn[1] = turn
      PROVE  AnsweredInFull(s, i)
  <2>1. i \in 1..(Len(s) - 1)
    BY <1>6, <1>9
  <2>2. PICK h \in 1..Len(messages) :
           /\ s[i] = messages[h]
           /\ messages[h].turn[3] \in Nat /\ AnsweredInFull(messages, h) => AnsweredInFull(s, i)
    BY <1>6, <2>1, Zenon DEF Keeps
  <2>3. messages[h].turn[3] \in Nat
    BY <1>2, <1>9, <2>2 DEF Dated
  <2>4. AnsweredInFull(messages, h)
    BY <1>5, <1>9, <2>2
  <2> QED
    BY <2>2, <2>3, <2>4
<1>10. PICK p \in 1..Len(s) : p = Len(s)
  BY <1>6
<1>11. RunsCallsOf(p)'
  <2>1. p + calls'.run = Len(s)
    BY <1>4, <1>6, <1>10
  <2>2. s[p] = [role |-> "tool_calls", turn |-> <<turn', tool_rounds', Len(calls'.all)>>]
    BY <1>1, <1>4, <1>6, <1>10 DEF id
  <2>3. \A j : j \notin 1..calls'.run
    BY <1>4
  <2>4. ASSUME NEW i \in 1..Len(s), AsksOfTurn(messages, i)', i # p
        PROVE  AnsweredInFull(messages, i)'
    <3>1. s[i].role = "tool_calls" /\ s[i].turn[1] = turn
      BY <1>1, <2>4 DEF AsksOfTurn, s
    <3>2. AnsweredInFull(s, i)
      BY <1>9, <1>10, <2>4, <3>1, Zenon
    <3> QED
      BY <3>2, Zenon DEF AnsweredInFull, s
  <2> QED
    BY <2>1, <2>2, <2>3, <2>4, Zenon DEF RunsCallsOf, s
<1> QED
  BY <1>1, <1>6, <1>8, <1>11 DEF HistoryInv, s

LEMMA HistoryToolRuns == TypeInv /\ HistoryInv /\ ToolRuns => HistoryInv'
<1> SUFFICES ASSUME TypeInv, HistoryInv, ToolRuns
             PROVE  HistoryInv'
  OBVIOUS
<1> DEFINE s == messages'
           k == calls.run + 1
           id == <<turn, tool_rounds, k>>
           x == [role |-> "tool", turn |-> id]
<1>1. /\ s = AddToolResult(messages, id)
      /\ s = Append(messages, x)
      /\ turn' = turn /\ tool_rounds' = tool_rounds /\ at' = "tool" /\ at = "tool"
      /\ calls' = [calls EXCEPT !.run = k]
  BY DEF ToolRuns, AddToolResult
<1>2. /\ turn \in Nat /\ messages \in Seq(Message) /\ Grounded(messages) /\ Dated(messages, turn)
      /\ calls.run \in Nat /\ k \in Nat /\ k = calls.run + 1
  BY DEF TypeInv, HistoryTypes, HistoryInv, ReplyTypes
<1>3. calls'.run = k /\ calls'.all = calls.all
  BY <1>1 DEF TypeInv, ReplyTypes
<1>4. PICK p \in 1..Len(messages) : RunsCallsOf(p)
  BY <1>1 DEF HistoryInv
<1>5. /\ p + calls.run = Len(messages)
      /\ messages[p] = [role |-> "tool_calls", turn |-> <<turn, tool_rounds, Len(calls.all)>>]
      /\ \A j \in 1..calls.run :
            messages[p + j] = [role |-> "tool", turn |-> <<turn, tool_rounds, j>>]
      /\ \A i \in 1..Len(messages) :
            AsksOfTurn(messages, i) /\ i # p => AnsweredInFull(messages, i)
  BY <1>4 DEF RunsCallsOf
<1> HIDE DEF s, k
<1>6. id \in Seq(Nat) /\ id[1] = turn /\ id[3] = k /\ x \in Message
  <2>1. tool_rounds \in Nat
    BY DEF TypeInv, ReplyTypes
  <2> QED
    BY <1>2, <2>1 DEF Message, Role
<1>7. Grounded(s)
  <2>1. id[3] = Len(messages) + 1 - p
    <3> HIDE DEF id
    <3> DEFINE n == Len(messages)
    <3>1. n \in Nat /\ p \in Nat
      BY <1>2
    <3>2. p + calls.run = n
      BY <1>5, Zenon
    <3> HIDE DEF n
    <3>3. k = n + 1 - p
      BY <1>2, <3>1, <3>2
    <3> QED
      BY <1>6, <3>3 DEF n
  <2>2. messages[p].role = "tool_calls" /\ messages[p].turn = <<turn, tool_rounds, Len(calls.all)>>
    BY <1>5
  <2>3. SubSeq(messages[p].turn, 1, 2) = SubSeq(id, 1, 2)
    BY <2>2
  <2>4. ASSUME NEW j \in (p + 1)..Len(messages)
        PROVE  messages[j].role = "tool"
    <3>1. PICK c \in 1..calls.run : j = p + c
      <4>1. j - p \in 1..calls.run /\ j = p + (j - p)
        BY <1>2, <1>5
      <4> QED
        BY <4>1
    <3>2. messages[p + c] = [role |-> "tool", turn |-> <<turn, tool_rounds, c>>]
      BY <1>5, Zenon
    <3> DEFINE y == <<turn, tool_rounds, c>>
    <3> HIDE DEF y, id, x
    <3> QED
      BY <3>1, <3>2 DEF y
  <2> HIDE DEF id
  <2>5. Grounded(AddToolResult(messages, id))
    BY <1>2, <1>6, <2>1, <2>2, <2>3, <2>4, GroundedResult, Zenon
  <2> QED
    BY <1>1, <2>5
<1> HIDE DEF id
<1>8. /\ Len(messages) \in Nat /\ Len(s) = Len(messages) + 1 /\ s[Len(s)] = x
      /\ \A i \in 1..Len(messages) : s[i] = messages[i]
  <2> HIDE DEF x
  <2> QED
    BY <1>1, <1>2, <1>6, AppendIs
<1>9. x.role = "tool" /\ x.turn = id
  OBVIOUS
<1> HIDE DEF x
<1>10. Dated(s, turn)
  <2> SUFFICES ASSUME NEW i \in 1..Len(s)
               PROVE  /\ s[i].turn[1] \in 0..turn
                      /\ s[i].role = "tool_calls" => s[i].turn[3] \in Nat
    BY DEF Dated
  <2>1. CASE i = Len(s)
    BY <1>2, <1>6, <1>8, <1>9, <2>1
  <2>2. CASE i # Len(s)
    <3>1. i \in 1..Len(messages)
      BY <1>8, <2>2
    <3> QED
      BY <1>2, <1>8, <3>1 DEF Dated
  <2> QED
    BY <2>1, <2>2
<1>11. RunsCallsOf(p)'
  <2>1. p + calls'.run = Len(s)
    <3> DEFINE n == Len(messages)
               before == calls.run
               after == calls'.run
    <3>1. /\ p + before = n /\ Len(s) = n + 1 /\ n \in Nat
          /\ before \in Nat /\ after = k /\ k = before + 1
      BY <1>2, <1>3, <1>5, <1>8, Zenon
    <3>2. p \in Nat
      OBVIOUS
    <3> HIDE DEF n, before, after
    <3>3. p + after = n + 1
      BY <3>1, <3>2
    <3> QED
      BY <3>1, <3>3 DEF after
  <2>2. s[p] = [role |-> "tool_calls", turn |-> <<turn', tool_rounds', Len(calls'.all)>>]
    BY <1>1, <1>3, <1>5, <1>8
  <2>3. ASSUME NEW j \in 1..calls'.run
        PROVE  s[p + j] = [role |-> "tool", turn |-> <<turn', tool_rounds', j>>]
    <3>1. CASE j = k
      <4>1. p + j = Len(s)
        BY <1>3, <2>1, <3>1
      <4>2. s[p + j] = x
        BY <1>8, <4>1
      <4> QED
        BY <1>1, <3>1, <4>2 DEF x, id
    <3>2. CASE j # k
      <4>1. j \in 1..calls.run /\ p + j \in 1..Len(messages)
        BY <1>2, <1>3, <1>5, <3>2
      <4> QED
        BY <1>1, <1>5, <1>8, <4>1
    <3> QED
      BY <3>1, <3>2
  <2>4. ASSUME NEW i \in 1..Len(s), AsksOfTurn(messages, i)', i # p
        PROVE  AnsweredInFull(messages, i)'
    <3>1. s[i].role = "tool_calls" /\ s[i].turn[1] = turn
      BY <1>1, <2>4 DEF AsksOfTurn, s
    <3>2. i # Len(s)
      BY <1>8, <1>9, <3>1
    <3>3. i \in 1..Len(messages)
      BY <1>8, <3>2
    <3>4. messages[i].role = "tool_calls" /\ messages[i].turn[1] = turn
      BY <1>8, <3>1, <3>3
    <3>5. AnsweredInFull(messages, i) /\ messages[i].turn[3] \in Nat
      BY <1>2, <1>5, <2>4, <3>3, <3>4 DEF AsksOfTurn, Dated
    <3>6. AnsweredInFull(Append(messages, x), i)
      BY <1>2, <1>6, <3>3, <3>5, AnsweredAppend, Zenon
    <3>7. AnsweredInFull(s, i)
      BY <1>1, <3>6
    <3> QED
      BY <3>7, Zenon DEF AnsweredInFull, s
  <2> QED
    BY <2>1, <2>2, <2>3, <2>4, Zenon DEF RunsCallsOf, s
<1>12. p \in 1..Len(s)
  BY <1>8
<1> QED
  BY <1>1, <1>7, <1>10, <1>11, <1>12 DEF HistoryInv, s

LEMMA HistoryStep == TypeInv /\ HistoryInv /\ [Next]_vars => HistoryInv'
<1> SUFFICES ASSUME TypeInv, HistoryInv, [Next]_vars
             PROVE  HistoryInv'
  OBVIOUS
<1>1. CASE UNCHANGED vars
  BY <1>1, HistorySame DEF vars, reply
<1>2. CASE Next
  BY <1>2, HistoryEffect, HistorySame, HistoryTurnArrives, HistoryLlmCallsTools,
     HistoryToolRuns, HistoryReplyEnds
<1> QED
  BY <1>1, <1>2

LEMMA HistoryInit == Init => HistoryInv
<1> SUFFICES ASSUME Init
             PROVE  HistoryInv
  OBVIOUS
<1>1. at = "idle" /\ messages = <<>> /\ Len(<<>>) = 0
  BY DEF Init
<1>2. \A i : i \notin 1..Len(messages)
  BY <1>1
<1> QED
  BY <1>1, <1>2 DEF HistoryInv, Grounded, Dated

\* However often a round, an interruption or a new turn cut a reply short, and
\* however the history was trimmed then, the LLM is asked again in a turn only when
\* each tool call of that turn has its result behind it (agent.py:401-423).
THEOREM AsksWithAllResults == Spec => []AskedWithAllResults
<1>1. HistoryInv => AskedWithAllResults
  BY DEF HistoryInv, AskedWithAllResults
<1> QED
  BY TypeInit, TypeStep, HistoryInit, HistoryStep, <1>1, PTL DEF Spec

\* The history keeps no tool result without the message that made the call: the
\* trimming takes whole turns (conversation.py:42, :95-101).
THEOREM ResultsKeepTheirCalls == Spec => []NoOrphanResults
<1>1. HistoryInv => NoOrphanResults
  <2> SUFFICES ASSUME HistoryInv, NEW i \in 1..Len(messages), messages[i].role = "tool"
               PROVE  LET k == messages[i].turn[3]
                      IN  /\ k < i
                          /\ messages[i - k].role = "tool_calls"
                          /\ SubSeq(messages[i - k].turn, 1, 2) = SubSeq(messages[i].turn, 1, 2)
    BY DEF NoOrphanResults
  <2> DEFINE k == messages[i].turn[3]
  <2>1. /\ k \in 1..(i - 1)
        /\ messages[i - k].role = "tool_calls"
        /\ SubSeq(messages[i - k].turn, 1, 2) = SubSeq(messages[i].turn, 1, 2)
    BY Zenon DEF HistoryInv, Grounded, BehindItsCall
  <2> HIDE DEF k
  <2>2. k < i
    BY <2>1
  <2> QED
    BY <2>1, <2>2 DEF k
<1> QED
  BY TypeInit, TypeStep, HistoryInit, HistoryStep, <1>1, PTL DEF Spec

===============================================================================

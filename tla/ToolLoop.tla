------------------------------ MODULE ToolLoop ------------------------------
(***************************************************************************)
(* offleash/agent.py, _generate_response in detail: the replies of one     *)
(* call with the LLM's stream and its retries (LlmStream), the rounds of   *)
(* tool calls with the flow that they drive (RestaurantFlow), the history  *)
(* (Conversation) and the token budget (limits.py).  VoiceAgent has the    *)
(* two tasks and the webhooks around it; here a caller who speaks          *)
(* interrupts or supersedes a reply in one step.                           *)
(*                                                                         *)
(* The turn of a message tells it from the others: <<t>> for what the      *)
(* caller and the agent say in turn t, <<t, r, n>> for the n tool calls of *)
(* its round r, and <<t, r, k>> for the result of the k-th of them.        *)
(***************************************************************************)
EXTENDS Conversation, LlmStream, RestaurantFlow

CONSTANTS
    MaxToolRounds,    \* AgentConfig.max_tool_rounds
    MaxTokens,        \* TokenBudget._max, 0 for no limit
    CharsPerToken,    \* CHARS_PER_TOKEN
    PromptChars,      \* the length of the system prompt; other texts have the length 1
    MaxTurnsOfCall,   \* bound: turns of the caller
    Faults            \* what can go wrong, besides the LLM's stream

ASSUME ToolLoopAssumption ==
    /\ MaxToolRounds \in Nat
    /\ MaxTokens \in Nat
    /\ CharsPerToken \in Nat \ {0}
    /\ PromptChars \in Nat
    /\ MaxTurnsOfCall \in Nat
    /\ Faults \subseteq
         {"speak",      \* a speak command fails
          "suspend",    \* tools suspend, which those of the demo do not, and may be
                        \* cancelled then
          "stray"}      \* the LLM calls tools that it was not offered

VARIABLES
    at,             \* idle, new, llm, tool, speak, hangup, or over
    turn,           \* turns of the caller so far
    saying,         \* what the reply says or said last: reply, budget or apology
    tool_rounds,    \* tool_rounds
    calls,          \* the tool calls of the round, and how many have been run
    tools_schemas,  \* tools_schemas: the tools that the LLM is offered
    system_prompt,  \* system_prompt: the node and the slots that it tells of
    current_node,   \* _context.current_node
    slots,          \* the keys of _context.slots
    ending,         \* _ending
    messages,       \* _conversation
    chars,          \* TokenBudget._chars
    announced,      \* _budget_announced
    announcements,  \* how often the budget message was to be said
    strayed         \* a tool was run that the LLM was not offered

reply == <<at, saying, tool_rounds, calls>>
flow == <<tools_schemas, system_prompt, current_node, slots, ending, strayed>>
budget == <<chars, announced, announcements>>
vars == <<stream, turn, reply, flow, messages, budget>>

NoToolCalls == [all |-> <<>>, run |-> 0]

Init ==
    /\ at = "idle"
    /\ turn = 0
    /\ saying = "reply"
    /\ tool_rounds = 0
    /\ calls = NoToolCalls
    /\ tools_schemas = {}
    /\ system_prompt = BuildSystemPrompt(InitialNode, {})
    /\ current_node = InitialNode
    /\ slots = {}
    /\ ending = FALSE
    /\ messages = <<>>
    /\ chars = 0
    /\ announced = FALSE
    /\ announcements = 0
    /\ strayed = FALSE
    /\ stream = NoRequest

-----------------------------------------------------------------------------
\* TokenBudget.exhausted when c characters were counted.
Exhausted(c) == MaxTokens > 0 /\ c \div CharsPerToken >= MaxTokens

\* The characters of a prompt: the message with tool calls has no content.
PromptLength(m) == PromptChars + Cardinality({i \in 1..Len(m) : m[i].role # "tool_calls"})

\* _speak, up to its await of the speak command.
Say(what) ==
    /\ at' = "speak"
    /\ saying' = what
    /\ stream' = NoRequest
    /\ calls' = NoToolCalls

\* The budget is gone: the caller is told.
AnnounceBudget ==
    /\ announced' = TRUE
    /\ announcements' = announcements + 1
    /\ Say("budget")

\* Mutant: the round that finds the budget exhausted does not note that it says so.
AskLlmForgetsAnnouncement ==
    /\ chars' = chars + PromptLength(messages)
    /\ IF Exhausted(chars')
       THEN /\ UNCHANGED announced
            /\ announcements' = announcements + 1
            /\ Say("budget")
       ELSE /\ at' = "llm"
            /\ stream' = Request
            /\ calls' = NoToolCalls
            /\ UNCHANGED <<saying, announced, announcements>>

\* A round: the prompt is counted before it is sent.
AskLlm ==
    /\ chars' = chars + PromptLength(messages)
    /\ IF Exhausted(chars')
       THEN AnnounceBudget
       ELSE /\ at' = "llm"
            /\ stream' = Request
            /\ calls' = NoToolCalls
            /\ UNCHANGED <<saying, announced, announcements>>

\* The finally clause: what was said enters the history, and the agent hangs up
\* if the conversation is ending.
Finish(records, role) ==
    /\ messages' = IF records THEN AddTurn(messages, role, <<turn>>) ELSE messages
    /\ at' = IF ending THEN "hangup" ELSE "idle"
    /\ stream' = NoRequest
    /\ calls' = NoToolCalls
    /\ UNCHANGED <<saying, tool_rounds>>

-----------------------------------------------------------------------------
\* A turn of the caller is complete, and a reply to it is created.
TurnArrives ==
    /\ at = "idle"
    /\ turn < MaxTurnsOfCall
    /\ turn' = turn + 1
    /\ messages' = AddTurn(messages, "user", <<turn + 1>>)
    /\ at' = "new"
    /\ UNCHANGED <<stream, saying, tool_rounds, calls, flow, budget>>

\* The budget is gone and the caller was told: there is no reply.
ReplySkipped ==
    /\ at = "new"
    /\ Exhausted(chars) /\ announced
    /\ at' = "idle"
    /\ UNCHANGED <<stream, turn, saying, tool_rounds, calls, flow, messages, budget>>

ReplyStarts ==
    /\ at = "new"
    /\ ~(Exhausted(chars) /\ announced)
    /\ tool_rounds' = 0
    /\ tools_schemas' = ToolSchemas(current_node)
    /\ system_prompt' = BuildSystemPrompt(current_node, slots)
    /\ IF Exhausted(chars)
       THEN AnnounceBudget /\ UNCHANGED chars
       ELSE AskLlm
    /\ UNCHANGED <<turn, current_node, slots, ending, strayed, messages>>

\* The tools that a chunk names, if it does not go on with an earlier fragment.
Names(chunk) == {delta.name : delta \in Range(chunk.deltas)} \ {""}

\* The pieces of the arguments of tool calls.
ArgumentsLength(tool_calls) == FoldLeft(LAMBDA n, call : n + Len(call.arguments), 0, tool_calls)

\* A step of the LLM's stream: text is counted as it comes, the arguments of the
\* tool calls when they are passed on.
LlmStreams ==
    /\ at = "llm"
    /\ StreamStep
    /\ "stray" \notin Faults =>
          \A i \in DOMAIN stream'.received : Names(stream'.received[i]) \subseteq tools_schemas
    /\ chars' = chars + (Len(stream'.text) - Len(stream.text)) + ArgumentsLength(stream'.calls)
    /\ UNCHANGED <<turn, reply, flow, messages, announced, announcements>>

\* The stream has failed for good: apologise.
LlmFails ==
    /\ at = "llm"
    /\ stream.at = "failed"
    /\ Say("apology")
    /\ UNCHANGED <<turn, tool_rounds, flow, messages, budget>>

\* The text of the stream, without its blank pieces.
Spoken == SelectSeq(stream.text, LAMBDA piece : piece # " ")

LlmAnswers ==
    /\ at = "llm"
    /\ stream.at = "ended"
    /\ stream.calls = <<>>
    /\ Spoken # <<>>
    /\ Say("reply")
    /\ UNCHANGED <<turn, tool_rounds, flow, messages, budget>>

\* No text, or blank text, which is recorded and not spoken.
LlmIsSilent ==
    /\ at = "llm"
    /\ stream.at = "ended"
    /\ stream.calls = <<>>
    /\ Spoken = <<>>
    /\ Finish(stream.text # <<>>, "assistant")
    /\ UNCHANGED <<turn, flow, budget>>

\* Mutant: one round too many.
LlmCallsToolsOnceMore ==
    /\ at = "llm"
    /\ stream.at = "ended"
    /\ stream.calls # <<>>
    /\ tool_rounds <= MaxToolRounds
    /\ tool_rounds' = tool_rounds + 1
    /\ messages' = AddTurn(messages, "tool_calls", <<turn, tool_rounds + 1, Len(stream.calls)>>)
    /\ at' = "tool"
    /\ calls' = [all |-> stream.calls, run |-> 0]
    /\ stream' = NoRequest
    /\ UNCHANGED <<turn, saying, flow, budget>>

\* The tool calls enter the history before they are run.
LlmCallsTools ==
    /\ at = "llm"
    /\ stream.at = "ended"
    /\ stream.calls # <<>>
    /\ tool_rounds < MaxToolRounds
    /\ tool_rounds' = tool_rounds + 1
    /\ messages' = AddTurn(messages, "tool_calls", <<turn, tool_rounds + 1, Len(stream.calls)>>)
    /\ at' = "tool"
    /\ calls' = [all |-> stream.calls, run |-> 0]
    /\ stream' = NoRequest
    /\ UNCHANGED <<turn, saying, flow, budget>>

LlmCallsTooManyTools ==
    /\ at = "llm"
    /\ stream.at = "ended"
    /\ stream.calls # <<>>
    /\ tool_rounds >= MaxToolRounds
    /\ tool_rounds' = tool_rounds + 1
    /\ Say("reply")
    /\ UNCHANGED <<turn, flow, messages, budget>>

\* Mutant: the conversation does not end in a terminal node.
TransitionNeverEnds(name) ==
    /\ IF Triggers(current_node, name)
       THEN current_node' = Transitions[current_node][name]
       ELSE UNCHANGED current_node
    /\ UNCHANGED ending

\* _handle_transition.
HandleTransition(name) ==
    IF Triggers(current_node, name)
    THEN /\ current_node' = Transitions[current_node][name]
         /\ ending' = (ending \/ current_node' \in Terminal)
    ELSE UNCHANGED <<current_node, ending>>

\* Mutant: a transition ends the round, and the other calls are not run.
ToolRunsUntilTransition ==
    /\ at = "tool"
    /\ calls.run < Len(calls.all)
    /\ LET call == calls.all[calls.run + 1]
       IN  /\ ~Raises(call.name, call.arguments)
           /\ slots' = slots \cup Stores(call.name, call.arguments)
           /\ strayed' = (strayed \/ call.name \notin tools_schemas)
           /\ HandleTransition(call.name)
           /\ calls' = [calls EXCEPT !.run = IF Triggers(current_node, call.name)
                                             THEN Len(calls.all) ELSE @ + 1]
    /\ messages' = AddToolResult(messages, <<turn, tool_rounds, calls.run + 1>>)
    /\ UNCHANGED <<stream, turn, at, saying, tool_rounds, tools_schemas, system_prompt,
                   budget>>

\* The next tool is run, its result recorded, and the transition made, whatever
\* the result says.
ToolRuns ==
    /\ at = "tool"
    /\ calls.run < Len(calls.all)
    /\ LET call == calls.all[calls.run + 1]
       IN  /\ ~Raises(call.name, call.arguments)
           /\ slots' = slots \cup Stores(call.name, call.arguments)
           /\ strayed' = (strayed \/ call.name \notin tools_schemas)
           /\ HandleTransition(call.name)
    /\ calls' = [calls EXCEPT !.run = @ + 1]
    /\ messages' = AddToolResult(messages, <<turn, tool_rounds, calls.run + 1>>)
    /\ UNCHANGED <<stream, turn, at, saying, tool_rounds, tools_schemas, system_prompt,
                   budget>>

\* The execution raises, and the call stays without a result: apologise.
ToolRaises ==
    /\ at = "tool"
    /\ calls.run < Len(calls.all)
    /\ LET call == calls.all[calls.run + 1] IN Raises(call.name, call.arguments)
    /\ Say("apology")
    /\ UNCHANGED <<turn, tool_rounds, flow, messages, budget>>

\* Mutant: the prompt is not rebuilt after a transition.
NextRoundKeepsPrompt ==
    /\ at = "tool"
    /\ calls.run = Len(calls.all)
    /\ tools_schemas' = ToolSchemas(current_node)
    /\ AskLlm
    /\ UNCHANGED <<turn, tool_rounds, system_prompt, current_node, slots, ending, strayed,
                   messages>>

\* All tools were run: ask the LLM again, with the prompt and the tools of the node
\* that they led to.
NextRound ==
    /\ at = "tool"
    /\ calls.run = Len(calls.all)
    /\ tools_schemas' = ToolSchemas(current_node)
    /\ system_prompt' = BuildSystemPrompt(current_node, slots)
    /\ AskLlm
    /\ UNCHANGED <<turn, tool_rounds, current_node, slots, ending, strayed, messages>>

\* Mutant: the loop is not left after the apology for too many rounds.
SpeakEndsAndGoesOn ==
    /\ at = "speak"
    /\ IF tool_rounds > MaxToolRounds
       THEN AskLlm /\ UNCHANGED <<tool_rounds, messages>>
       ELSE Finish(TRUE, "assistant") /\ UNCHANGED <<chars, announced, announcements>>
    /\ UNCHANGED <<turn, flow>>

\* The playback ends or times out, and what was said enters the history.
SpeakEnds ==
    /\ at = "speak"
    /\ Finish(TRUE, "assistant")
    /\ UNCHANGED <<turn, flow, budget>>

\* The speak command fails: apologise, or give the apology up.
SpeakFails ==
    /\ "speak" \in Faults
    /\ at = "speak"
    /\ IF saying = "apology"
       THEN Finish(TRUE, "assistant")
       ELSE Say("apology") /\ UNCHANGED <<tool_rounds, messages>>
    /\ UNCHANGED <<turn, flow, budget>>

\* The caller barges in.  In an apology the cancellation comes out of the reply
\* and ends the call's run.
BargeIn ==
    /\ at = "speak"
    /\ ~ending
    /\ messages' = AddTurn(messages, "interrupted", <<turn>>)
    /\ at' = IF saying = "apology" THEN "over" ELSE "idle"
    /\ UNCHANGED <<stream, turn, saying, tool_rounds, calls, flow, budget>>

\* The next turn supersedes a reply that waits for the LLM or for a tool.
ReplySuperseded ==
    /\ ~ending
    /\ turn < MaxTurnsOfCall
    /\ \/ at = "llm" /\ stream.at \in {"open", "read", "backoff"}
       \/ at = "tool" /\ "suspend" \in Faults /\ calls.run < Len(calls.all)
    /\ Finish(FALSE, "assistant")
    /\ UNCHANGED <<turn, flow, budget>>

\* The hangup command returns or raises, and the carrier ends the call.
HangupReturns ==
    /\ at = "hangup"
    /\ at' = "over"
    /\ UNCHANGED <<stream, turn, saying, tool_rounds, calls, flow, messages, budget>>

ReplyStep ==
    \/ ReplySkipped
    \/ ReplyStarts
    \/ LlmStreams
    \/ LlmFails
    \/ LlmAnswers
    \/ LlmIsSilent
    \/ LlmCallsTools
    \/ LlmCallsTooManyTools
    \/ ToolRuns
    \/ ToolRaises
    \/ NextRound
    \/ SpeakEnds
    \/ SpeakFails
    \/ HangupReturns

Caller ==
    \/ TurnArrives
    \/ BargeIn
    \/ ReplySuperseded

\* The call is over, or no more turns of the caller are considered.
Over ==
    /\ at = "over" \/ (at = "idle" /\ turn = MaxTurnsOfCall)
    /\ UNCHANGED vars

Next == ReplyStep \/ Caller \/ Over

(***************************************************************************)
(* Streams, commands and playbacks have timeouts, so a reply goes on; the  *)
(* caller may stay silent.                                                 *)
(***************************************************************************)
Spec == Init /\ [][Next]_vars /\ WF_vars(ReplyStep)

-----------------------------------------------------------------------------
(***************************************************************************)
(* Properties.                                                             *)
(***************************************************************************)

\* The type invariant; its bound on tool_rounds says that a reply asks the LLM
\* at most once more than max_tool_rounds allows (agent.py:389-399), and that on
\* the request to the stream that only a waiting reply has one.
TypeOK ==
    /\ at \in {"idle", "new", "llm", "tool", "speak", "hangup", "over"}
    /\ turn \in 0..MaxTurnsOfCall
    /\ saying \in {"reply", "budget", "apology"}
    /\ tool_rounds \in 0..(MaxToolRounds + 1)
    /\ calls.run \in 0..Len(calls.all)
    /\ tools_schemas \subseteq Tool
    /\ system_prompt \in [node : Node, slots : SUBSET Slot]
    /\ current_node \in Node
    /\ slots \subseteq Slot
    /\ messages \in Seq(Message)
    /\ chars \in Nat
    /\ \A flag \in {ending, announced, strayed} : flag \in BOOLEAN
    /\ StreamTypeOK
    /\ at = "llm" <=> stream.at # "idle"

\* The results of the n calls in message i of m follow it, in the order of the calls.
AnsweredInFull(m, i) ==
    LET id == m[i].turn
    IN  \A k \in 1..id[3] :
          /\ i + k <= Len(m)
          /\ m[i + k] = [role |-> "tool", turn |-> <<id[1], id[2], k>>]

\* Message i of m has tool calls of the current turn.
AsksOfTurn(m, i) == m[i].role = "tool_calls" /\ m[i].turn[1] = turn

\* The LLM is asked again in a turn only when every tool call of that turn has
\* its result right behind it, in the order of the calls (agent.py:401-423).
AskedWithAllResults ==
    at = "llm" =>
        \A i \in 1..Len(messages) :
            AsksOfTurn(messages, i) => AnsweredInFull(messages, i)

\* However the history is trimmed, and wherever a reply was cut short, it keeps
\* no tool result without the message that made the call (conversation.py:42, :95-101).
NoOrphanResults ==
    \A i \in 1..Len(messages) :
        messages[i].role = "tool" =>
            LET k == messages[i].turn[3]
            IN  /\ k < i
                /\ messages[i - k].role = "tool_calls"
                /\ SubSeq(messages[i - k].turn, 1, 2) = SubSeq(messages[i].turn, 1, 2)

\* When the LLM is asked, in whatever round or attempt, the tools that it is
\* offered are those of the node that the call is in by then, and the prompt tells
\* of that node and of all that was collected (agent.py:290-296 "recomputed
\* whenever the node may have changed", prompts.py:78-82).
PromptIsCurrent ==
    at = "llm" =>
        /\ tools_schemas = NodeTools[current_node]
        /\ system_prompt = [node |-> current_node, slots |-> slots]

\* The flow's order holds however the LLM batches its calls: a reservation made by
\* an offered tool was preceded by a check, and leads to the farewell (prompts.py:139-143).
ReservationsFollowTheFlow ==
    "name" \in slots /\ ~strayed => current_node = "farewell" /\ ending

\* The budget is announced at most once in a call, no LLM is asked after that,
\* and none is asked with a prompt that exhausts it (agent.py:310-321, :343-354).
BudgetIsKept ==
    /\ announcements <= 1
    /\ announced => at # "llm"
    /\ at = "llm" /\ stream.at = "open" => ~Exhausted(chars)

\* A caller who has a reservation gets a last reply and the call is hung up,
\* whatever fails in between (prompts.py:142-143, agent.py:456-462).
BookedCallsEnd == "name" \in slots /\ ~strayed ~> at = "over"

\* The stage of the reply as Reply has it.
Stage ==
    CASE at \in {"idle", "new"} -> "none"
      [] at \in {"llm", "tool"} -> "asking"
      [] at = "speak" -> IF saying = "apology" THEN "apologising" ELSE "speaking"
      [] at \in {"hangup", "over"} -> "over"

Replies ==
    INSTANCE Reply WITH stage <- Stage,
                        rounds <- IF Stage = "asking" THEN tool_rounds ELSE 0

\* Whatever the LLM, its tools and the speak commands do, a reply stays within its
\* rounds, speaks once, and apologises at most after that (agent.py:343-439).
ImplementsReply == Replies!RepliesSpec

-----------------------------------------------------------------------------
(***************************************************************************)
(* What the documents of the code say and the code does not do.            *)
(***************************************************************************)

\* prompts.py:170 "The reservation is confirmed.", DISCOVERY.md:223 "transitions
\* triggered by successful tool calls": the farewell follows a reservation made.
FarewellIsConfirmed == current_node = "farewell" => "name" \in slots

=============================================================================

----------------------------- MODULE VoiceAgent -----------------------------
(***************************************************************************)
(* offleash/agent.py: the agent of one call, with its BargeInHandler and   *)
(* TurnManager.  Two tasks share one asyncio event loop:                   *)
(*                                                                         *)
(*   - the run task (VoiceAgent.run) takes the call's events from a queue  *)
(*     and starts, interrupts and supersedes                               *)
(*   - the response task (_greet or _generate_response), which asks the    *)
(*     LLM, runs tools and speaks.                                         *)
(*                                                                         *)
(* A step of a task is what it does between two awaits.  Between two steps *)
(* of one task the other task and the webhook handlers (Submit...) may     *)
(* run, unless the run task still holds the event loop: Queue.get on a     *)
(* queue that is not empty returns without suspending.                     *)
(*                                                                         *)
(* A user's words are the number of the final transcript that carries      *)
(* them; texts, prompts and the results of tools are left out.  A tool     *)
(* call of the LLM is carried out within one step, as the tools of the     *)
(* repository do (none of them suspends).                                  *)
(***************************************************************************)
EXTENDS Conversation, SequencesExt

CONSTANTS
    Greetings,      \* whether AgentConfig.greeting is not empty: the cases considered
    MaxToolRounds,  \* AgentConfig.max_tool_rounds
    MaxFinals,      \* bound: final transcripts of the call
    MaxQueue,       \* bound: items in the event queue
    Faults          \* what can go wrong around the agent

ASSUME VoiceAgentAssumption ==
    /\ Greetings \subseteq BOOLEAN
    /\ MaxToolRounds \in Nat
    /\ MaxFinals \in Nat
    /\ MaxQueue \in Nat
    /\ Faults \subseteq
         {"transcription",  \* the transcription_start command fails
          "llm",            \* the LLM stream fails after its retries
          "speak",          \* a speak command fails
          "tools",          \* ToolRegistry.execute raises
          "budget",         \* the token budget runs out
          "shutdown"}       \* the server shuts down during the call

VARIABLES
    events,             \* the queue _events
    run_task,           \* the run task: where it is suspended and what it keeps
    response_task,      \* the latest _response_task, see NewResponse
    messages,           \* _conversation
    transcript_buffer,  \* TurnManager._transcript_buffer
    agent_is_speaking,  \* BargeInHandler.agent_is_speaking
    barged_in,          \* BargeInHandler._barged_in
    speak_gen,          \* _speak_gen; _current_speak_gen is the same once a speak was made
    speak_done,         \* the event _speak_done is set
    ending,             \* _ending
    budget_announced,   \* _budget_announced
    closed,             \* _closed
    hung_up,            \* the agent has commanded a hangup of the leg
    finals,             \* final transcripts submitted so far
    reported,           \* the latest generation whose end was reported
    shutdown            \* the server has cancelled the run task

conversation == <<messages, transcript_buffer>>
speech == <<agent_is_speaking, barged_in, speak_gen, speak_done, hung_up>>
status == <<ending, budget_announced, closed>>
environment == <<finals, reported, shutdown>>
vars == <<events, run_task, response_task, conversation, speech, status, environment>>

Item(type, n) == [type |-> type, n |-> n]

(***************************************************************************)
(* A response task, not yet run, that answers the given user turn; the     *)
(* empty turn is that of the greeting.                                     *)
(***************************************************************************)
NewResponse(turn) ==
    [at |-> "new",          \* new, llm, speak, play, hangup, ended, or none
     turn |-> turn,
     tool_rounds |-> 0,
     fallback |-> FALSE,    \* in _speak_fallback, called by the except clause
     said |-> FALSE,        \* spoken_tokens is not empty
     full |-> FALSE,        \* full_text is not empty
     cancelled |-> FALSE,   \* cancel() was called, CancelledError is to come
     exit |-> "ok"]         \* how it ended: ok, cancelled or raised

NoResponse == [NewResponse(<<>>) EXCEPT !.at = "none"]

Live == response_task.at \in {"new", "llm", "speak", "play", "hangup"}

IsGreeting == response_task.turn = <<>>

Init ==
    /\ events = <<>>
    /\ run_task = [at |-> "transcribe", kept |-> <<>>, holds |-> FALSE, cancelled |-> FALSE]
    /\ response_task = NoResponse
    /\ messages = <<>>
    /\ transcript_buffer = <<>>
    /\ agent_is_speaking = FALSE
    /\ barged_in = FALSE
    /\ speak_gen = 0
    /\ speak_done = FALSE
    /\ ending = FALSE
    /\ budget_announced = FALSE
    /\ closed = FALSE
    /\ hung_up = FALSE
    /\ finals = 0
    /\ reported = 0
    /\ shutdown = FALSE

-----------------------------------------------------------------------------
(***************************************************************************)
(* The run task.                                                           *)
(***************************************************************************)

At(place) == run_task.at = place /\ ~run_task.cancelled

\* The run task is suspended at the place; it keeps a turn or a transcript.
SuspendedAt(place, kept) ==
    [at |-> place, kept |-> kept, holds |-> FALSE, cancelled |-> FALSE]

\* The run task goes back to Queue.get on the queue q.
BackToGet(q) == [at |-> "get", kept |-> <<>>, holds |-> q # <<>>, cancelled |-> FALSE]

\* The response task is cancelled and the run task waits for its end at the place.
CancelAndReap(place, kept) ==
    /\ response_task' = [response_task EXCEPT !.cancelled = TRUE]
    /\ run_task' = SuspendedAt(place, kept)

\* Mutant: _teardown cancels the response and does not wait for its end.
EnterTeardownWithoutReaping ==
    /\ run_task' = SuspendedAt("stopTranscription", <<>>)
    /\ response_task' = [response_task EXCEPT !.cancelled = Live]

\* The first part of _teardown: reap a response in flight.
EnterTeardown ==
    IF Live
    THEN CancelAndReap("reapEnd", <<>>)
    ELSE /\ run_task' = SuspendedAt("stopTranscription", <<>>)
         /\ UNCHANGED response_task

\* start_transcription returns or raises; then the greeting, if there is one.
TranscriptionStarts ==
    /\ At("transcribe")
    /\ \E greets \in Greetings, failed \in BOOLEAN :
          /\ failed => "transcription" \in Faults
          /\ ending' = failed
          /\ IF greets
             THEN /\ response_task' = NewResponse(<<>>)
                  /\ run_task' = BackToGet(events)
             ELSE /\ run_task' = IF failed THEN SuspendedAt("hangup", <<>>)
                                           ELSE BackToGet(events)
                  /\ UNCHANGED response_task
          /\ hung_up' = (failed /\ ~greets)
    /\ UNCHANGED <<events, conversation, agent_is_speaking, barged_in, speak_gen,
                   speak_done, budget_announced, closed, environment>>

\* The run task gets an item of the type.  A response task that it has created
\* runs its first step before the run task is woken up again.
Takes(type) ==
    /\ At("get")
    /\ events # <<>>
    /\ Head(events).type = type
    /\ run_task.holds \/ response_task.at # "new"
    /\ events' = Tail(events)

\* Mutant: the check of _ending comes before that of the hangup sentinel.
TakeHangupUnlessEnding ==
    /\ Takes("hangup")
    /\ IF ending THEN run_task' = BackToGet(events') /\ UNCHANGED response_task
                 ELSE EnterTeardown
    /\ UNCHANGED <<conversation, speech, status, environment>>

TakeHangup ==
    /\ Takes("hangup")
    /\ EnterTeardown
    /\ UNCHANGED <<conversation, speech, status, environment>>

\* Mutant: any completion releases the waiter.
TakeAnySpeakEnded ==
    /\ Takes("ended")
    /\ speak_done' = TRUE
    /\ run_task' = BackToGet(events')
    /\ UNCHANGED <<response_task, conversation, agent_is_speaking, barged_in, speak_gen,
                   hung_up, status, environment>>

TakeSpeakEnded ==
    /\ Takes("ended")
    /\ speak_done' = (speak_done \/ (speak_gen > 0 /\ Head(events).n = speak_gen))
    /\ run_task' = BackToGet(events')
    /\ UNCHANGED <<response_task, conversation, agent_is_speaking, barged_in, speak_gen,
                   hung_up, status, environment>>

\* Mutant: the check of _ending is missing.
InputNeverIgnored == FALSE

\* Once the conversation is ending, speech is ignored.
InputIgnored == ending

\* An item that changes nothing: any speech event that is ignored, an interim
\* transcript while the agent is silent, an utterance end without words.
TakeIgnored ==
    /\ \/ InputIgnored /\ \E type \in {"interim", "final", "uend"} : Takes(type)
       \/ ~InputIgnored /\ ~agent_is_speaking /\ Takes("interim")
       \/ ~InputIgnored /\ transcript_buffer = <<>> /\ Takes("uend")
    /\ run_task' = BackToGet(events')
    /\ UNCHANGED <<response_task, conversation, speech, status, environment>>

\* A transcript while the agent speaks: handle_barge_in, up to its await of
\* stop_playback.  The words of a final are kept for the next turn.
TakeBargeIn ==
    /\ ~InputIgnored
    /\ agent_is_speaking
    /\ \E type \in {"interim", "final"} :
          /\ Takes(type)
          /\ run_task' = SuspendedAt("stopPlayback",
                             IF type = "final" THEN <<Head(events).n>> ELSE <<>>)
    /\ barged_in' = TRUE
    /\ agent_is_speaking' = FALSE
    /\ UNCHANGED <<response_task, conversation, speak_gen, speak_done, hung_up, status,
                   environment>>

TakeFinal ==
    /\ ~InputIgnored
    /\ ~agent_is_speaking
    /\ Takes("final")
    /\ transcript_buffer' = Append(transcript_buffer, Head(events).n)
    /\ run_task' = BackToGet(events')
    /\ UNCHANGED <<response_task, messages, speech, status, environment>>

\* The user's turn enters the history and a new task answers it.
StartReply(turn) ==
    /\ messages' = AddTurn(messages, "user", turn)
    /\ response_task' = NewResponse(turn)
    /\ run_task' = BackToGet(events')

\* Mutant: the superseded response is cancelled and not awaited.
TakeTurnWithoutReaping ==
    /\ ~InputIgnored
    /\ transcript_buffer # <<>>
    /\ Takes("uend")
    /\ transcript_buffer' = <<>>
    /\ StartReply(transcript_buffer)
    /\ UNCHANGED <<speech, status, environment>>

\* The utterance end completes a turn, which supersedes a response in flight.
TakeTurn ==
    /\ ~InputIgnored
    /\ transcript_buffer # <<>>
    /\ Takes("uend")
    /\ transcript_buffer' = <<>>
    /\ IF Live
       THEN CancelAndReap("reapTurn", transcript_buffer) /\ UNCHANGED messages
       ELSE StartReply(transcript_buffer)
    /\ UNCHANGED <<speech, status, environment>>

\* The last part of a barge-in: set_listening, then the kept final is seen again.
Reseat ==
    /\ transcript_buffer' = run_task.kept
    /\ run_task' = BackToGet(events)

\* Mutant: the kept final is seen again before the response is reaped.
PlaybackStopsReseatedFirst ==
    /\ At("stopPlayback")
    /\ IF Live
       THEN CancelAndReap("reapBarge", <<>>) /\ transcript_buffer' = run_task.kept
       ELSE Reseat /\ UNCHANGED response_task
    /\ UNCHANGED <<events, messages, speech, status, environment>>

\* Mutant: the kept final enters the history before the response is reaped.
PlaybackStopsRecordedFirst ==
    /\ At("stopPlayback")
    /\ IF Live /\ run_task.kept # <<>>
       THEN /\ CancelAndReap("reapBarge", <<>>)
            /\ messages' = AddTurn(messages, "user", run_task.kept)
            /\ UNCHANGED transcript_buffer
       ELSE Reseat /\ UNCHANGED <<response_task, messages>>
    /\ UNCHANGED <<events, speech, status, environment>>

\* stop_playback returns (a failure of it is swallowed).
PlaybackStops ==
    /\ At("stopPlayback")
    /\ IF Live
       THEN CancelAndReap("reapBarge", run_task.kept) /\ UNCHANGED transcript_buffer
       ELSE Reseat /\ UNCHANGED response_task
    /\ UNCHANGED <<events, messages, speech, status, environment>>

\* The interrupted response has ended.  Its exceptions are swallowed, except
\* CancelledError, which ends the run task.
InterruptedReaped ==
    /\ At("reapBarge")
    /\ ~Live
    /\ IF response_task.exit = "cancelled"
       THEN EnterTeardown /\ UNCHANGED transcript_buffer
       ELSE Reseat /\ UNCHANGED response_task
    /\ UNCHANGED <<events, messages, speech, status, environment>>

\* The same for the response that a new turn supersedes.
SupersededReaped ==
    /\ At("reapTurn")
    /\ ~Live
    /\ UNCHANGED events
    /\ IF response_task.exit = "cancelled"
       THEN EnterTeardown /\ UNCHANGED messages
       ELSE StartReply(run_task.kept)
    /\ UNCHANGED <<transcript_buffer, speech, status, environment>>

\* The run task's own hangup command returns or raises.
HangupReturns ==
    /\ At("hangup")
    /\ EnterTeardown
    /\ UNCHANGED <<events, conversation, speech, status, environment>>

\* CancelledError reaches the run task where it is suspended, before its teardown.
RunCancelled ==
    /\ run_task.cancelled
    /\ run_task.at \in {"transcribe", "get", "stopPlayback", "reapBarge", "reapTurn", "hangup"}
    /\ run_task.at = "get" => response_task.at # "new"
    /\ EnterTeardown
    /\ UNCHANGED <<events, conversation, speech, status, environment>>

\* _teardown swallows everything while it reaps, a cancellation of its own included.
LastReaped ==
    /\ run_task.at = "reapEnd"
    /\ ~Live
    /\ run_task' = SuspendedAt("stopTranscription", <<>>)
    /\ UNCHANGED <<events, response_task, conversation, speech, status, environment>>

\* stop_transcription returns or raises, then aclose closes the LLM client; a
\* cancellation while it is awaited ends the run task without aclose.
TranscriptionStops ==
    /\ run_task.at = "stopTranscription"
    /\ closed' = (closed \/ ~run_task.cancelled)
    /\ run_task' = SuspendedAt("done", <<>>)
    /\ UNCHANGED <<events, response_task, conversation, speech, ending,
                   budget_announced, environment>>

RunStep ==
    \/ TranscriptionStarts
    \/ TakeHangup
    \/ TakeSpeakEnded
    \/ TakeIgnored
    \/ TakeBargeIn
    \/ TakeFinal
    \/ TakeTurn
    \/ PlaybackStops
    \/ InterruptedReaped
    \/ SupersededReaped
    \/ HangupReturns
    \/ RunCancelled
    \/ LastReaped
    \/ TranscriptionStops

-----------------------------------------------------------------------------
(***************************************************************************)
(* The response task.                                                      *)
(***************************************************************************)

\* The response task is suspended at the place and is resumed normally.
Resumes(place) ==
    /\ ~run_task.holds
    /\ response_task.at = place
    /\ ~response_task.cancelled

\* Mutant: the agent is not marked as speaking before the command returns.
SpeakUnmarked(response) ==
    /\ response_task' = [response EXCEPT !.at = "speak", !.said = TRUE]
    /\ speak_gen' = speak_gen + 1
    /\ speak_done' = FALSE
    /\ UNCHANGED <<agent_is_speaking, barged_in, hung_up>>

\* _speak, up to its await of the speak command.
Speak(response) ==
    /\ response_task' = [response EXCEPT !.at = "speak", !.said = TRUE]
    /\ agent_is_speaking' = TRUE
    /\ speak_gen' = speak_gen + 1
    /\ speak_done' = FALSE
    /\ UNCHANGED <<barged_in, hung_up>>

\* Mutant: an interrupted reply enters the history without the mark.
RecordReplyUnmarked(full) ==
    LET records == IF barged_in THEN response_task.said ELSE full
    IN  messages' = IF records /\ ~IsGreeting
                    THEN AddTurn(messages, "assistant", response_task.turn)
                    ELSE messages

\* A reply enters the history, as far as it was said when it was interrupted.
RecordReply(full) ==
    LET role == IF barged_in THEN "interrupted" ELSE "assistant"
        records == IF barged_in THEN response_task.said ELSE full
    IN  messages' = IF records /\ ~IsGreeting
                    THEN AddTurn(messages, role, response_task.turn)
                    ELSE messages

\* Mutant: the greeting leaves the barge-in flag to the first turn.
FinishLeaksBargeIn(full, exit) ==
    /\ RecordReply(full)
    /\ barged_in' = (barged_in /\ IsGreeting)
    /\ agent_is_speaking' = FALSE
    /\ transcript_buffer' = <<>>
    /\ hung_up' = (hung_up \/ ending)
    /\ response_task' = [response_task EXCEPT
                            !.at = IF ending THEN "hangup" ELSE "ended",
                            !.full = full, !.cancelled = FALSE, !.exit = exit]
    /\ UNCHANGED <<speak_gen, speak_done>>

\* Mutant: the finally clause of the greeting does not hang up.
FinishGreetingGoesOn(full, exit) ==
    /\ RecordReply(full)
    /\ barged_in' = FALSE
    /\ agent_is_speaking' = FALSE
    /\ transcript_buffer' = <<>>
    /\ hung_up' = (hung_up \/ (ending /\ ~IsGreeting))
    /\ response_task' = [response_task EXCEPT
                            !.at = IF ending /\ ~IsGreeting THEN "hangup" ELSE "ended",
                            !.full = full, !.cancelled = FALSE, !.exit = exit]
    /\ UNCHANGED <<speak_gen, speak_done>>

\* The finally clause of _greet or _generate_response: record what was said,
\* consume the barge-in flag, and hang up when the conversation is ending.
Finish(full, exit) ==
    /\ RecordReply(full)
    /\ barged_in' = FALSE
    /\ agent_is_speaking' = FALSE
    /\ transcript_buffer' = <<>>
    /\ hung_up' = (hung_up \/ ending)
    /\ response_task' = [response_task EXCEPT
                            !.at = IF ending THEN "hangup" ELSE "ended",
                            !.full = full, !.cancelled = FALSE, !.exit = exit]
    /\ UNCHANGED <<speak_gen, speak_done>>

\* The top of the LLM loop: the budget message is spoken once the budget is
\* gone, else the response waits for the LLM.
StartRound(response) ==
    \/ /\ "budget" \in Faults
       /\ budget_announced' = TRUE
       /\ Speak([response EXCEPT !.full = TRUE])
    \/ /\ response_task' = [response EXCEPT !.at = "llm"]
       /\ UNCHANGED <<speech, budget_announced>>

GreetingStarts ==
    /\ Resumes("new")
    /\ IsGreeting
    /\ Speak(response_task)
    /\ UNCHANGED <<events, run_task, conversation, status, environment>>

ReplyStarts ==
    /\ Resumes("new")
    /\ ~IsGreeting
    /\ ~budget_announced
    /\ StartRound(response_task)
    /\ UNCHANGED <<events, run_task, conversation, ending, closed, environment>>

\* The budget is gone and the caller was told: return, before the try statement.
ReplySkipped ==
    /\ Resumes("new")
    /\ ~IsGreeting
    /\ budget_announced
    /\ response_task' = [response_task EXCEPT !.at = "ended"]
    /\ UNCHANGED <<events, run_task, conversation, speech, status, environment>>

\* The LLM's stream ends with text to speak.
LlmAnswers ==
    /\ Resumes("llm")
    /\ Speak([response_task EXCEPT !.full = TRUE])
    /\ UNCHANGED <<events, run_task, conversation, status, environment>>

\* The LLM's stream ends with no text, or with blank text that is not spoken.
LlmIsSilent ==
    /\ Resumes("llm")
    /\ \E full \in BOOLEAN : Finish(full, "ok")
    /\ UNCHANGED <<events, run_task, status, environment>>

\* Mutant: one tool round too many.
LlmCallsToolOnceMore ==
    /\ Resumes("llm")
    /\ response_task.tool_rounds <= MaxToolRounds
    /\ LET turn == response_task.turn
       IN  messages' = AddToolResult(AddTurn(messages, "tool_calls", turn), turn)
    /\ \E terminal \in BOOLEAN : ending' = (ending \/ terminal)
    /\ StartRound([response_task EXCEPT !.tool_rounds = @ + 1])
    /\ UNCHANGED <<events, run_task, transcript_buffer, closed, environment>>

\* The LLM calls a tool, which may lead to a terminal node of the flow.
LlmCallsTool ==
    /\ Resumes("llm")
    /\ response_task.tool_rounds < MaxToolRounds
    /\ LET turn == response_task.turn
       IN  messages' = AddToolResult(AddTurn(messages, "tool_calls", turn), turn)
    /\ \E terminal \in BOOLEAN : ending' = (ending \/ terminal)
    /\ StartRound([response_task EXCEPT !.tool_rounds = @ + 1])
    /\ UNCHANGED <<events, run_task, transcript_buffer, closed, environment>>

\* The LLM calls a tool once more than allowed: apologise instead.
LlmCallsTooManyTools ==
    /\ Resumes("llm")
    /\ response_task.tool_rounds >= MaxToolRounds
    /\ Speak([response_task EXCEPT !.tool_rounds = @ + 1, !.full = TRUE])
    /\ UNCHANGED <<events, run_task, conversation, status, environment>>

\* The call of a tool raises after it was recorded: apologise.
ToolRaises ==
    /\ "tools" \in Faults
    /\ Resumes("llm")
    /\ response_task.tool_rounds < MaxToolRounds
    /\ messages' = AddTurn(messages, "tool_calls", response_task.turn)
    /\ Speak([response_task EXCEPT !.tool_rounds = @ + 1, !.fallback = TRUE])
    /\ UNCHANGED <<events, run_task, transcript_buffer, status, environment>>

\* The LLM's stream fails for good: apologise.
LlmFails ==
    /\ "llm" \in Faults
    /\ Resumes("llm")
    /\ Speak([response_task EXCEPT !.fallback = TRUE])
    /\ UNCHANGED <<events, run_task, conversation, status, environment>>

\* Mutant: the response does not wait for the end of the playback.
SpeakIssuedFinishes ==
    /\ Resumes("speak")
    /\ Finish(~IsGreeting, "ok")
    /\ UNCHANGED <<events, run_task, status, environment>>

\* The speak command returns; now the response waits for the end of the playback.
SpeakIssued ==
    /\ Resumes("speak")
    /\ response_task' = [response_task EXCEPT !.at = "play"]
    /\ UNCHANGED <<events, run_task, conversation, speech, status, environment>>

\* The speak command raises: the greeting ends with the exception, a reply
\* apologises, and an apology is given up.
SpeakFails ==
    /\ "speak" \in Faults
    /\ Resumes("speak")
    /\ IF IsGreeting THEN Finish(FALSE, "raised")
       ELSE IF response_task.fallback THEN Finish(TRUE, "ok")
       ELSE /\ Speak([response_task EXCEPT !.fallback = TRUE])
            /\ UNCHANGED conversation
    /\ UNCHANGED <<events, run_task, status, environment>>

\* Mutant: the loop is not left after the apology for too many rounds.
PlaybackEndsAndGoesOn ==
    /\ Resumes("play")
    /\ speak_done
    /\ IF response_task.tool_rounds > MaxToolRounds
       THEN StartRound(response_task) /\ UNCHANGED <<messages, transcript_buffer>>
       ELSE Finish(~IsGreeting, "ok") /\ UNCHANGED budget_announced
    /\ UNCHANGED <<events, run_task, ending, closed, environment>>

\* The playback has ended, as a webhook said, or the speak timeout expires.
PlaybackEnds ==
    /\ Resumes("play")
    /\ speak_done
    /\ Finish(~IsGreeting, "ok")
    /\ UNCHANGED <<events, run_task, status, environment>>

\* Mutant: no timeout.
PlaybackNeverTimesOut == FALSE

PlaybackTimesOut ==
    /\ Resumes("play")
    /\ ~speak_done
    /\ Finish(~IsGreeting, "ok")
    /\ UNCHANGED <<events, run_task, status, environment>>

\* CancelledError reaches the response.  A task that has not started just ends;
\* the except clause swallows the error, unless it is raised in another except
\* clause (the apology) or in the finally clause (the hangup).
ResponseCancelled ==
    /\ ~run_task.holds
    /\ Live
    /\ response_task.cancelled
    /\ IF response_task.at \in {"new", "hangup"}
       THEN /\ response_task' = [response_task EXCEPT
                                    !.at = "ended", !.cancelled = FALSE, !.exit = "cancelled"]
            /\ UNCHANGED <<conversation, speech>>
       ELSE Finish(response_task.full, IF response_task.fallback THEN "cancelled" ELSE "ok")
    /\ UNCHANGED <<events, run_task, status, environment>>

\* The hangup command of the finally clause returns or raises.
ResponseHangupReturns ==
    /\ Resumes("hangup")
    /\ response_task' = [response_task EXCEPT !.at = "ended"]
    /\ UNCHANGED <<events, run_task, conversation, speech, status, environment>>

ResponseStep ==
    \/ GreetingStarts
    \/ ReplyStarts
    \/ ReplySkipped
    \/ LlmAnswers
    \/ LlmIsSilent
    \/ LlmCallsTool
    \/ LlmCallsTooManyTools
    \/ ToolRaises
    \/ LlmFails
    \/ SpeakIssued
    \/ SpeakFails
    \/ PlaybackEnds
    \/ PlaybackTimesOut
    \/ ResponseCancelled
    \/ ResponseHangupReturns

-----------------------------------------------------------------------------
(***************************************************************************)
(* The webhook handlers, which put items on the queue, and the shutdown of *)
(* the server.  Items behind a hangup are never read and are left out.     *)
(***************************************************************************)

Submits(items) ==
    /\ ~run_task.holds
    /\ run_task.at \notin {"reapEnd", "stopTranscription", "done"}
    /\ \A i \in 1..Len(events) : events[i].type # "hangup"
    /\ Len(events) + Len(items) <= MaxQueue
    /\ events' = events \o items
    /\ UNCHANGED <<run_task, response_task, conversation, speech, status, shutdown>>

\* Mutant: the utterance end is queued before its words.
SubmitFinalLast ==
    /\ finals < MaxFinals
    /\ finals' = finals + 1
    /\ Submits(<<Item("uend", 0), Item("final", finals + 1)>>)
    /\ UNCHANGED reported

SubmitFinal ==
    /\ finals < MaxFinals
    /\ finals' = finals + 1
    /\ Submits(<<Item("final", finals + 1), Item("uend", 0)>>)
    /\ UNCHANGED reported

SubmitInterim ==
    /\ Submits(<<Item("interim", 0)>>)
    /\ UNCHANGED <<finals, reported>>

\* Webhooks may be late, repeated or lost; generation 0 is an unreadable one.
\* The generation before the latest stands for all the earlier ones.
SubmitSpeakEnded ==
    /\ \E generation \in {0} \cup (speak_gen - 1 .. speak_gen) :
          /\ generation >= 0
          /\ Submits(<<Item("ended", generation)>>)
          /\ reported' = IF generation > reported THEN generation ELSE reported
    /\ UNCHANGED finals

SubmitHangup ==
    /\ Submits(<<Item("hangup", 0)>>)
    /\ UNCHANGED <<finals, reported>>

\* The lifespan handler cancels the run task.  The cancellation goes on to the
\* response when the run task is waiting for it.
Shutdown ==
    /\ "shutdown" \in Faults
    /\ ~shutdown
    /\ ~run_task.holds
    /\ run_task.at # "done"
    /\ shutdown' = TRUE
    /\ IF run_task.at \in {"reapBarge", "reapTurn", "reapEnd"} /\ Live
       THEN /\ response_task' = [response_task EXCEPT !.cancelled = TRUE]
            /\ UNCHANGED run_task
       ELSE /\ run_task' = [run_task EXCEPT !.cancelled = TRUE]
            /\ UNCHANGED response_task
    /\ UNCHANGED <<events, conversation, speech, status, finals, reported>>

Environment ==
    \/ SubmitFinal
    \/ SubmitInterim
    \/ SubmitSpeakEnded
    \/ SubmitHangup
    \/ Shutdown

\* The call is over.
Over ==
    /\ run_task.at = "done"
    /\ UNCHANGED vars

Next == RunStep \/ ResponseStep \/ Environment \/ Over

(***************************************************************************)
(* The event loop runs ready tasks in the order in which they became       *)
(* ready, and every command and stream the tasks await has a timeout: no   *)
(* task is left waiting for ever.  A response step is disabled while the   *)
(* run task holds the event loop, hence the strong fairness.               *)
(***************************************************************************)
Fairness == WF_vars(RunStep) /\ SF_vars(ResponseStep)

Spec == Init /\ [][Next]_vars /\ Fairness

-----------------------------------------------------------------------------
(***************************************************************************)
(* Properties.                                                             *)
(***************************************************************************)

ItemSet == [type : {"final", "uend", "interim", "ended", "hangup"}, n : Nat]

RunTaskSet ==
    [at : {"transcribe", "get", "stopPlayback", "reapBarge", "reapTurn", "hangup",
           "reapEnd", "stopTranscription", "done"},
     kept : Seq(Nat), holds : BOOLEAN, cancelled : BOOLEAN]

ResponseTaskSet ==
    [at : {"none", "new", "llm", "speak", "play", "hangup", "ended"},
     turn : Seq(Nat), tool_rounds : 0..(MaxToolRounds + 1),
     fallback : BOOLEAN, said : BOOLEAN, full : BOOLEAN,
     cancelled : BOOLEAN, exit : {"ok", "cancelled", "raised"}]

\* The type invariant; its bound on tool_rounds says that a reply asks the LLM
\* at most once more than max_tool_rounds allows (agent.py:389-399).
TypeOK ==
    /\ events \in Seq(ItemSet)
    /\ run_task \in RunTaskSet
    /\ response_task \in ResponseTaskSet
    /\ messages \in Seq(Message)
    /\ transcript_buffer \in Seq(Nat)
    /\ agent_is_speaking \in BOOLEAN
    /\ barged_in \in BOOLEAN
    /\ speak_gen \in Nat
    /\ speak_done \in BOOLEAN
    /\ ending \in BOOLEAN
    /\ budget_announced \in BOOLEAN
    /\ closed \in BOOLEAN
    /\ hung_up \in BOOLEAN
    /\ finals \in Nat
    /\ reported \in Nat
    /\ shutdown \in BOOLEAN

\* The barge-in state belongs to the response that is speaking: a flag left on
\* after it (agent.py:233 "wedge agent_is_speaking on", :476 "leak into the
\* first turn") would turn the caller's next words into a barge-in on nothing.
SpeakingFlagsTrackTheTask ==
    agent_is_speaking \/ barged_in <=> response_task.at \in {"speak", "play"}

\* Words wait in the turn buffer only while the run task holds the event loop
\* and the utterance end that completes them is next: a set_listening of a
\* response that ends (agent.py:451, :479) finds nothing to discard.
BufferIsTransient ==
    transcript_buffer # <<>> =>
        /\ run_task.at = "get"
        /\ run_task.holds
        /\ events # <<>>
        /\ Head(events).type = "uend"

\* The caller's words in a history: those of its user turns.
TurnWords(m) ==
    FlattenSeq([i \in 1..Len(m) |-> IF m[i].role = "user" THEN m[i].turn ELSE <<>>])

\* The caller's words on a queue: each final carries one.
QueuedWords(q) ==
    FlattenSeq([i \in 1..Len(q) |-> IF q[i].type = "final" THEN <<q[i].n>> ELSE <<>>])

\* The caller's words on their way to the LLM, in order: in the history, kept or
\* buffered by the run task, and on the queue.
HeardWords ==
    TurnWords(messages) \o run_task.kept \o transcript_buffer \o QueuedWords(events)

\* While the call goes on, no barge-in, superseded reply or set_listening loses,
\* repeats or reorders words of the caller (agent.py:211-224 "so barge-in does
\* not swallow the utterance"): the words heard are the last ones submitted, and
\* the trimmed history is all that may be missing before them.
NoWordsLost ==
    ~ending /\ run_task.at \in {"transcribe", "get", "stopPlayback", "reapBarge", "reapTurn"} =>
        LET known == Len(HeardWords)
        IN  /\ known >= finals \/ known >= MaxTurns
            /\ \A i \in 1..known : HeardWords[i] = finals - known + i

\* What a response records follows the user turn that it answers: a response
\* that was interrupted or superseded never writes behind the next user turn
\* (agent.py:229-243).
RepliesFollowTheirTurn ==
    \A i \in 2..Len(messages) :
        messages[i].role # "user" => messages[i].turn = messages[i - 1].turn

\* A speak waiter is only released by a webhook for the speak it waits for
\* (agent.py:278-284): its own generation was reported.  A report whose generation
\* cannot be read, which is 0 here, releases nobody, although server.py:42-43 says
\* that "the agent treats" it "as the current speak ended".
StaleCompletionsIgnored == speak_done => reported = speak_gen

\* Teardown leaves no response behind: nothing speaks or hangs up on the call's
\* leg once transcription is being stopped (agent.py:254-260).
TeardownLeavesNoResponse ==
    run_task.at \in {"stopTranscription", "done"} => ~Live

\* The agent hangs up after its last reply: no response talks to the LLM or to
\* the caller after that, and no turn starts one "before the hangup"
\* (agent.py:197-200, :456-462).
NothingAfterTheHangup ==
    hung_up => ending /\ response_task.at \in {"none", "hangup", "ended"}

\* The stage of the response as Reply has it; the greeting is a reply that does
\* not ask.
Stage ==
    CASE hung_up -> "over"
      [] ~hung_up /\ response_task.at \in {"none", "new", "hangup", "ended"} -> "none"
      [] ~hung_up /\ response_task.at = "llm" -> "asking"
      [] ~hung_up /\ response_task.at \in {"speak", "play"} ->
            IF response_task.fallback THEN "apologising" ELSE "speaking"

Replies ==
    INSTANCE Reply WITH stage <- Stage,
                        rounds <- IF Stage = "asking" THEN response_task.tool_rounds ELSE 0

\* Whatever interrupts, supersedes or fails it, a reply stays within its rounds,
\* speaks once, and apologises at most after that (agent.py:343-439).
ImplementsReply == Replies!RepliesSpec

\* A new response is only created when the one before has ended, whatever the
\* run task waited for in between (agent.py:229-233).
OneResponseAtATime ==
    [][response_task'.at = "new" /\ response_task.at # "new"
         => response_task.at \in {"none", "ended"}]_vars

\* No response hangs for ever, not even when the webhook that reports the end
\* of its playback is lost (agent.py:512-516).
EveryResponseEnds == Live ~> ~Live

-----------------------------------------------------------------------------
(***************************************************************************)
(* What comments of the code say and the code does not do.                 *)
(***************************************************************************)

\* agent.py:237-238: "the reaped task returns normally".  CancelledError, which
\* suppress(Exception) lets through, never comes out of a reaped response.
ReapedTaskReturnsNormally ==
    run_task.at \in {"reapBarge", "reapTurn"} /\ ~Live => response_task.exit # "cancelled"

=============================================================================

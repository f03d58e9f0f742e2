-------------------------- MODULE VoiceAgentProofs --------------------------
(***************************************************************************)
(* Theorems about VoiceAgent, for every value of its constants: the types, *)
(* the barge-in flags, the teardown and the hangup, the completions, the   *)
(* turn buffer, the history, the caller's words, and that the replies are  *)
(* those of Reply.                                                         *)
(***************************************************************************)
EXTENDS VoiceAgent, ConversationProofs, SequenceProofs

-----------------------------------------------------------------------------
(***************************************************************************)
(* Types of the operators the actions are built from.                      *)
(***************************************************************************)

LEMMA NewResponseType ==
    ASSUME NEW turn \in Seq(Nat)
    PROVE  NewResponse(turn) \in ResponseTaskSet
  BY VoiceAgentAssumption DEF NewResponse, ResponseTaskSet

LEMMA BackToGetType ==
    ASSUME NEW q
    PROVE  BackToGet(q) \in RunTaskSet
  BY DEF BackToGet, RunTaskSet

LEMMA CancelAndReapType ==
    ASSUME TypeOK, NEW kept \in Seq(Nat),
           NEW place \in {"reapBarge", "reapTurn", "reapEnd"},
           CancelAndReap(place, kept)
    PROVE  run_task' \in RunTaskSet /\ response_task' \in ResponseTaskSet
  BY DEF TypeOK, CancelAndReap, SuspendedAt, RunTaskSet, ResponseTaskSet

LEMMA EnterTeardownType ==
    ASSUME TypeOK, EnterTeardown
    PROVE  run_task' \in RunTaskSet /\ response_task' \in ResponseTaskSet
<1>1. CASE Live
  <2>1. CancelAndReap("reapEnd", <<>>)
    BY <1>1 DEF EnterTeardown
  <2>2. <<>> \in Seq(Nat)
    OBVIOUS
  <2> QED
    BY <2>1, <2>2, CancelAndReapType
<1>2. CASE ~Live
  <2>1. run_task' = SuspendedAt("stopTranscription", <<>>) /\ response_task' = response_task
    BY <1>2 DEF EnterTeardown
  <2> QED
    BY <2>1 DEF TypeOK, SuspendedAt, RunTaskSet
<1> QED
  BY <1>1, <1>2

LEMMA TakesType ==
    ASSUME TypeOK, NEW type, Takes(type)
    PROVE  /\ events' \in Seq(ItemSet)
           /\ Head(events) \in ItemSet
  BY DEF TypeOK, Takes

LEMMA StartReplyType ==
    ASSUME TypeOK, NEW turn \in Seq(Nat), StartReply(turn)
    PROVE  /\ messages' \in Seq(Message)
           /\ response_task' \in ResponseTaskSet
           /\ run_task' \in RunTaskSet
<1>1. messages' \in Seq(Message)
  BY AddTurnType DEF TypeOK, StartReply, Role
<1> QED
  BY <1>1, NewResponseType, BackToGetType DEF StartReply

LEMMA SpeakType ==
    ASSUME TypeOK, NEW response \in ResponseTaskSet, Speak(response)
    PROVE  /\ response_task' \in ResponseTaskSet
           /\ agent_is_speaking' \in BOOLEAN
           /\ barged_in' \in BOOLEAN
           /\ speak_gen' \in Nat
           /\ speak_done' \in BOOLEAN
           /\ hung_up' \in BOOLEAN
<1>1. response_task' \in ResponseTaskSet
  BY DEF Speak, ResponseTaskSet
<1>2. speak_gen' \in Nat
  BY DEF TypeOK, Speak
<1>3. /\ agent_is_speaking' \in BOOLEAN
      /\ barged_in' \in BOOLEAN
      /\ speak_done' \in BOOLEAN
      /\ hung_up' \in BOOLEAN
  BY Zenon DEF TypeOK, Speak
<1> QED
  BY <1>1, <1>2, <1>3

LEMMA FinishType ==
    ASSUME TypeOK, NEW full \in BOOLEAN, NEW exit \in {"ok", "cancelled", "raised"},
           Finish(full, exit)
    PROVE  /\ messages' \in Seq(Message)
           /\ response_task' \in ResponseTaskSet
           /\ transcript_buffer' \in Seq(Nat)
           /\ agent_is_speaking' \in BOOLEAN
           /\ barged_in' \in BOOLEAN
           /\ speak_gen' \in Nat
           /\ speak_done' \in BOOLEAN
           /\ hung_up' \in BOOLEAN
<1>1. response_task.turn \in Seq(Nat)
  BY DEF TypeOK, ResponseTaskSet
<1>2. messages' \in Seq(Message)
  BY <1>1, AddTurnType DEF TypeOK, Finish, RecordReply, Role
<1>3. response_task' \in ResponseTaskSet
  BY DEF TypeOK, Finish, ResponseTaskSet
<1>4. transcript_buffer' \in Seq(Nat)
  BY DEF Finish
<1>5. /\ agent_is_speaking' \in BOOLEAN
      /\ barged_in' \in BOOLEAN
      /\ speak_gen' \in Nat
      /\ speak_done' \in BOOLEAN
      /\ hung_up' \in BOOLEAN
  BY Zenon DEF TypeOK, Finish
<1> QED
  BY <1>2, <1>3, <1>4, <1>5

LEMMA StartRoundType ==
    ASSUME TypeOK, NEW response \in ResponseTaskSet, StartRound(response)
    PROVE  /\ response_task' \in ResponseTaskSet
           /\ agent_is_speaking' \in BOOLEAN
           /\ barged_in' \in BOOLEAN
           /\ speak_gen' \in Nat
           /\ speak_done' \in BOOLEAN
           /\ hung_up' \in BOOLEAN
           /\ budget_announced' \in BOOLEAN
<1>1. CASE /\ budget_announced' = TRUE
           /\ Speak([response EXCEPT !.full = TRUE])
  <2>1. [response EXCEPT !.full = TRUE] \in ResponseTaskSet
    BY DEF ResponseTaskSet
  <2> QED
    BY <1>1, <2>1, SpeakType
<1>2. CASE /\ response_task' = [response EXCEPT !.at = "llm"]
           /\ UNCHANGED <<speech, budget_announced>>
  BY <1>2 DEF TypeOK, speech, ResponseTaskSet
<1> QED
  BY <1>1, <1>2 DEF StartRound

-----------------------------------------------------------------------------
(***************************************************************************)
(* What the run task and the environment may do to the response task.      *)
(***************************************************************************)

CancelRequested == Live /\ response_task' = [response_task EXCEPT !.cancelled = TRUE]

ResponseReplaced ==
    /\ run_task.at = "transcribe" \/ ~Live
    /\ \E turn \in Seq(Nat) : response_task' = NewResponse(turn)

LEMMA EnterTeardownResponse ==
    ASSUME EnterTeardown
    PROVE  response_task' = response_task \/ CancelRequested
<1>1. CASE Live
  BY <1>1 DEF EnterTeardown, CancelAndReap, CancelRequested
<1>2. CASE ~Live
  BY <1>2 DEF EnterTeardown
<1> QED
  BY <1>1, <1>2

LEMMA RunStepResponse ==
    ASSUME TypeOK, RunStep
    PROVE  response_task' = response_task \/ CancelRequested \/ ResponseReplaced
<1>0. <<>> \in Seq(Nat) /\ run_task.kept \in Seq(Nat) /\ transcript_buffer \in Seq(Nat)
  BY DEF TypeOK, RunTaskSet
<1>1. CASE TranscriptionStarts
  <2>1. run_task.at = "transcribe"
    BY <1>1 DEF TranscriptionStarts, At
  <2>2. response_task' = response_task \/ response_task' = NewResponse(<<>>)
    BY <1>1, Zenon DEF TranscriptionStarts
  <2> QED
    BY <1>0, <2>1, <2>2 DEF ResponseReplaced
<1>2. CASE TakeHangup
  BY <1>2, EnterTeardownResponse DEF TakeHangup
<1>3. CASE TakeTurn
  <2>1. CASE Live
    BY <1>3, <2>1 DEF TakeTurn, CancelAndReap, CancelRequested
  <2>2. CASE ~Live
    BY <1>0, <1>3, <2>2 DEF TakeTurn, StartReply, ResponseReplaced
  <2> QED
    BY <2>1, <2>2
<1>4. CASE PlaybackStops
  <2>1. CASE Live
    BY <1>4, <2>1 DEF PlaybackStops, CancelAndReap, CancelRequested
  <2>2. CASE ~Live
    BY <1>4, <2>2 DEF PlaybackStops
  <2> QED
    BY <2>1, <2>2
<1>5. CASE InterruptedReaped
  <2>1. CASE response_task.exit = "cancelled"
    BY <1>5, <2>1, EnterTeardownResponse DEF InterruptedReaped
  <2>2. CASE response_task.exit # "cancelled"
    BY <1>5, <2>2 DEF InterruptedReaped
  <2> QED
    BY <2>1, <2>2
<1>6. CASE SupersededReaped
  <2>1. CASE response_task.exit = "cancelled"
    BY <1>6, <2>1, EnterTeardownResponse DEF SupersededReaped
  <2>2. CASE response_task.exit # "cancelled"
    BY <1>0, <1>6, <2>2 DEF SupersededReaped, StartReply, ResponseReplaced
  <2> QED
    BY <2>1, <2>2
<1>7. CASE HangupReturns
  BY <1>7, EnterTeardownResponse DEF HangupReturns
<1>8. CASE RunCancelled
  BY <1>8, EnterTeardownResponse DEF RunCancelled
<1>9. CASE TakeSpeakEnded \/ TakeIgnored \/ TakeBargeIn \/ TakeFinal \/ LastReaped \/ TranscriptionStops
  BY <1>9, Zenon DEF TakeSpeakEnded, TakeIgnored, TakeBargeIn, TakeFinal, LastReaped, TranscriptionStops
<1> QED
  BY <1>1, <1>2, <1>3, <1>4, <1>5, <1>6, <1>7, <1>8, <1>9 DEF RunStep

LEMMA EnvironmentResponse ==
    ASSUME Environment
    PROVE  response_task' = response_task \/ CancelRequested
<1>1. CASE Shutdown
  BY <1>1 DEF Shutdown, CancelRequested
<1>2. CASE SubmitFinal \/ SubmitInterim \/ SubmitSpeakEnded \/ SubmitHangup
  BY <1>2, Zenon DEF SubmitFinal, SubmitInterim, SubmitSpeakEnded, SubmitHangup, Submits
<1> QED
  BY <1>1, <1>2 DEF Environment

-----------------------------------------------------------------------------
(***************************************************************************)
(* Type correctness.                                                       *)
(***************************************************************************)

LEMMA TypeInit == Init => TypeOK
<1> SUFFICES ASSUME Init PROVE TypeOK
  OBVIOUS
<1>1. run_task \in RunTaskSet
  BY DEF Init, RunTaskSet
<1>2. response_task \in ResponseTaskSet
  <2>1. <<>> \in Seq(Nat)
    OBVIOUS
  <2>2. NewResponse(<<>>) \in ResponseTaskSet
    BY <2>1, NewResponseType
  <2> QED
    BY <2>2 DEF Init, NoResponse, ResponseTaskSet
<1>3. /\ events \in Seq(ItemSet)
      /\ messages \in Seq(Message)
      /\ transcript_buffer \in Seq(Nat)
      /\ speak_gen \in Nat
      /\ finals \in Nat
      /\ reported \in Nat
  BY DEF Init
<1> QED
  BY <1>1, <1>2, <1>3, Zenon DEF Init, TypeOK

LEMMA TypeRunStep ==
    ASSUME TypeOK, RunStep
    PROVE  TypeOK'
<1> USE DEF conversation, speech, status, environment
<1>1. CASE TranscriptionStarts
  <2>1. PICK greets \in Greetings, failed \in BOOLEAN :
            /\ ending' = failed
            /\ IF greets
               THEN /\ response_task' = NewResponse(<<>>)
                    /\ run_task' = BackToGet(events)
               ELSE /\ run_task' = IF failed THEN SuspendedAt("hangup", <<>>)
                                             ELSE BackToGet(events)
                    /\ UNCHANGED response_task
            /\ hung_up' = (failed /\ ~greets)
    BY <1>1, Zenon DEF TranscriptionStarts
  <2>2. ending' \in BOOLEAN /\ hung_up' \in BOOLEAN
    BY <2>1, Zenon
  <2>3. response_task' \in ResponseTaskSet
    <3>1. <<>> \in Seq(Nat)
      OBVIOUS
    <3> QED
      BY <2>1, <3>1, NewResponseType, Zenon DEF TypeOK
  <2>4. run_task' \in RunTaskSet
    <3>1. SuspendedAt("hangup", <<>>) \in RunTaskSet
      BY DEF SuspendedAt, RunTaskSet
    <3> QED
      BY <2>1, <3>1, BackToGetType, Zenon
  <2> QED
    BY <1>1, <2>2, <2>3, <2>4, Zenon DEF TypeOK, TranscriptionStarts
<1>2. CASE TakeHangup
  <2>1. events' \in Seq(ItemSet)
    BY <1>2, TakesType DEF TakeHangup
  <2>2. run_task' \in RunTaskSet /\ response_task' \in ResponseTaskSet
    BY <1>2, EnterTeardownType DEF TakeHangup
  <2> QED
    BY <1>2, <2>1, <2>2, Zenon DEF TypeOK, TakeHangup
<1>3. CASE TakeSpeakEnded
  <2>1. events' \in Seq(ItemSet)
    BY <1>3, TakesType DEF TakeSpeakEnded
  <2>2. run_task' \in RunTaskSet
    BY <1>3, BackToGetType DEF TakeSpeakEnded
  <2>3. speak_done' \in BOOLEAN
    BY <1>3, Zenon DEF TypeOK, TakeSpeakEnded
  <2> QED
    BY <1>3, <2>1, <2>2, <2>3, Zenon DEF TypeOK, TakeSpeakEnded
<1>4. CASE TakeIgnored
  <2>1. events' \in Seq(ItemSet)
    BY <1>4, TakesType DEF TakeIgnored
  <2>2. run_task' \in RunTaskSet
    BY <1>4, BackToGetType DEF TakeIgnored
  <2> QED
    BY <1>4, <2>1, <2>2, Zenon DEF TypeOK, TakeIgnored
<1>5. CASE TakeBargeIn
  <2>1. PICK type \in {"interim", "final"} :
            /\ Takes(type)
            /\ run_task' = SuspendedAt("stopPlayback",
                               IF type = "final" THEN <<Head(events).n>> ELSE <<>>)
    BY <1>5 DEF TakeBargeIn
  <2>2. events' \in Seq(ItemSet) /\ Head(events).n \in Nat
    BY <2>1, TakesType DEF ItemSet
  <2>3. run_task' \in RunTaskSet
    BY <2>1, <2>2 DEF SuspendedAt, RunTaskSet
  <2> QED
    BY <1>5, <2>2, <2>3, Zenon DEF TypeOK, TakeBargeIn
<1>6. CASE TakeFinal
  <2>1. events' \in Seq(ItemSet) /\ Head(events).n \in Nat
    BY <1>6, TakesType DEF TakeFinal, ItemSet
  <2>2. run_task' \in RunTaskSet
    BY <1>6, BackToGetType DEF TakeFinal
  <2>3. transcript_buffer' \in Seq(Nat)
    BY <1>6, <2>1 DEF TypeOK, TakeFinal
  <2> QED
    BY <1>6, <2>1, <2>2, <2>3, Zenon DEF TypeOK, TakeFinal
<1>7. CASE TakeTurn
  <2>1. events' \in Seq(ItemSet)
    BY <1>7, TakesType DEF TakeTurn
  <2>2. transcript_buffer' \in Seq(Nat)
    BY <1>7 DEF TakeTurn
  <2>3. /\ run_task' \in RunTaskSet
        /\ response_task' \in ResponseTaskSet
        /\ messages' \in Seq(Message)
    <3>1. CASE Live
      BY <1>7, <3>1, CancelAndReapType DEF TypeOK, TakeTurn
    <3>2. CASE ~Live
      BY <1>7, <3>2, StartReplyType DEF TypeOK, TakeTurn
    <3> QED
      BY <3>1, <3>2
  <2> QED
    BY <1>7, <2>1, <2>2, <2>3, Zenon DEF TypeOK, TakeTurn
<1>8. CASE PlaybackStops
  <2>1. /\ run_task' \in RunTaskSet
        /\ response_task' \in ResponseTaskSet
        /\ transcript_buffer' \in Seq(Nat)
    <3>1. run_task.kept \in Seq(Nat)
      BY DEF TypeOK, RunTaskSet
    <3>2. CASE Live
      BY <1>8, <3>1, <3>2, CancelAndReapType DEF TypeOK, PlaybackStops
    <3>3. CASE ~Live
      BY <1>8, <3>1, <3>3, BackToGetType DEF TypeOK, PlaybackStops, Reseat
    <3> QED
      BY <3>2, <3>3
  <2> QED
    BY <1>8, <2>1, Zenon DEF TypeOK, PlaybackStops
<1>9. CASE InterruptedReaped
  <2>1. /\ run_task' \in RunTaskSet
        /\ response_task' \in ResponseTaskSet
        /\ transcript_buffer' \in Seq(Nat)
    <3>1. run_task.kept \in Seq(Nat)
      BY DEF TypeOK, RunTaskSet
    <3>2. CASE response_task.exit = "cancelled"
      BY <1>9, <3>2, EnterTeardownType DEF TypeOK, InterruptedReaped
    <3>3. CASE response_task.exit # "cancelled"
      BY <1>9, <3>1, <3>3, BackToGetType DEF TypeOK, InterruptedReaped, Reseat
    <3> QED
      BY <3>2, <3>3
  <2> QED
    BY <1>9, <2>1, Zenon DEF TypeOK, InterruptedReaped
<1>10. CASE SupersededReaped
  <2>1. /\ run_task' \in RunTaskSet
        /\ response_task' \in ResponseTaskSet
        /\ messages' \in Seq(Message)
    <3>1. run_task.kept \in Seq(Nat)
      BY DEF TypeOK, RunTaskSet
    <3>2. CASE response_task.exit = "cancelled"
      BY <1>10, <3>2, EnterTeardownType DEF TypeOK, SupersededReaped
    <3>3. CASE response_task.exit # "cancelled"
      BY <1>10, <3>1, <3>3, StartReplyType DEF SupersededReaped
    <3> QED
      BY <3>2, <3>3
  <2> QED
    BY <1>10, <2>1, Zenon DEF TypeOK, SupersededReaped
<1>11. CASE HangupReturns
  <2>1. run_task' \in RunTaskSet /\ response_task' \in ResponseTaskSet
    BY <1>11, EnterTeardownType DEF HangupReturns
  <2> QED
    BY <1>11, <2>1, Zenon DEF TypeOK, HangupReturns
<1>12. CASE RunCancelled
  <2>1. run_task' \in RunTaskSet /\ response_task' \in ResponseTaskSet
    BY <1>12, EnterTeardownType DEF RunCancelled
  <2> QED
    BY <1>12, <2>1, Zenon DEF TypeOK, RunCancelled
<1>13. CASE LastReaped
  <2>1. run_task' \in RunTaskSet
    BY <1>13 DEF LastReaped, SuspendedAt, RunTaskSet
  <2> QED
    BY <1>13, <2>1, Zenon DEF TypeOK, LastReaped
<1>14. CASE TranscriptionStops
  <2>1. run_task' \in RunTaskSet
    BY <1>14 DEF TranscriptionStops, SuspendedAt, RunTaskSet
  <2>2. closed' \in BOOLEAN
    BY <1>14, Zenon DEF TypeOK, TranscriptionStops
  <2> QED
    BY <1>14, <2>1, <2>2, Zenon DEF TypeOK, TranscriptionStops
<1> QED
  BY <1>1, <1>2, <1>3, <1>4, <1>5, <1>6, <1>7, <1>8, <1>9, <1>10, <1>11, <1>12, <1>13, <1>14
     DEF RunStep

LEMMA OneMoreRoundType ==
    ASSUME NEW response \in ResponseTaskSet, response.tool_rounds <= MaxToolRounds
    PROVE  [response EXCEPT !.tool_rounds = @ + 1] \in ResponseTaskSet
<1>1. response.tool_rounds + 1 \in 0..(MaxToolRounds + 1)
  BY VoiceAgentAssumption DEF ResponseTaskSet
<1> QED
  BY <1>1 DEF ResponseTaskSet

\* A response that waits for the LLM has a tool round left to count.
RoundsLeft ==
    response_task.at \in {"new", "llm"} => response_task.tool_rounds <= MaxToolRounds

LEMMA TypeResponseStep ==
    ASSUME TypeOK, RoundsLeft, ResponseStep
    PROVE  TypeOK'
<1> USE DEF conversation, speech, status, environment
<1>0. response_task \in ResponseTaskSet
  BY DEF TypeOK
<1>1. CASE GreetingStarts
  BY <1>0, <1>1, SpeakType, Zenon DEF TypeOK, GreetingStarts
<1>2. CASE ReplyStarts
  BY <1>0, <1>2, StartRoundType, Zenon DEF TypeOK, ReplyStarts
<1>3. CASE ReplySkipped
  <2>1. response_task' \in ResponseTaskSet
    BY <1>0, <1>3 DEF ReplySkipped, ResponseTaskSet
  <2> QED
    BY <1>3, <2>1, Zenon DEF TypeOK, ReplySkipped
<1>4. CASE LlmAnswers
  <2>1. [response_task EXCEPT !.full = TRUE] \in ResponseTaskSet
    BY <1>0 DEF ResponseTaskSet
  <2> QED
    BY <1>4, <2>1, SpeakType, Zenon DEF TypeOK, LlmAnswers
<1>5. CASE LlmIsSilent
  <2>1. PICK full \in BOOLEAN : Finish(full, "ok")
    BY <1>5, Zenon DEF LlmIsSilent
  <2> QED
    BY <1>5, <2>1, FinishType, Zenon DEF TypeOK, LlmIsSilent
<1>6. CASE LlmCallsTool
  <2>1. [response_task EXCEPT !.tool_rounds = @ + 1] \in ResponseTaskSet
    BY <1>0, <1>6, OneMoreRoundType DEF LlmCallsTool, Resumes, RoundsLeft
  <2>2. messages' \in Seq(Message)
    <3>1. response_task.turn \in Seq(Nat)
      BY <1>0 DEF ResponseTaskSet
    <3>2. AddTurn(messages, "tool_calls", response_task.turn) \in Seq(Message)
      BY <3>1, AddTurnType DEF TypeOK, Role
    <3> QED
      BY <1>6, <3>1, <3>2, AddToolResultType DEF LlmCallsTool
  <2>3. ending' \in BOOLEAN
    BY <1>6, Zenon DEF TypeOK, LlmCallsTool
  <2> QED
    BY <1>6, <2>1, <2>2, <2>3, StartRoundType, Zenon DEF TypeOK, LlmCallsTool
<1>7. CASE LlmCallsTooManyTools
  <2>1. [response_task EXCEPT !.tool_rounds = @ + 1] \in ResponseTaskSet
    BY <1>0, <1>7, OneMoreRoundType DEF LlmCallsTooManyTools, Resumes, RoundsLeft
  <2>2. [response_task EXCEPT !.tool_rounds = @ + 1, !.full = TRUE] \in ResponseTaskSet
    BY <1>0, <2>1 DEF ResponseTaskSet
  <2> QED
    BY <1>7, <2>2, SpeakType, Zenon DEF TypeOK, LlmCallsTooManyTools
<1>8. CASE ToolRaises
  <2>0. [response_task EXCEPT !.tool_rounds = @ + 1] \in ResponseTaskSet
    BY <1>0, <1>8, OneMoreRoundType DEF ToolRaises, Resumes, RoundsLeft
  <2>1. [response_task EXCEPT !.tool_rounds = @ + 1, !.fallback = TRUE] \in ResponseTaskSet
    BY <1>0, <2>0 DEF ResponseTaskSet
  <2>2. messages' \in Seq(Message)
    <3>1. response_task.turn \in Seq(Nat)
      BY <1>0 DEF ResponseTaskSet
    <3> QED
      BY <1>8, <3>1, AddTurnType DEF TypeOK, Role, ToolRaises
  <2> QED
    BY <1>8, <2>1, <2>2, SpeakType, Zenon DEF TypeOK, ToolRaises
<1>9. CASE LlmFails
  <2>1. [response_task EXCEPT !.fallback = TRUE] \in ResponseTaskSet
    BY <1>0 DEF ResponseTaskSet
  <2> QED
    BY <1>9, <2>1, SpeakType, Zenon DEF TypeOK, LlmFails
<1>10. CASE SpeakIssued
  <2>1. response_task' \in ResponseTaskSet
    BY <1>0, <1>10 DEF SpeakIssued, ResponseTaskSet
  <2> QED
    BY <1>10, <2>1, Zenon DEF TypeOK, SpeakIssued
<1>11. CASE SpeakFails
  <2>1. CASE Finish(FALSE, "raised")
    BY <1>11, <2>1, FinishType, Zenon DEF TypeOK, SpeakFails
  <2>2. CASE Finish(TRUE, "ok")
    BY <1>11, <2>2, FinishType, Zenon DEF TypeOK, SpeakFails
  <2>3. CASE Speak([response_task EXCEPT !.fallback = TRUE]) /\ UNCHANGED conversation
    <3>1. [response_task EXCEPT !.fallback = TRUE] \in ResponseTaskSet
      BY <1>0 DEF ResponseTaskSet
    <3> QED
      BY <1>11, <2>3, <3>1, SpeakType, Zenon DEF TypeOK, SpeakFails
  <2> QED
    BY <1>11, <2>1, <2>2, <2>3, Zenon DEF SpeakFails
<1>12. CASE PlaybackEnds
  <2>1. (~IsGreeting) \in BOOLEAN
    BY Zenon
  <2> QED
    BY <1>12, <2>1, FinishType, Zenon DEF TypeOK, PlaybackEnds
<1>13. CASE PlaybackTimesOut
  <2>1. (~IsGreeting) \in BOOLEAN
    BY Zenon
  <2> QED
    BY <1>13, <2>1, FinishType, Zenon DEF TypeOK, PlaybackTimesOut
<1>14. CASE ResponseCancelled
  <2>1. CASE response_task.at \in {"new", "hangup"}
    <3>1. response_task' \in ResponseTaskSet
      BY <1>0, <1>14, <2>1 DEF ResponseCancelled, ResponseTaskSet
    <3> QED
      BY <1>14, <2>1, <3>1, Zenon DEF TypeOK, ResponseCancelled
  <2>2. CASE response_task.at \notin {"new", "hangup"}
    <3>1. response_task.full \in BOOLEAN
      BY <1>0 DEF ResponseTaskSet
    <3>2. (IF response_task.fallback THEN "cancelled" ELSE "ok") \in {"ok", "cancelled", "raised"}
      BY Zenon
    <3> QED
      BY <1>14, <2>2, <3>1, <3>2, FinishType, Zenon DEF TypeOK, ResponseCancelled
  <2> QED
    BY <2>1, <2>2
<1>15. CASE ResponseHangupReturns
  <2>1. response_task' \in ResponseTaskSet
    BY <1>0, <1>15 DEF ResponseHangupReturns, ResponseTaskSet
  <2> QED
    BY <1>15, <2>1, Zenon DEF TypeOK, ResponseHangupReturns
<1> QED
  BY <1>1, <1>2, <1>3, <1>4, <1>5, <1>6, <1>7, <1>8, <1>9, <1>10, <1>11, <1>12, <1>13, <1>14,
     <1>15 DEF ResponseStep

LEMMA SubmitsType ==
    ASSUME TypeOK, NEW items \in Seq(ItemSet), Submits(items)
    PROVE  events' \in Seq(ItemSet)
  BY DEF TypeOK, Submits

LEMMA TypeEnvironment ==
    ASSUME TypeOK, Environment
    PROVE  TypeOK'
<1> USE DEF conversation, speech, status, environment
<1>1. CASE SubmitFinal
  <2>1. <<Item("final", finals + 1), Item("uend", 0)>> \in Seq(ItemSet)
    BY DEF TypeOK, Item, ItemSet
  <2>2. events' \in Seq(ItemSet)
    BY <1>1, <2>1, SubmitsType DEF SubmitFinal
  <2>3. finals' \in Nat
    BY <1>1 DEF TypeOK, SubmitFinal
  <2> QED
    BY <1>1, <2>2, <2>3, Zenon DEF TypeOK, SubmitFinal, Submits
<1>2. CASE SubmitInterim
  <2>1. <<Item("interim", 0)>> \in Seq(ItemSet)
    BY DEF Item, ItemSet
  <2>2. events' \in Seq(ItemSet)
    BY <1>2, <2>1, SubmitsType DEF SubmitInterim
  <2> QED
    BY <1>2, <2>2, Zenon DEF TypeOK, SubmitInterim, Submits
<1>3. CASE SubmitSpeakEnded
  <2>1. PICK generation \in {0} \cup (speak_gen - 1 .. speak_gen) :
            /\ generation >= 0
            /\ Submits(<<Item("ended", generation)>>)
            /\ reported' = IF generation > reported THEN generation ELSE reported
    BY <1>3 DEF SubmitSpeakEnded
  <2>2. generation \in Nat /\ reported' \in Nat
    BY <2>1 DEF TypeOK
  <2>3. <<Item("ended", generation)>> \in Seq(ItemSet)
    BY <2>2 DEF Item, ItemSet
  <2>4. events' \in Seq(ItemSet)
    BY <2>1, <2>3, SubmitsType
  <2> QED
    BY <1>3, <2>1, <2>2, <2>4, Zenon DEF TypeOK, SubmitSpeakEnded, Submits
<1>4. CASE SubmitHangup
  <2>1. <<Item("hangup", 0)>> \in Seq(ItemSet)
    BY DEF Item, ItemSet
  <2>2. events' \in Seq(ItemSet)
    BY <1>4, <2>1, SubmitsType DEF SubmitHangup
  <2> QED
    BY <1>4, <2>2, Zenon DEF TypeOK, SubmitHangup, Submits
<1>5. CASE Shutdown
  <2>1. response_task \in ResponseTaskSet /\ run_task \in RunTaskSet
    BY DEF TypeOK
  <2>2. [response_task EXCEPT !.cancelled = TRUE] \in ResponseTaskSet
    BY <2>1 DEF ResponseTaskSet
  <2>3. [run_task EXCEPT !.cancelled = TRUE] \in RunTaskSet
    BY <2>1 DEF RunTaskSet
  <2>4. response_task' \in ResponseTaskSet /\ run_task' \in RunTaskSet
    BY <1>5, <2>1, <2>2, <2>3, Zenon DEF Shutdown
  <2> QED
    BY <1>5, <2>4, Zenon DEF TypeOK, Shutdown
<1> QED
  BY <1>1, <1>2, <1>3, <1>4, <1>5 DEF Environment

TypeInv == TypeOK /\ RoundsLeft

LEMMA RoundsLeftStep ==
    ASSUME TypeInv, [Next]_vars
    PROVE  RoundsLeft'
<1>0. response_task \in ResponseTaskSet /\ RoundsLeft /\ TypeOK
  BY DEF TypeInv, TypeOK
<1>1. CASE response_task' = response_task \/ CancelRequested \/ ResponseReplaced
  <2>1. CASE response_task' = response_task
    BY <1>0, <2>1 DEF RoundsLeft
  <2>2. CASE CancelRequested
    BY <1>0, <2>2 DEF RoundsLeft, CancelRequested, ResponseTaskSet
  <2>3. CASE ResponseReplaced
    BY <2>3, VoiceAgentAssumption DEF RoundsLeft, ResponseReplaced, NewResponse
  <2> QED
    BY <1>1, <2>1, <2>2, <2>3
<1>2. CASE response_task'.at \notin {"new", "llm"}
  BY <1>2 DEF RoundsLeft
<1>3. ASSUME NEW response \in ResponseTaskSet, response.tool_rounds <= MaxToolRounds,
             StartRound(response)
      PROVE  RoundsLeft'
  <2>1. CASE Speak([response EXCEPT !.full = TRUE])
    <3>1. response_task'.at = "speak"
      BY <1>3, <2>1 DEF Speak, ResponseTaskSet
    <3> QED
      BY <3>1, <1>2
  <2>2. CASE response_task' = [response EXCEPT !.at = "llm"]
    BY <1>3, <2>2 DEF RoundsLeft, ResponseTaskSet
  <2> QED
    BY <1>3, <2>1, <2>2 DEF StartRound
<1>4. ASSUME NEW response \in ResponseTaskSet, Speak(response)
      PROVE  RoundsLeft'
  BY <1>4, <1>2 DEF Speak, ResponseTaskSet
<1>5. ASSUME NEW full, NEW exit, Finish(full, exit)
      PROVE  RoundsLeft'
  BY <1>0, <1>5, <1>2 DEF Finish, ResponseTaskSet
<1>6. CASE ResponseStep
  <2>1. CASE ReplyStarts
    BY <1>0, <1>3, <2>1 DEF ReplyStarts, Resumes, RoundsLeft
  <2>2. CASE LlmCallsTool
    <3>1. [response_task EXCEPT !.tool_rounds = @ + 1] \in ResponseTaskSet
      BY <1>0, <2>2, OneMoreRoundType DEF LlmCallsTool, Resumes, RoundsLeft
    <3>2. [response_task EXCEPT !.tool_rounds = @ + 1].tool_rounds <= MaxToolRounds
      BY <1>0, <2>2, VoiceAgentAssumption DEF LlmCallsTool, ResponseTaskSet
    <3> QED
      BY <1>3, <2>2, <3>1, <3>2 DEF LlmCallsTool
  <2>3. CASE GreetingStarts
    BY <1>0, <1>4, <2>3 DEF GreetingStarts
  <2>4. CASE LlmAnswers \/ LlmFails
    <3>1. /\ [response_task EXCEPT !.full = TRUE] \in ResponseTaskSet
          /\ [response_task EXCEPT !.fallback = TRUE] \in ResponseTaskSet
      BY <1>0 DEF ResponseTaskSet
    <3> QED
      BY <1>4, <2>4, <3>1 DEF LlmAnswers, LlmFails
  <2>5. CASE LlmCallsTooManyTools \/ ToolRaises
    <3>1. response_task'.at = "speak"
      BY <1>0, <2>5 DEF LlmCallsTooManyTools, ToolRaises, Speak, ResponseTaskSet
    <3> QED
      BY <1>2, <3>1
  <2>6. CASE ReplySkipped \/ SpeakIssued \/ ResponseHangupReturns
    <3>1. response_task'.at \in {"ended", "play"}
      BY <1>0, <2>6 DEF ReplySkipped, SpeakIssued, ResponseHangupReturns, ResponseTaskSet
    <3> QED
      BY <1>2, <3>1
  <2>7. CASE LlmIsSilent \/ PlaybackEnds \/ PlaybackTimesOut
    BY <1>5, <2>7, Zenon DEF LlmIsSilent, PlaybackEnds, PlaybackTimesOut
  <2>8. CASE SpeakFails
    <3>1. [response_task EXCEPT !.fallback = TRUE] \in ResponseTaskSet
      BY <1>0 DEF ResponseTaskSet
    <3> QED
      BY <1>4, <1>5, <2>8, <3>1, Zenon DEF SpeakFails
  <2>9. CASE ResponseCancelled
    <3>1. CASE response_task.at \in {"new", "hangup"}
      <4>1. response_task'.at = "ended"
        BY <1>0, <2>9, <3>1 DEF ResponseCancelled, ResponseTaskSet
      <4> QED
        BY <1>2, <4>1
    <3>2. CASE response_task.at \notin {"new", "hangup"}
      BY <1>5, <2>9, <3>2, Zenon DEF ResponseCancelled
    <3> QED
      BY <3>1, <3>2
  <2> QED
    BY <1>6, <2>1, <2>2, <2>3, <2>4, <2>5, <2>6, <2>7, <2>8, <2>9 DEF ResponseStep
<1>7. CASE RunStep
  BY <1>0, <1>1, <1>7, RunStepResponse
<1>8. CASE Environment
  BY <1>1, <1>8, EnvironmentResponse
<1>9. CASE Over \/ UNCHANGED vars
  BY <1>1, <1>9, Zenon DEF Over, vars
<1> QED
  BY <1>6, <1>7, <1>8, <1>9 DEF Next

LEMMA TypeInvInit == Init => TypeInv
<1>1. Init => RoundsLeft
  BY DEF Init, NoResponse, NewResponse, RoundsLeft
<1> QED
  BY <1>1, TypeInit DEF TypeInv

LEMMA TypeInvStep == TypeInv /\ [Next]_vars => TypeInv'
<1> SUFFICES ASSUME TypeInv, [Next]_vars PROVE TypeInv'
  OBVIOUS
<1>1. CASE UNCHANGED vars
  <2>1. TypeOK'
    BY <1>1, Zenon DEF vars, conversation, speech, status, environment, TypeInv, TypeOK
  <2> QED
    BY <2>1, RoundsLeftStep DEF TypeInv
<1>2. CASE Next
  <2>1. TypeOK'
    BY <1>1, <1>2, TypeRunStep, TypeResponseStep, TypeEnvironment DEF Next, Over, TypeInv
  <2> QED
    BY <2>1, RoundsLeftStep DEF TypeInv
<1> QED
  BY <1>1, <1>2

\* The variables of the agent stay in their types, and a reply asks the LLM at
\* most once more than max_tool_rounds allows (agent.py:389-399).
THEOREM TypeCorrect == Spec => []TypeOK
<1>1. TypeInv => TypeOK
  BY DEF TypeInv
<1> QED
  BY <1>1, TypeInvInit, TypeInvStep, PTL DEF Spec

-----------------------------------------------------------------------------
(***************************************************************************)
(* What a step of the response task does.                                  *)
(***************************************************************************)

\* It starts to speak,
Speaks ==
    /\ response_task.at \in {"new", "llm", "speak"}
    /\ ~response_task.cancelled
    /\ response_task'.at = "speak"
    /\ agent_is_speaking' = TRUE
    /\ UNCHANGED <<barged_in, hung_up, transcript_buffer>>

\* or runs its finally clause,
Finishes ==
    /\ response_task.at \in {"llm", "speak", "play"}
    /\ response_task'.at = IF ending THEN "hangup" ELSE "ended"
    /\ agent_is_speaking' = FALSE
    /\ barged_in' = FALSE
    /\ hung_up' = (hung_up \/ ending)
    /\ transcript_buffer' = <<>>
    /\ UNCHANGED ending

\* or goes on without a change to the state it shares with the run task.
GoesOn ==
    /\ <<response_task.at, response_task'.at>> \in
          {<<"new", "llm">>, <<"llm", "llm">>, <<"new", "ended">>, <<"speak", "play">>,
           <<"hangup", "ended">>}
    /\ response_task'.at # "ended" => ~response_task.cancelled
    /\ UNCHANGED <<agent_is_speaking, barged_in, hung_up, transcript_buffer>>

LEMMA FinishFinishes ==
    ASSUME TypeOK, NEW full, NEW exit, Finish(full, exit), UNCHANGED ending,
           response_task.at \in {"llm", "speak", "play"}
    PROVE  Finishes
  BY DEF TypeOK, ResponseTaskSet, Finish, Finishes

LEMMA SpeakSpeaks ==
    ASSUME NEW response \in ResponseTaskSet, Speak(response),
           response_task.at \in {"new", "llm", "speak"}, ~response_task.cancelled,
           UNCHANGED transcript_buffer
    PROVE  Speaks
  BY DEF ResponseTaskSet, Speak, Speaks

LEMMA StartRoundSpeaksOrGoesOn ==
    ASSUME NEW response \in ResponseTaskSet, StartRound(response),
           response_task.at \in {"new", "llm"}, ~response_task.cancelled,
           UNCHANGED transcript_buffer
    PROVE  Speaks \/ GoesOn
<1>1. CASE Speak([response EXCEPT !.full = TRUE])
  <2>1. [response EXCEPT !.full = TRUE] \in ResponseTaskSet
    BY DEF ResponseTaskSet
  <2> QED
    BY <1>1, <2>1, SpeakSpeaks
<1>2. CASE response_task' = [response EXCEPT !.at = "llm"] /\ UNCHANGED speech
  BY <1>2 DEF ResponseTaskSet, GoesOn, speech
<1> QED
  BY <1>1, <1>2 DEF StartRound

LEMMA ResponseStepSummary ==
    ASSUME TypeInv, ResponseStep
    PROVE  /\ ~run_task.holds
           /\ UNCHANGED <<events, run_task, closed, environment>>
           /\ Speaks \/ Finishes \/ GoesOn
           /\ \/ UNCHANGED ending
              \/ response_task.at = "llm" /\ ~response_task.cancelled /\ (ending => ending')
<1> USE DEF conversation, speech, status, environment
<1>0. TypeOK /\ RoundsLeft /\ response_task \in ResponseTaskSet
  BY DEF TypeInv, TypeOK
<1>1. CASE GreetingStarts
  <2>1. Speaks
    BY <1>0, <1>1, SpeakSpeaks DEF GreetingStarts, Resumes
  <2> QED
    BY <1>1, <2>1 DEF GreetingStarts, Resumes
<1>2. CASE ReplyStarts
  <2>1. Speaks \/ GoesOn
    BY <1>0, <1>2, StartRoundSpeaksOrGoesOn DEF ReplyStarts, Resumes
  <2> QED
    BY <1>2, <2>1 DEF ReplyStarts, Resumes
<1>3. CASE ReplySkipped
  <2>1. GoesOn
    BY <1>0, <1>3 DEF ReplySkipped, Resumes, GoesOn, ResponseTaskSet
  <2> QED
    BY <1>3, <2>1 DEF ReplySkipped, Resumes
<1>4. CASE LlmAnswers
  <2>1. [response_task EXCEPT !.full = TRUE] \in ResponseTaskSet
    BY <1>0 DEF ResponseTaskSet
  <2>2. Speaks
    BY <1>4, <2>1, SpeakSpeaks DEF LlmAnswers, Resumes
  <2> QED
    BY <1>4, <2>2 DEF LlmAnswers, Resumes
<1>5. CASE LlmIsSilent
  <2>1. PICK full \in BOOLEAN : Finish(full, "ok")
    BY <1>5, Zenon DEF LlmIsSilent
  <2>2. Finishes
    BY <1>0, <1>5, <2>1, FinishFinishes DEF LlmIsSilent, Resumes
  <2> QED
    BY <1>5, <2>2 DEF LlmIsSilent, Resumes
<1>6. CASE LlmCallsTool
  <2>1. [response_task EXCEPT !.tool_rounds = @ + 1] \in ResponseTaskSet
    BY <1>0, <1>6, OneMoreRoundType DEF LlmCallsTool, Resumes, RoundsLeft
  <2>2. Speaks \/ GoesOn
    BY <1>6, <2>1, StartRoundSpeaksOrGoesOn DEF LlmCallsTool, Resumes
  <2>3. ending => ending'
    BY <1>6, Zenon DEF LlmCallsTool
  <2> QED
    BY <1>6, <2>2, <2>3 DEF LlmCallsTool, Resumes
<1>7. CASE LlmCallsTooManyTools
  <2>1. [response_task EXCEPT !.tool_rounds = @ + 1] \in ResponseTaskSet
    BY <1>0, <1>7, OneMoreRoundType DEF LlmCallsTooManyTools, Resumes, RoundsLeft
  <2>2. [response_task EXCEPT !.tool_rounds = @ + 1, !.full = TRUE] \in ResponseTaskSet
    BY <1>0, <2>1 DEF ResponseTaskSet
  <2>3. Speaks
    BY <1>7, <2>2, SpeakSpeaks DEF LlmCallsTooManyTools, Resumes
  <2> QED
    BY <1>7, <2>3 DEF LlmCallsTooManyTools, Resumes
<1>8. CASE ToolRaises
  <2>1. [response_task EXCEPT !.tool_rounds = @ + 1] \in ResponseTaskSet
    BY <1>0, <1>8, OneMoreRoundType DEF ToolRaises, Resumes, RoundsLeft
  <2>2. [response_task EXCEPT !.tool_rounds = @ + 1, !.fallback = TRUE] \in ResponseTaskSet
    BY <1>0, <2>1 DEF ResponseTaskSet
  <2>3. Speaks
    BY <1>8, <2>2, SpeakSpeaks DEF ToolRaises, Resumes
  <2> QED
    BY <1>8, <2>3 DEF ToolRaises, Resumes
<1>9. CASE LlmFails
  <2>1. [response_task EXCEPT !.fallback = TRUE] \in ResponseTaskSet
    BY <1>0 DEF ResponseTaskSet
  <2>2. Speaks
    BY <1>9, <2>1, SpeakSpeaks DEF LlmFails, Resumes
  <2> QED
    BY <1>9, <2>2 DEF LlmFails, Resumes
<1>10. CASE SpeakIssued
  <2>1. GoesOn
    BY <1>0, <1>10 DEF SpeakIssued, Resumes, GoesOn, ResponseTaskSet
  <2> QED
    BY <1>10, <2>1 DEF SpeakIssued, Resumes
<1>11. CASE SpeakFails
  <2>1. CASE \E full, exit : Finish(full, exit)
    <3>1. Finishes
      BY <1>0, <1>11, <2>1, FinishFinishes DEF SpeakFails, Resumes
    <3> QED
      BY <1>11, <3>1 DEF SpeakFails, Resumes
  <2>2. CASE Speak([response_task EXCEPT !.fallback = TRUE]) /\ UNCHANGED conversation
    <3>1. [response_task EXCEPT !.fallback = TRUE] \in ResponseTaskSet
      BY <1>0 DEF ResponseTaskSet
    <3>2. Speaks
      BY <1>11, <2>2, <3>1, SpeakSpeaks DEF SpeakFails, Resumes
    <3> QED
      BY <1>11, <3>2 DEF SpeakFails, Resumes
  <2> QED
    BY <1>11, <2>1, <2>2, Zenon DEF SpeakFails
<1>12. CASE PlaybackEnds
  <2>1. Finishes
    BY <1>0, <1>12, FinishFinishes DEF PlaybackEnds, Resumes
  <2> QED
    BY <1>12, <2>1 DEF PlaybackEnds, Resumes
<1>13. CASE PlaybackTimesOut
  <2>1. Finishes
    BY <1>0, <1>13, FinishFinishes DEF PlaybackTimesOut, Resumes
  <2> QED
    BY <1>13, <2>1 DEF PlaybackTimesOut, Resumes
<1>14. CASE ResponseCancelled
  <2>1. CASE response_task.at \in {"new", "hangup"}
    <3>1. GoesOn
      BY <1>0, <1>14, <2>1 DEF ResponseCancelled, GoesOn, ResponseTaskSet
    <3> QED
      BY <1>14, <3>1 DEF ResponseCancelled
  <2>2. CASE response_task.at \notin {"new", "hangup"}
    <3>1. Finishes
      BY <1>0, <1>14, <2>2, FinishFinishes DEF ResponseCancelled, Live
    <3> QED
      BY <1>14, <3>1 DEF ResponseCancelled
  <2> QED
    BY <2>1, <2>2
<1>15. CASE ResponseHangupReturns
  <2>1. GoesOn
    BY <1>0, <1>15 DEF ResponseHangupReturns, Resumes, GoesOn, ResponseTaskSet
  <2> QED
    BY <1>15, <2>1 DEF ResponseHangupReturns, Resumes
<1> QED
  BY <1>1, <1>2, <1>3, <1>4, <1>5, <1>6, <1>7, <1>8, <1>9, <1>10, <1>11, <1>12, <1>13, <1>14,
     <1>15 DEF ResponseStep

-----------------------------------------------------------------------------
(***************************************************************************)
(* Barge-in flags, teardown and the final hangup.                          *)
(***************************************************************************)

\* Nothing has happened before the run loop starts.
BeforeTheLoop ==
    run_task.at = "transcribe" => response_task.at = "none" /\ ~ending /\ ~hung_up

\* While the run task interrupts or supersedes a response, the response can only
\* end, and the conversation does not begin to end.
Interrupting ==
    /\ run_task.at \in {"stopPlayback", "reapBarge", "reapTurn"} => ~ending
    /\ run_task.at = "stopPlayback" => response_task.at \in {"speak", "play", "ended"}
    /\ run_task.at \in {"reapBarge", "reapTurn"} /\ Live => response_task.cancelled

SafetyInv ==
    /\ BeforeTheLoop
    /\ Interrupting
    /\ SpeakingFlagsTrackTheTask
    /\ TeardownLeavesNoResponse
    /\ NothingAfterTheHangup

LEMMA SafetyInit == Init => SafetyInv
  BY DEF Init, NoResponse, NewResponse, SafetyInv, BeforeTheLoop, Interrupting,
         SpeakingFlagsTrackTheTask, TeardownLeavesNoResponse, NothingAfterTheHangup, Live

LEMMA SafetyTeardown ==
    ASSUME TypeInv, SafetyInv, EnterTeardown,
           UNCHANGED <<agent_is_speaking, barged_in, hung_up, ending>>
    PROVE  SafetyInv'
<1>0. response_task \in ResponseTaskSet
  BY DEF TypeInv, TypeOK
<1>1. CASE Live
  <2>1. /\ run_task'.at = "reapEnd"
        /\ response_task'.at = response_task.at
    BY <1>0, <1>1 DEF EnterTeardown, CancelAndReap, SuspendedAt, ResponseTaskSet
  <2> QED
    BY <2>1 DEF SafetyInv, BeforeTheLoop, Interrupting, SpeakingFlagsTrackTheTask,
                TeardownLeavesNoResponse, NothingAfterTheHangup
<1>2. CASE ~Live
  <2>1. run_task'.at = "stopTranscription" /\ response_task' = response_task
    BY <1>2 DEF EnterTeardown, SuspendedAt
  <2> QED
    BY <1>2, <2>1 DEF SafetyInv, BeforeTheLoop, Interrupting, SpeakingFlagsTrackTheTask,
                      TeardownLeavesNoResponse, NothingAfterTheHangup, Live
<1> QED
  BY <1>1, <1>2

LEMMA SafetyBackToGet ==
    ASSUME SafetyInv, run_task'.at = "get",
           UNCHANGED <<response_task, agent_is_speaking, barged_in, hung_up, ending>>
    PROVE  SafetyInv'
  BY DEF SafetyInv, BeforeTheLoop, Interrupting, SpeakingFlagsTrackTheTask,
         TeardownLeavesNoResponse, NothingAfterTheHangup

LEMMA SafetyNewResponse ==
    ASSUME SafetyInv, response_task.at \in {"none", "ended"}, ~hung_up', run_task'.at = "get",
           NEW turn, response_task' = NewResponse(turn),
           UNCHANGED <<agent_is_speaking, barged_in>>
    PROVE  SafetyInv'
  BY DEF SafetyInv, BeforeTheLoop, Interrupting, SpeakingFlagsTrackTheTask,
         TeardownLeavesNoResponse, NothingAfterTheHangup, NewResponse

LEMMA SafetyReap ==
    ASSUME TypeInv, SafetyInv, ~ending, NEW place \in {"reapBarge", "reapTurn"}, NEW kept,
           CancelAndReap(place, kept),
           UNCHANGED <<agent_is_speaking, barged_in, hung_up, ending>>
    PROVE  SafetyInv'
<1>0. response_task \in ResponseTaskSet
  BY DEF TypeInv, TypeOK
<1>1. /\ run_task'.at = place
      /\ response_task'.at = response_task.at
      /\ response_task'.cancelled
  BY <1>0 DEF CancelAndReap, SuspendedAt, ResponseTaskSet
<1> QED
  BY <1>1 DEF SafetyInv, BeforeTheLoop, Interrupting, SpeakingFlagsTrackTheTask,
              TeardownLeavesNoResponse, NothingAfterTheHangup

LEMMA SafetyRunStep ==
    ASSUME TypeInv, SafetyInv, RunStep
    PROVE  SafetyInv'
<1> USE DEF speech, status
<1>0. TypeOK /\ response_task \in ResponseTaskSet
  BY DEF TypeInv, TypeOK
<1>1. CASE TranscriptionStarts
  <2>1. /\ run_task.at = "transcribe"
        /\ response_task.at = "none"
    BY <1>1 DEF TranscriptionStarts, At, SafetyInv, BeforeTheLoop
  <2>2. PICK greets \in Greetings, failed \in BOOLEAN :
          /\ ending' = failed
          /\ IF greets
             THEN /\ response_task' = NewResponse(<<>>)
                  /\ run_task' = BackToGet(events)
             ELSE /\ run_task' = IF failed THEN SuspendedAt("hangup", <<>>)
                                           ELSE BackToGet(events)
                  /\ UNCHANGED response_task
          /\ hung_up' = (failed /\ ~greets)
    BY <1>1 DEF TranscriptionStarts
  <2>3. UNCHANGED <<agent_is_speaking, barged_in>>
    BY <1>1 DEF TranscriptionStarts
  <2>4. CASE greets
    <3>1. run_task' = BackToGet(events) /\ response_task' = NewResponse(<<>>)
      BY <2>2, <2>4
    <3>2. run_task'.at = "get"
      BY <3>1 DEF BackToGet
    <3>3. ~hung_up'
      BY <2>2, <2>4, Zenon
    <3> QED
      BY <2>1, <2>3, <3>1, <3>2, <3>3, SafetyNewResponse
  <2>5. CASE ~greets
    <3>1. run_task'.at \in {"get", "hangup"} /\ response_task' = response_task
      BY <2>2, <2>5 DEF BackToGet, SuspendedAt
    <3>2. hung_up' => ending'
      BY <2>2, Zenon
    <3> QED
      BY <2>1, <2>3, <3>1, <3>2
         DEF SafetyInv, BeforeTheLoop, Interrupting, SpeakingFlagsTrackTheTask,
             TeardownLeavesNoResponse, NothingAfterTheHangup
  <2> QED
    BY <2>4, <2>5
<1>2. CASE TakeHangup
  BY <1>2, SafetyTeardown DEF TakeHangup
<1>3. CASE TakeSpeakEnded
  BY <1>3, SafetyBackToGet DEF TakeSpeakEnded, BackToGet
<1>4. CASE TakeIgnored
  BY <1>4, SafetyBackToGet DEF TakeIgnored, BackToGet
<1>5. CASE TakeBargeIn
  <2>1. /\ ~ending
        /\ response_task.at \in {"speak", "play"}
        /\ run_task'.at = "stopPlayback"
    BY <1>5 DEF TakeBargeIn, InputIgnored, SuspendedAt, SafetyInv, SpeakingFlagsTrackTheTask
  <2> QED
    BY <1>5, <2>1 DEF TakeBargeIn, SafetyInv, BeforeTheLoop, Interrupting,
                      SpeakingFlagsTrackTheTask, TeardownLeavesNoResponse, NothingAfterTheHangup
<1>6. CASE TakeFinal
  BY <1>6, SafetyBackToGet DEF TakeFinal, BackToGet
<1>7. CASE TakeTurn
  <2>1. CASE Live
    BY <1>7, <2>1, SafetyReap DEF TakeTurn, InputIgnored
  <2>2. CASE ~Live
    <3>1. /\ response_task.at \in {"none", "ended"}
          /\ ~hung_up'
      BY <1>0, <1>7, <2>2
         DEF TakeTurn, InputIgnored, Live, ResponseTaskSet, SafetyInv, NothingAfterTheHangup
    <3> QED
      BY <1>7, <2>2, <3>1, SafetyNewResponse DEF TakeTurn, StartReply, BackToGet
  <2> QED
    BY <2>1, <2>2
<1>8. CASE PlaybackStops
  <2>1. CASE Live
    BY <1>8, <2>1, SafetyReap DEF PlaybackStops, At, SafetyInv, Interrupting
  <2>2. CASE ~Live
    BY <1>8, <2>2, SafetyBackToGet DEF PlaybackStops, Reseat, BackToGet
  <2> QED
    BY <2>1, <2>2
<1>9. CASE InterruptedReaped
  <2>1. CASE response_task.exit = "cancelled"
    BY <1>9, <2>1, SafetyTeardown DEF InterruptedReaped
  <2>2. CASE response_task.exit # "cancelled"
    BY <1>9, <2>2, SafetyBackToGet DEF InterruptedReaped, Reseat, BackToGet
  <2> QED
    BY <2>1, <2>2
<1>10. CASE SupersededReaped
  <2>1. CASE response_task.exit = "cancelled"
    BY <1>10, <2>1, SafetyTeardown DEF SupersededReaped
  <2>2. CASE response_task.exit # "cancelled"
    <3>1. /\ response_task.at \in {"none", "ended"}
          /\ ~hung_up'
      BY <1>0, <1>10
         DEF SupersededReaped, At, Live, ResponseTaskSet, SafetyInv, Interrupting,
             NothingAfterTheHangup
    <3> QED
      BY <1>10, <2>2, <3>1, SafetyNewResponse DEF SupersededReaped, StartReply, BackToGet
  <2> QED
    BY <2>1, <2>2
<1>11. CASE HangupReturns
  BY <1>11, SafetyTeardown DEF HangupReturns
<1>12. CASE RunCancelled
  BY <1>12, SafetyTeardown DEF RunCancelled
<1>13. CASE LastReaped \/ TranscriptionStops
  <2>1. ~Live /\ run_task'.at \in {"stopTranscription", "done"}
    BY <1>13 DEF LastReaped, TranscriptionStops, SuspendedAt, SafetyInv,
                 TeardownLeavesNoResponse
  <2> QED
    BY <1>13, <2>1 DEF LastReaped, TranscriptionStops, Live, SafetyInv, BeforeTheLoop,
                       Interrupting, SpeakingFlagsTrackTheTask, TeardownLeavesNoResponse,
                       NothingAfterTheHangup
<1> QED
  BY <1>1, <1>2, <1>3, <1>4, <1>5, <1>6, <1>7, <1>8, <1>9, <1>10, <1>11, <1>12, <1>13
     DEF RunStep

LEMMA SafetyResponseStep ==
    ASSUME TypeInv, SafetyInv, ResponseStep
    PROVE  SafetyInv'
<1>0. response_task \in ResponseTaskSet /\ response_task' \in ResponseTaskSet
  BY TypeResponseStep DEF TypeInv, TypeOK
<1>1. /\ UNCHANGED run_task
      /\ Speaks \/ Finishes \/ GoesOn
      /\ \/ UNCHANGED ending
         \/ response_task.at = "llm" /\ ~response_task.cancelled /\ (ending => ending')
  BY ResponseStepSummary
<1>2. response_task.at \notin {"none", "ended"}
  BY <1>0, <1>1 DEF Speaks, Finishes, GoesOn
<1>3. BeforeTheLoop'
  BY <1>1, <1>2 DEF SafetyInv, BeforeTheLoop
<1>4. SpeakingFlagsTrackTheTask'
  BY <1>1 DEF Speaks, Finishes, GoesOn, SafetyInv, SpeakingFlagsTrackTheTask
<1>5. TeardownLeavesNoResponse'
  BY <1>0, <1>1, <1>2 DEF SafetyInv, TeardownLeavesNoResponse, Live, ResponseTaskSet
<1>6. NothingAfterTheHangup'
  <2>0. hung_up => ending /\ response_task.at \in {"none", "hangup", "ended"}
    BY DEF SafetyInv, NothingAfterTheHangup
  <2>1. ending => ending'
    BY <1>1, Zenon
  <2>2. CASE Speaks
    <3>1. response_task.at \notin {"none", "hangup", "ended"} /\ hung_up' = hung_up
      BY <2>2 DEF Speaks
    <3> QED
      BY <2>0, <3>1 DEF NothingAfterTheHangup
  <2>3. CASE Finishes
    <3>1. hung_up' => ending
      BY <2>0, <2>3, Zenon DEF Finishes
    <3>2. response_task'.at \in {"hangup", "ended"}
      BY <2>3 DEF Finishes
    <3> QED
      BY <2>1, <3>1, <3>2 DEF NothingAfterTheHangup
  <2>4. CASE GoesOn
    <3>1. hung_up' = hung_up
      BY <2>4 DEF GoesOn
    <3>2. response_task.at \in {"none", "hangup", "ended"} => response_task'.at = "ended"
      BY <2>4 DEF GoesOn
    <3> QED
      BY <2>0, <2>1, <3>1, <3>2 DEF NothingAfterTheHangup
  <2> QED
    BY <1>1, <2>2, <2>3, <2>4
<1>7. Interrupting'
  BY <1>0, <1>1 DEF Speaks, Finishes, GoesOn, SafetyInv, Interrupting, Live, ResponseTaskSet
<1> QED
  BY <1>3, <1>4, <1>5, <1>6, <1>7 DEF SafetyInv

LEMMA SafetyEnvironment ==
    ASSUME TypeInv, SafetyInv, Environment
    PROVE  SafetyInv'
<1>1. /\ run_task'.at = run_task.at
      /\ UNCHANGED <<agent_is_speaking, barged_in, hung_up, ending>>
  <2>1. CASE Shutdown
    BY <2>1 DEF Shutdown, speech, status, TypeInv, TypeOK, RunTaskSet
  <2>2. CASE SubmitFinal \/ SubmitInterim \/ SubmitSpeakEnded \/ SubmitHangup
    BY <2>2, Zenon DEF SubmitFinal, SubmitInterim, SubmitSpeakEnded, SubmitHangup, Submits,
                       speech, status
  <2> QED
    BY <2>1, <2>2 DEF Environment
<1>2. /\ response_task'.at = response_task.at
      /\ response_task.cancelled => response_task'.cancelled
  <2>1. CASE response_task' = response_task
    BY <2>1
  <2>2. CASE CancelRequested
    BY <2>2 DEF CancelRequested, TypeInv, TypeOK, ResponseTaskSet
  <2> QED
    BY <2>1, <2>2, EnvironmentResponse
<1> QED
  BY <1>1, <1>2 DEF SafetyInv, BeforeTheLoop, Interrupting, SpeakingFlagsTrackTheTask,
                    TeardownLeavesNoResponse, NothingAfterTheHangup, Live

LEMMA SafetyStep == TypeInv /\ SafetyInv /\ [Next]_vars => SafetyInv'
<1> SUFFICES ASSUME TypeInv, SafetyInv, [Next]_vars PROVE SafetyInv'
  OBVIOUS
<1>1. CASE UNCHANGED vars
  BY <1>1 DEF vars, speech, status, SafetyInv, BeforeTheLoop, Interrupting,
              SpeakingFlagsTrackTheTask, TeardownLeavesNoResponse, NothingAfterTheHangup, Live
<1> QED
  BY <1>1, SafetyRunStep, SafetyResponseStep, SafetyEnvironment DEF Next, Over

LEMMA SafetyInvariant == Spec => [](TypeInv /\ SafetyInv)
<1>1. Init => TypeInv /\ SafetyInv
  BY TypeInvInit, SafetyInit
<1>2. TypeInv /\ SafetyInv /\ [Next]_vars => (TypeInv /\ SafetyInv)'
  BY TypeInvStep, SafetyStep
<1> QED
  BY <1>1, <1>2, PTL DEF Spec

\* The barge-in flags are on exactly while a response speaks, in every
\* interleaving of the two tasks and with every fault.
THEOREM SpeakingFlagsCorrect == Spec => []SpeakingFlagsTrackTheTask
<1>1. SafetyInv => SpeakingFlagsTrackTheTask
  BY DEF SafetyInv
<1> QED
  BY <1>1, SafetyInvariant, PTL

\* No response outlives the reap of the teardown, whenever the call or the
\* server ends.
THEOREM TeardownCorrect == Spec => []TeardownLeavesNoResponse
<1>1. SafetyInv => TeardownLeavesNoResponse
  BY DEF SafetyInv
<1> QED
  BY <1>1, SafetyInvariant, PTL

\* After the agent has hung up it neither speaks nor asks the LLM again.
THEOREM HangupIsFinal == Spec => []NothingAfterTheHangup
<1>1. SafetyInv => NothingAfterTheHangup
  BY DEF SafetyInv
<1> QED
  BY <1>1, SafetyInvariant, PTL

LEMMA CreatedWhenTheLastHasEnded ==
    ASSUME TypeInv, SafetyInv, [Next]_vars
    PROVE  response_task'.at = "new" /\ response_task.at # "new"
             => response_task.at \in {"none", "ended"}
<1>0. response_task \in ResponseTaskSet
  BY DEF TypeInv, TypeOK
<1>1. CASE RunStep
  <2>1. response_task' = response_task \/ CancelRequested \/ ResponseReplaced
    BY <1>1, RunStepResponse DEF TypeInv
  <2>2. response_task' = response_task \/ CancelRequested => response_task'.at = response_task.at
    BY <1>0 DEF CancelRequested, ResponseTaskSet
  <2>3. ResponseReplaced => response_task.at \in {"none", "ended"}
    BY <1>0 DEF ResponseReplaced, SafetyInv, BeforeTheLoop, Live, ResponseTaskSet
  <2> QED
    BY <2>1, <2>2, <2>3
<1>2. CASE ResponseStep
  <2>1. Speaks \/ Finishes \/ GoesOn
    BY <1>2, ResponseStepSummary
  <2> QED
    BY <2>1 DEF Speaks, Finishes, GoesOn
<1>3. CASE Environment
  <2>1. response_task' = response_task \/ CancelRequested
    BY <1>3, EnvironmentResponse
  <2> QED
    BY <1>0, <2>1 DEF CancelRequested, ResponseTaskSet
<1>4. CASE Over \/ UNCHANGED vars
  BY <1>4 DEF Over, vars
<1> QED
  BY <1>1, <1>2, <1>3, <1>4 DEF Next

\* Whatever the run task waited for before it creates a response, the one
\* before has ended.
THEOREM ResponsesNeverOverlap == Spec => OneResponseAtATime
<1>1. TypeInv /\ SafetyInv /\ [Next]_vars
        => [response_task'.at = "new" /\ response_task.at # "new"
              => response_task.at \in {"none", "ended"}]_vars
  BY CreatedWhenTheLastHasEnded
<1> QED
  BY <1>1, SafetyInvariant, PTL DEF Spec, OneResponseAtATime


-----------------------------------------------------------------------------
(***************************************************************************)
(* What the steps do to the queue and to the speech variables.             *)
(***************************************************************************)

LEMMA RunStepQueue ==
    ASSUME RunStep
    PROVE  /\ UNCHANGED <<speak_gen, environment>>
           /\ events' = events \/ (events # <<>> /\ events' = Tail(events))
           /\ speak_done' = speak_done \/ TakeSpeakEnded
<1> USE DEF conversation, speech, status, environment
<1>1. CASE TranscriptionStarts \/ TranscriptionStops
  <2>1. UNCHANGED <<events, speak_gen, speak_done, finals, reported, shutdown>>
    BY <1>1, Zenon DEF TranscriptionStarts, TranscriptionStops
  <2> QED
    BY <2>1
<1>2. CASE \/ PlaybackStops \/ InterruptedReaped \/ SupersededReaped
           \/ HangupReturns \/ RunCancelled \/ LastReaped
  BY <1>2 DEF PlaybackStops, InterruptedReaped, SupersededReaped, HangupReturns, RunCancelled,
              LastReaped
<1>3. CASE TakeHangup \/ TakeSpeakEnded \/ TakeIgnored
  BY <1>3 DEF TakeHangup, TakeSpeakEnded, TakeIgnored, Takes
<1>4. CASE TakeBargeIn \/ TakeFinal \/ TakeTurn
  BY <1>4 DEF TakeBargeIn, TakeFinal, TakeTurn, Takes
<1> QED
  BY <1>1, <1>2, <1>3, <1>4 DEF RunStep

\* A response step starts a new generation, with its completion still to come,
\* or leaves both alone.
LEMMA ResponseStepSpeech ==
    ASSUME ResponseStep
    PROVE  \/ speak_gen' = speak_gen + 1 /\ ~speak_done'
           \/ UNCHANGED <<speak_gen, speak_done>>
<1> USE DEF speech
<1>1. ASSUME NEW response, Speak(response) \/ StartRound(response)
      PROVE  \/ speak_gen' = speak_gen + 1 /\ ~speak_done'
             \/ UNCHANGED <<speak_gen, speak_done>>
  BY <1>1 DEF Speak, StartRound
<1>2. ASSUME NEW full, NEW exit, Finish(full, exit)
      PROVE  UNCHANGED <<speak_gen, speak_done>>
  BY <1>2 DEF Finish
<1>3. CASE GreetingStarts \/ ReplyStarts \/ LlmAnswers \/ LlmCallsTool \/ LlmCallsTooManyTools
  BY <1>1, <1>3, Zenon
     DEF GreetingStarts, ReplyStarts, LlmAnswers, LlmCallsTool, LlmCallsTooManyTools
<1>4. CASE ToolRaises \/ LlmFails
  BY <1>1, <1>4, Zenon DEF ToolRaises, LlmFails
<1>5. CASE ReplySkipped \/ SpeakIssued \/ ResponseHangupReturns
  BY <1>5 DEF ReplySkipped, SpeakIssued, ResponseHangupReturns
<1>6. CASE LlmIsSilent \/ PlaybackEnds \/ PlaybackTimesOut
  BY <1>2, <1>6, Zenon DEF LlmIsSilent, PlaybackEnds, PlaybackTimesOut
<1>7. CASE SpeakFails
  BY <1>1, <1>2, <1>7, Zenon DEF SpeakFails
<1>8. CASE ResponseCancelled
  <2>1. UNCHANGED speech \/ \E full, exit : Finish(full, exit)
    BY <1>8 DEF ResponseCancelled
  <2> QED
    BY <1>2, <2>1
<1> QED
  BY <1>3, <1>4, <1>5, <1>6, <1>7, <1>8 DEF ResponseStep

\* The items a webhook handler puts on the queue.
LEMMA EnvironmentQueue ==
    ASSUME TypeOK, Environment
    PROVE  /\ UNCHANGED <<conversation, speech, status>>
           /\ ~run_task.holds
           /\ run_task' = run_task \/ run_task' = [run_task EXCEPT !.cancelled = TRUE]
           /\ \/ events' = events /\ reported' = reported
              \/ \E items \in Seq(ItemSet) :
                    /\ events' = events \o items
                    /\ \/ \/ items = <<Item("final", finals + 1), Item("uend", 0)>>
                          \/ items = <<Item("interim", 0)>>
                          \/ items = <<Item("hangup", 0)>>
                       \/ \E generation \in 0..speak_gen :
                             /\ items = <<Item("ended", generation)>>
                             /\ reported' = IF generation > reported
                                            THEN generation ELSE reported
                    /\ items[1].type # "ended" => reported' = reported
<1> USE DEF conversation, speech, status, Submits
<1>0. finals \in Nat /\ speak_gen \in Nat
  BY DEF TypeOK
<1>1. CASE SubmitFinal
  <2>1. <<Item("final", finals + 1), Item("uend", 0)>> \in Seq(ItemSet)
    BY <1>0 DEF Item, ItemSet
  <2> QED
    BY <1>1, <2>1 DEF SubmitFinal
<1>2. CASE SubmitInterim \/ SubmitHangup
  <2>1. <<Item("interim", 0)>> \in Seq(ItemSet) /\ <<Item("hangup", 0)>> \in Seq(ItemSet)
    BY DEF Item, ItemSet
  <2> QED
    BY <1>2, <2>1 DEF SubmitInterim, SubmitHangup
<1>3. CASE SubmitSpeakEnded
  <2>1. PICK generation \in {0} \cup (speak_gen - 1 .. speak_gen) :
            /\ generation >= 0
            /\ Submits(<<Item("ended", generation)>>)
            /\ reported' = IF generation > reported THEN generation ELSE reported
    BY <1>3 DEF SubmitSpeakEnded
  <2>2. generation \in 0..speak_gen
    BY <1>0, <2>1
  <2>3. <<Item("ended", generation)>> \in Seq(ItemSet)
    BY <2>2 DEF Item, ItemSet
  <2>4. <<Item("ended", generation)>>[1].type = "ended"
    BY DEF Item
  <2> QED
    BY <2>1, <2>2, <2>3, <2>4
<1>4. CASE Shutdown
  BY <1>4 DEF Shutdown
<1> QED
  BY <1>1, <1>2, <1>3, <1>4 DEF Environment

-----------------------------------------------------------------------------
(***************************************************************************)
(* Completions.                                                            *)
(***************************************************************************)

\* No completion is on its way for a generation that nobody reported.
CompletionsWereReported ==
    /\ reported <= speak_gen
    /\ \A i \in 1..Len(events) : events[i].type = "ended" => events[i].n <= reported

CompletionInv == CompletionsWereReported /\ StaleCompletionsIgnored

LEMMA CompletionRunStep ==
    ASSUME TypeOK, CompletionInv, RunStep
    PROVE  CompletionInv'
<1>1. /\ UNCHANGED <<speak_gen, reported>>
      /\ events' = events \/ (events # <<>> /\ events' = Tail(events))
      /\ speak_done' = speak_done \/ TakeSpeakEnded
  BY RunStepQueue DEF environment
<1>2. CompletionsWereReported'
  <2>0. events \in Seq(ItemSet)
    BY DEF TypeOK
  <2>1. ASSUME NEW i \in 1..Len(events'), events'[i].type = "ended"
        PROVE  events'[i].n <= reported
    <3>1. CASE events' = events
      BY <2>1, <3>1 DEF CompletionInv, CompletionsWereReported
    <3>2. CASE events # <<>> /\ events' = Tail(events)
      <4>1. i + 1 \in 1..Len(events) /\ events'[i] = events[i + 1]
        BY <2>0, <2>1, <3>2
      <4> QED
        BY <2>1, <4>1 DEF CompletionInv, CompletionsWereReported
    <3> QED
      BY <1>1, <3>1, <3>2
  <2> QED
    BY <1>1, <2>1 DEF CompletionInv, CompletionsWereReported
<1>3. StaleCompletionsIgnored'
  <2>1. CASE speak_done' = speak_done
    BY <1>1, <2>1 DEF CompletionInv, StaleCompletionsIgnored
  <2>2. CASE TakeSpeakEnded /\ ~speak_done /\ speak_done'
    <3>1. events # <<>> /\ Head(events).type = "ended" /\ Head(events).n = speak_gen
      BY <2>2 DEF TakeSpeakEnded, Takes
    <3>2. speak_gen <= reported
      BY <3>1 DEF TypeOK, CompletionInv, CompletionsWereReported
    <3> QED
      BY <1>1, <3>2 DEF TypeOK, CompletionInv, CompletionsWereReported, StaleCompletionsIgnored
  <2>3. CASE speak_done \/ ~speak_done'
    BY <1>1, <2>3 DEF CompletionInv, StaleCompletionsIgnored
  <2> QED
    BY <1>1, <2>1, <2>2, <2>3
<1> QED
  BY <1>2, <1>3 DEF CompletionInv

LEMMA CompletionEnvironment ==
    ASSUME TypeOK, CompletionInv, Environment
    PROVE  CompletionInv'
<1>0. events \in Seq(ItemSet) /\ speak_gen \in Nat /\ reported \in Nat
  BY DEF TypeOK
<1>1. UNCHANGED <<speak_gen, speak_done>>
  BY EnvironmentQueue DEF speech
<1>2. CASE events' = events /\ reported' = reported
  BY <1>1, <1>2 DEF CompletionInv, CompletionsWereReported, StaleCompletionsIgnored
<1>3. ASSUME NEW items \in Seq(ItemSet), events' = events \o items, UNCHANGED reported,
             \A j \in 1..Len(items) : items[j].type # "ended"
      PROVE  CompletionInv'
  <2>1. ASSUME NEW i \in 1..Len(events'), events'[i].type = "ended"
        PROVE  events'[i].n <= reported
    <3>1. i \in 1..Len(events)
      BY <1>0, <1>3, <2>1
    <3> QED
      BY <1>0, <1>3, <2>1, <3>1 DEF CompletionInv, CompletionsWereReported
  <2> QED
    BY <1>1, <1>3, <2>1 DEF CompletionInv, CompletionsWereReported, StaleCompletionsIgnored
<1>4. ASSUME NEW generation \in 0..speak_gen, events' = events \o <<Item("ended", generation)>>,
             reported' = IF generation > reported THEN generation ELSE reported
      PROVE  CompletionInv'
  <2>1. reported' \in Nat /\ reported <= reported' /\ generation <= reported' /\ reported' <= speak_gen
    BY <1>0, <1>4 DEF CompletionInv, CompletionsWereReported
  <2>2. ASSUME NEW i \in 1..Len(events'), events'[i].type = "ended"
        PROVE  events'[i].n <= reported'
    <3>1. CASE i \in 1..Len(events)
      <4>0. <<Item("ended", generation)>> \in Seq(ItemSet)
        BY <1>0, <1>4 DEF Item, ItemSet
      <4>1. events'[i] = events[i] /\ events[i] \in ItemSet
        BY <1>0, <1>4, <3>1, <4>0
      <4>2. events[i].n \in Nat
        BY <4>1 DEF ItemSet
      <4> QED
        BY <1>0, <2>1, <2>2, <3>1, <4>1, <4>2 DEF CompletionInv, CompletionsWereReported
    <3>2. CASE i = Len(events) + 1
      BY <1>0, <1>4, <2>1, <3>2 DEF Item
    <3> QED
      BY <1>0, <1>4, <3>1, <3>2
  <2>3. StaleCompletionsIgnored'
    BY <1>0, <1>1, <2>1 DEF CompletionInv, StaleCompletionsIgnored
  <2> QED
    BY <1>1, <2>1, <2>2, <2>3 DEF CompletionInv, CompletionsWereReported
<1> QED
  <2>1. ASSUME NEW items \in Seq(ItemSet), events' = events \o items,
               \/ items = <<Item("final", finals + 1), Item("uend", 0)>>
               \/ items = <<Item("interim", 0)>>
               \/ items = <<Item("hangup", 0)>>,
               items[1].type # "ended" => reported' = reported
        PROVE  CompletionInv'
    <3>1. \A j \in 1..Len(items) : items[j].type # "ended"
      BY <2>1 DEF Item
    <3>2. items[1].type # "ended"
      BY <2>1 DEF Item
    <3> QED
      BY <1>3, <2>1, <3>1, <3>2
  <2> QED
    BY <1>2, <1>4, <2>1, EnvironmentQueue

LEMMA CompletionStep == TypeInv /\ CompletionInv /\ [Next]_vars => CompletionInv'
<1> SUFFICES ASSUME TypeInv, CompletionInv, [Next]_vars PROVE CompletionInv'
  OBVIOUS
<1>0. TypeOK
  BY DEF TypeInv
<1>1. CASE RunStep
  BY <1>0, <1>1, CompletionRunStep
<1>2. CASE ResponseStep
  <2>1. UNCHANGED <<events, reported>>
    BY <1>2, ResponseStepSummary DEF environment
  <2> QED
    BY <1>0, <1>2, <2>1, ResponseStepSpeech
       DEF TypeOK, CompletionInv, CompletionsWereReported, StaleCompletionsIgnored
<1>3. CASE Environment
  BY <1>0, <1>3, CompletionEnvironment
<1>4. CASE Over \/ UNCHANGED vars
  BY <1>4 DEF Over, vars, speech, environment, CompletionInv, CompletionsWereReported,
              StaleCompletionsIgnored
<1> QED
  BY <1>1, <1>2, <1>3, <1>4 DEF Next

\* A response never stops waiting for the end of its playback because of a late,
\* repeated or unreadable completion of an earlier speak (agent.py:278-284).
THEOREM CompletionsMatch == Spec => []StaleCompletionsIgnored
<1>1. Init => CompletionInv
  BY DEF Init, CompletionInv, CompletionsWereReported, StaleCompletionsIgnored
<1>2. CompletionInv => StaleCompletionsIgnored
  BY DEF CompletionInv
<1> QED
  BY <1>1, <1>2, TypeInvInit, TypeInvStep, CompletionStep, PTL DEF Spec

-----------------------------------------------------------------------------
(***************************************************************************)
(* The turn buffer.                                                        *)
(***************************************************************************)

\* The utterance end that completes its words is right behind every final.
FinalsArePaired ==
    \A i \in 1..Len(events) :
        events[i].type = "final" => i < Len(events) /\ events[i + 1].type = "uend"

\* The words that an interruption keeps are completed by the next item, and the
\* run task only lets go of the event loop with an empty buffer.
KeptIsCompleted ==
    run_task.at \in {"stopPlayback", "reapBarge"} /\ run_task.kept # <<>>
      => events # <<>> /\ Head(events).type = "uend"

BufferInv ==
    /\ FinalsArePaired
    /\ KeptIsCompleted
    /\ transcript_buffer # <<>> => ~ending
    /\ run_task.cancelled => ~run_task.holds
    /\ BufferIsTransient

LEMMA PairedTail ==
    ASSUME TypeOK, FinalsArePaired, events # <<>>, events' = Tail(events)
    PROVE  FinalsArePaired'
<1>0. events \in Seq(ItemSet) /\ Len(events) # 0
  BY DEF TypeOK
<1> SUFFICES ASSUME NEW i \in 1..Len(events'), events'[i].type = "final"
             PROVE  i < Len(events') /\ events'[i + 1].type = "uend"
  BY DEF FinalsArePaired
<1>1. i + 1 \in 1..Len(events) /\ events'[i] = events[i + 1] /\ Len(events') = Len(events) - 1
  BY <1>0
<1>2. i + 1 < Len(events) /\ events[i + 2].type = "uend"
  BY <1>0, <1>1 DEF FinalsArePaired
<1>3. i + 1 \in 1..Len(events') /\ events'[i + 1] = events[i + 2]
  BY <1>0, <1>1, <1>2
<1> QED
  BY <1>0, <1>1, <1>2, <1>3

\* The words of a final are followed by their utterance end in what is left.
LEMMA PairedHead ==
    ASSUME TypeOK, FinalsArePaired, events # <<>>, Head(events).type = "final"
    PROVE  Tail(events) # <<>> /\ Head(Tail(events)).type = "uend"
<1>0. events \in Seq(ItemSet) /\ Len(events) # 0
  BY DEF TypeOK
<1>1. 1 < Len(events) /\ events[2].type = "uend"
  BY <1>0 DEF FinalsArePaired
<1>2. /\ Tail(events) \in Seq(ItemSet)
      /\ Len(Tail(events)) = Len(events) - 1
      /\ Tail(events)[1] = events[2]
  BY <1>0, <1>1
<1>3. Tail(events) # <<>>
  <2>1. Len(Tail(events)) # 0
    BY <1>0, <1>1, <1>2
  <2>2. Len(<<>>) = 0
    OBVIOUS
  <2> QED
    BY <2>1, <2>2, Zenon
<1> QED
  BY <1>1, <1>2, <1>3

\* While it is not inside its event loop turn, the run task has buffered nothing.
LEMMA BufferEmpty ==
    ASSUME BufferInv, \/ run_task.at # "get"
                      \/ ~run_task.holds
                      \/ events = <<>>
                      \/ Head(events).type # "uend"
                      \/ ending
    PROVE  transcript_buffer = <<>>
  BY DEF BufferInv, BufferIsTransient

LEMMA BufferBackToGet ==
    ASSUME TypeOK, BufferInv, transcript_buffer' = <<>>, FinalsArePaired',
           NEW q, run_task' = BackToGet(q)
    PROVE  BufferInv'
  BY DEF BackToGet, BufferInv, KeptIsCompleted, BufferIsTransient

LEMMA BufferReseat ==
    ASSUME TypeOK, SafetyInv, BufferInv, run_task.at \in {"stopPlayback", "reapBarge"},
           Reseat, UNCHANGED <<events, ending>>
    PROVE  BufferInv'
<1>1. FinalsArePaired' /\ KeptIsCompleted'
  BY DEF Reseat, BackToGet, BufferInv, FinalsArePaired, KeptIsCompleted
<1>2. transcript_buffer' # <<>> => ~ending'
  BY DEF SafetyInv, Interrupting
<1>3. run_task'.cancelled => ~run_task'.holds
  BY DEF Reseat, BackToGet
<1>4. BufferIsTransient'
  BY DEF Reseat, BackToGet, BufferInv, KeptIsCompleted, BufferIsTransient
<1> QED
  BY <1>1, <1>2, <1>3, <1>4 DEF BufferInv

\* The run task is suspended with an empty buffer and nothing kept.
LEMMA BufferSuspended ==
    ASSUME transcript_buffer' = <<>>, FinalsArePaired', NEW place, NEW kept,
           run_task' = SuspendedAt(place, kept),
           kept = <<>> \/ place \notin {"stopPlayback", "reapBarge"}
    PROVE  BufferInv'
  BY DEF SuspendedAt, BufferInv, KeptIsCompleted, BufferIsTransient

LEMMA BufferTeardown ==
    ASSUME transcript_buffer' = <<>>, FinalsArePaired', EnterTeardown
    PROVE  BufferInv'
<1>1. CASE Live
  BY <1>1, BufferSuspended DEF EnterTeardown, CancelAndReap
<1>2. CASE ~Live
  BY <1>2, BufferSuspended DEF EnterTeardown
<1> QED
  BY <1>1, <1>2

LEMMA BufferRunStep ==
    ASSUME TypeOK, SafetyInv, BufferInv, RunStep
    PROVE  BufferInv'
<1> USE DEF conversation, speech, status, environment
<1>0. events' = events => FinalsArePaired'
  BY DEF BufferInv, FinalsArePaired
<1>00. events # <<>> /\ events' = Tail(events) => FinalsArePaired'
  BY PairedTail DEF BufferInv
<1>1. CASE TranscriptionStarts
  <2>1. transcript_buffer' = transcript_buffer /\ events' = events /\ run_task.at = "transcribe"
    BY <1>1, Zenon DEF TranscriptionStarts, At
  <2>2. transcript_buffer' = <<>>
    BY <2>1, BufferEmpty
  <2>3. run_task' = BackToGet(events) \/ run_task' = SuspendedAt("hangup", <<>>)
    BY <1>1, Zenon DEF TranscriptionStarts
  <2> QED
    BY <1>0, <2>1, <2>2, <2>3, BufferBackToGet, BufferSuspended
<1>2. CASE TakeHangup
  <2>1. transcript_buffer = <<>>
    BY <1>2, BufferEmpty DEF TakeHangup, Takes
  <2> QED
    BY <1>00, <1>2, <2>1, BufferTeardown DEF TakeHangup, Takes
<1>3. CASE TakeSpeakEnded
  <2>1. transcript_buffer = <<>>
    BY <1>3, BufferEmpty DEF TakeSpeakEnded, Takes
  <2> QED
    BY <1>00, <1>3, <2>1, BufferBackToGet DEF TakeSpeakEnded, Takes
<1>4. CASE TakeIgnored
  <2>1. transcript_buffer = <<>>
    BY <1>4, BufferEmpty DEF TakeIgnored, InputIgnored, Takes
  <2> QED
    BY <1>00, <1>4, <2>1, BufferBackToGet DEF TakeIgnored, Takes
<1>5. CASE TakeBargeIn
  <2>1. PICK type \in {"interim", "final"} :
            /\ Takes(type)
            /\ run_task' = SuspendedAt("stopPlayback",
                               IF type = "final" THEN <<Head(events).n>> ELSE <<>>)
    BY <1>5 DEF TakeBargeIn
  <2>2. transcript_buffer' = <<>>
    BY <1>5, <2>1, BufferEmpty DEF TakeBargeIn, Takes
  <2>3. FinalsArePaired'
    BY <1>00, <2>1 DEF Takes
  <2>4. CASE type = "final"
    <3>1. events' # <<>> /\ Head(events').type = "uend"
      BY <2>1, <2>4, PairedHead DEF Takes, BufferInv
    <3> QED
      BY <2>1, <2>2, <2>3, <2>4, <3>1
         DEF SuspendedAt, BufferInv, KeptIsCompleted, BufferIsTransient
  <2>5. CASE type # "final"
    BY <2>1, <2>2, <2>3, <2>5, BufferSuspended
  <2> QED
    BY <2>4, <2>5
<1>6. CASE TakeFinal
  <2>1. /\ Takes("final")
        /\ ~ending
        /\ UNCHANGED ending
        /\ run_task' = BackToGet(events')
    BY <1>6 DEF TakeFinal, InputIgnored
  <2>2. events' # <<>> /\ Head(events').type = "uend" /\ FinalsArePaired'
    BY <1>00, <2>1, PairedHead DEF Takes, BufferInv
  <2> QED
    BY <2>1, <2>2 DEF BackToGet, BufferInv, KeptIsCompleted, BufferIsTransient
<1>7. CASE TakeTurn
  <2>1. transcript_buffer' = <<>> /\ FinalsArePaired'
    BY <1>00, <1>7 DEF TakeTurn, Takes
  <2>2. run_task' = SuspendedAt("reapTurn", transcript_buffer) \/ run_task' = BackToGet(events')
    BY <1>7 DEF TakeTurn, CancelAndReap, StartReply
  <2> QED
    BY <2>1, <2>2, BufferSuspended, BufferBackToGet
<1>8. CASE PlaybackStops
  <2>1. /\ events' = events
        /\ ending' = ending
        /\ run_task.at = "stopPlayback"
    BY <1>8 DEF PlaybackStops, At
  <2>2. CASE Live
    <3>1. run_task' = SuspendedAt("reapBarge", run_task.kept)
      BY <1>8, <2>2 DEF PlaybackStops, CancelAndReap
    <3>2. transcript_buffer' = <<>>
      BY <1>8, <2>1, <2>2, BufferEmpty DEF PlaybackStops
    <3> QED
      BY <1>0, <2>1, <3>1, <3>2
         DEF SuspendedAt, BufferInv, KeptIsCompleted, BufferIsTransient
  <2>3. CASE ~Live
    BY <1>8, <2>1, <2>3, BufferReseat DEF PlaybackStops
  <2> QED
    BY <2>2, <2>3
<1>9. CASE InterruptedReaped
  <2>1. /\ events' = events
        /\ ending' = ending
        /\ run_task.at = "reapBarge"
    BY <1>9 DEF InterruptedReaped, At
  <2>2. CASE response_task.exit = "cancelled"
    <3>1. transcript_buffer' = <<>>
      BY <1>9, <2>1, <2>2, BufferEmpty DEF InterruptedReaped
    <3> QED
      BY <1>0, <1>9, <2>1, <2>2, <3>1, BufferTeardown DEF InterruptedReaped
  <2>3. CASE response_task.exit # "cancelled"
    BY <1>9, <2>1, <2>3, BufferReseat DEF InterruptedReaped
  <2> QED
    BY <2>2, <2>3
<1>10. CASE SupersededReaped \/ HangupReturns
  <2>1. transcript_buffer' = transcript_buffer /\ events' = events /\ run_task.at # "get"
    BY <1>10 DEF SupersededReaped, HangupReturns, At
  <2>2. transcript_buffer' = <<>>
    BY <2>1, BufferEmpty
  <2>3. EnterTeardown \/ run_task' = BackToGet(events)
    BY <1>10 DEF SupersededReaped, HangupReturns, StartReply
  <2> QED
    BY <1>0, <2>1, <2>2, <2>3, BufferTeardown, BufferBackToGet
<1>11. CASE RunCancelled
  <2>1. transcript_buffer' = transcript_buffer /\ events' = events /\ ~run_task.holds
    BY <1>11 DEF RunCancelled, BufferInv
  <2>2. transcript_buffer' = <<>>
    BY <2>1, BufferEmpty
  <2> QED
    BY <1>0, <1>11, <2>1, <2>2, BufferTeardown DEF RunCancelled
<1>12. CASE LastReaped \/ TranscriptionStops
  <2>1. transcript_buffer' = transcript_buffer /\ events' = events /\ run_task.at # "get"
    BY <1>12, Zenon DEF LastReaped, TranscriptionStops
  <2>2. transcript_buffer' = <<>>
    BY <2>1, BufferEmpty
  <2>3. \E place \in {"stopTranscription", "done"} : run_task' = SuspendedAt(place, <<>>)
    BY <1>12 DEF LastReaped, TranscriptionStops
  <2> QED
    BY <1>0, <2>1, <2>2, <2>3, BufferSuspended
<1> QED
  BY <1>1, <1>2, <1>3, <1>4, <1>5, <1>6, <1>7, <1>8, <1>9, <1>10, <1>11, <1>12 DEF RunStep

LEMMA BufferEnvironment ==
    ASSUME TypeOK, BufferInv, Environment
    PROVE  BufferInv'
<1>0. events \in Seq(ItemSet) /\ run_task \in RunTaskSet
  BY DEF TypeOK
<1>1. /\ UNCHANGED <<transcript_buffer, ending>>
      /\ ~run_task.holds
      /\ run_task' = run_task \/ run_task' = [run_task EXCEPT !.cancelled = TRUE]
  BY EnvironmentQueue DEF conversation, status
<1>2. transcript_buffer' = <<>>
  BY <1>1, BufferEmpty
<1>3. ~run_task'.holds /\ run_task'.at = run_task.at /\ run_task'.kept = run_task.kept
  BY <1>0, <1>1 DEF RunTaskSet
<1>4. FinalsArePaired' /\ (events # <<>> => events' # <<>> /\ Head(events') = Head(events))
  <2>1. CASE events' = events
    BY <2>1 DEF BufferInv, FinalsArePaired
  <2>2. ASSUME NEW items \in Seq(ItemSet), events' = events \o items,
               \A j \in 1..Len(items) :
                  items[j].type = "final" => j < Len(items) /\ items[j + 1].type = "uend"
        PROVE  FinalsArePaired' /\ (events # <<>> => events' # <<>> /\ Head(events') = Head(events))
    <3>1. ASSUME NEW i \in 1..Len(events'), events'[i].type = "final"
          PROVE  i < Len(events') /\ events'[i + 1].type = "uend"
      <4>1. CASE i <= Len(events)
        <5>1. events[i].type = "final"
          BY <1>0, <2>2, <3>1, <4>1
        <5>2. i < Len(events) /\ events[i + 1].type = "uend"
          BY <1>0, <3>1, <4>1, <5>1 DEF BufferInv, FinalsArePaired
        <5> QED
          BY <1>0, <2>2, <3>1, <5>2
      <4>2. CASE i > Len(events)
        <5> DEFINE j == i - Len(events)
        <5>1. j \in 1..Len(items) /\ events'[i] = items[j]
          BY <1>0, <2>2, <3>1, <4>2
        <5>2. j < Len(items) /\ items[j + 1].type = "uend"
          BY <2>2, <3>1, <5>1
        <5>3. i + 1 \in 1..Len(events') /\ events'[i + 1] = items[j + 1]
          BY <1>0, <2>2, <3>1, <4>2, <5>2
        <5> QED
          BY <5>2, <5>3
      <4> QED
        BY <1>0, <3>1, <4>1, <4>2
    <3>2. events # <<>> => events' # <<>> /\ Head(events') = Head(events)
      BY <1>0, <2>2
    <3> QED
      BY <3>1, <3>2 DEF FinalsArePaired
  <2>3. ASSUME NEW items \in Seq(ItemSet), events' = events \o items,
               \/ items = <<Item("final", finals + 1), Item("uend", 0)>>
               \/ items = <<Item("interim", 0)>>
               \/ items = <<Item("hangup", 0)>>
               \/ \E generation \in 0..speak_gen : items = <<Item("ended", generation)>>
        PROVE  FinalsArePaired' /\ (events # <<>> => events' # <<>> /\ Head(events') = Head(events))
    <3>1. \A j \in 1..Len(items) :
            items[j].type = "final" => j < Len(items) /\ items[j + 1].type = "uend"
      <4>1. CASE items = <<Item("final", finals + 1), Item("uend", 0)>>
        BY <4>1 DEF Item
      <4>2. CASE items = <<Item("interim", 0)>>
        BY <4>2 DEF Item
      <4>3. CASE items = <<Item("hangup", 0)>>
        BY <4>3 DEF Item
      <4>4. ASSUME NEW generation \in 0..speak_gen, items = <<Item("ended", generation)>>
            PROVE  \A j \in 1..Len(items) : items[j].type # "final"
        BY <4>4 DEF Item
      <4> QED
        BY <2>3, <4>1, <4>2, <4>3, <4>4
    <3> QED
      BY <2>2, <2>3, <3>1
  <2> QED
    BY <2>1, <2>3, EnvironmentQueue
<1> QED
  BY <1>1, <1>2, <1>3, <1>4 DEF BufferInv, KeptIsCompleted, BufferIsTransient

LEMMA BufferStep == TypeInv /\ SafetyInv /\ BufferInv /\ [Next]_vars => BufferInv'
<1> SUFFICES ASSUME TypeInv, SafetyInv, BufferInv, [Next]_vars PROVE BufferInv'
  OBVIOUS
<1>0. TypeOK
  BY DEF TypeInv
<1>1. CASE RunStep
  BY <1>0, <1>1, BufferRunStep
<1>2. CASE ResponseStep
  <2>1. /\ ~run_task.holds
        /\ UNCHANGED <<events, run_task>>
        /\ transcript_buffer' = transcript_buffer \/ transcript_buffer' = <<>>
    BY <1>2, ResponseStepSummary DEF Speaks, Finishes, GoesOn
  <2>2. transcript_buffer' = <<>>
    BY <2>1, BufferEmpty
  <2> QED
    BY <2>1, <2>2 DEF BufferInv, FinalsArePaired, KeptIsCompleted, BufferIsTransient
<1>3. CASE Environment
  BY <1>0, <1>3, BufferEnvironment
<1>4. CASE Over \/ UNCHANGED vars
  BY <1>4 DEF Over, vars, conversation, status, BufferInv, FinalsArePaired, KeptIsCompleted,
              BufferIsTransient
<1> QED
  BY <1>1, <1>2, <1>3, <1>4 DEF Next

\* A set_listening of a response that ends, in whatever interleaving, finds no
\* buffered words of the caller to discard (agent.py:451, :479).
THEOREM BufferNeverDiscarded == Spec => []BufferIsTransient
<1>1. Init => BufferInv
  BY DEF Init, BufferInv, FinalsArePaired, KeptIsCompleted, BufferIsTransient
<1>2. BufferInv => BufferIsTransient
  BY DEF BufferInv
<1> QED
  BY <1>1, <1>2, SafetyInvariant, BufferStep, PTL DEF Spec

-----------------------------------------------------------------------------
(***************************************************************************)
(* The history.                                                            *)
(***************************************************************************)

\* RepliesFollowTheirTurn of a history m.
Follows(m) == \A i \in 2..Len(m) : m[i].role # "user" => m[i].turn = m[i - 1].turn

EndsWith(m, turn) == m # <<>> /\ m[Len(m)].turn = turn

LEMMA AppendFollows ==
    ASSUME NEW m \in Seq(Message), Follows(m),
           NEW role \in Role, NEW turn \in Seq(Nat), role = "user" \/ EndsWith(m, turn)
    PROVE  /\ Append(m, [role |-> role, turn |-> turn]) \in Seq(Message)
           /\ Follows(Append(m, [role |-> role, turn |-> turn]))
           /\ EndsWith(Append(m, [role |-> role, turn |-> turn]), turn)
<1> DEFINE new == [role |-> role, turn |-> turn]
           longer == Append(m, new)
<1>1. new \in Message /\ new.role = role /\ new.turn = turn
  BY DEF Message
<1> HIDE DEF new
<1>2. /\ longer \in Seq(Message)
      /\ Len(longer) = Len(m) + 1
      /\ longer[Len(m) + 1] = new
      /\ \A i \in 1..Len(m) : longer[i] = m[i]
  BY <1>1
<1>3. EndsWith(longer, turn)
  <2>1. Len(longer) # 0 /\ Len(<<>>) = 0
    BY <1>2
  <2>2. longer # <<>>
    BY <2>1, Zenon
  <2> QED
    BY <1>1, <1>2, <2>2 DEF EndsWith
<1>4. ASSUME NEW i \in 2..Len(longer), longer[i].role # "user"
      PROVE  longer[i].turn = longer[i - 1].turn
  <2>1. CASE i <= Len(m)
    <3>1. longer[i] = m[i] /\ longer[i - 1] = m[i - 1]
      BY <1>2, <1>4, <2>1
    <3> QED
      BY <1>4, <2>1, <3>1 DEF Follows
  <2>2. CASE i = Len(m) + 1
    <3>1. longer[i] = new /\ longer[i - 1] = m[Len(m)]
      BY <1>2, <1>4, <2>2
    <3> QED
      BY <1>1, <1>4, <3>1 DEF EndsWith
  <2> QED
    BY <1>2, <1>4, <2>1, <2>2
<1> QED
  BY <1>2, <1>3, <1>4 DEF Follows, new

\* Trimming takes a reply away before the turn that it answers, never after it
\* (conversation.py:99-101): the neighbours that stay are neighbours.
LEMMA TrimmedFollows ==
    ASSUME NEW m \in Seq(Message), Follows(m), NEW turn, EndsWith(m, turn)
    PROVE  Follows(Trimmed(m)) /\ EndsWith(Trimmed(m), turn)
<1>1. EndsWith(Trimmed(m), turn)
  BY TrimmedLast DEF EndsWith
<1>2. ASSUME NEW i \in 2..Len(Trimmed(m)), Trimmed(m)[i].role # "user"
      PROVE  Trimmed(m)[i].turn = Trimmed(m)[i - 1].turn
  <2>1. Popped(m) \in 0..Len(m) /\ Len(Trimmed(m)) = Len(m) - Popped(m)
    BY PoppedIsLeast, TrimmedType
  <2>2. /\ i \in 1..Len(Trimmed(m)) /\ i - 1 \in 1..Len(Trimmed(m))
        /\ Popped(m) + i \in 2..Len(m)
        /\ Popped(m) + (i - 1) = (Popped(m) + i) - 1
    BY <1>2, <2>1
  <2>3. Trimmed(m)[i] = m[Popped(m) + i] /\ Trimmed(m)[i - 1] = m[Popped(m) + (i - 1)]
    BY <2>2, TrimmedType
  <2>4. m[Popped(m) + i].turn = m[(Popped(m) + i) - 1].turn
    BY <1>2, <2>2, <2>3 DEF Follows
  <2> QED
    BY <2>2, <2>3, <2>4
<1> QED
  BY <1>1, <1>2 DEF Follows

LEMMA AddTurnFollows ==
    ASSUME NEW m \in Seq(Message), Follows(m),
           NEW role \in Role, NEW turn \in Seq(Nat), role = "user" \/ EndsWith(m, turn)
    PROVE  /\ AddTurn(m, role, turn) \in Seq(Message)
           /\ Follows(AddTurn(m, role, turn))
           /\ EndsWith(AddTurn(m, role, turn), turn)
  BY AppendFollows, TrimmedFollows, AddTurnType DEF AddTurn

LEMMA AddToolResultFollows ==
    ASSUME NEW m \in Seq(Message), Follows(m), NEW turn \in Seq(Nat), EndsWith(m, turn)
    PROVE  /\ Follows(AddToolResult(m, turn))
           /\ EndsWith(AddToolResult(m, turn), turn)
  BY AppendFollows DEF AddToolResult, Role

-----------------------------------------------------------------------------
\* The history ends with the turn that a response in flight answers.
TurnIsLast ==
    /\ Live /\ ~IsGreeting => EndsWith(messages, response_task.turn)
    /\ response_task.at = "llm" => ~IsGreeting

HistoryInv == RepliesFollowTheirTurn /\ TurnIsLast

\* A message of the response in flight.
Records ==
    \E role \in Role \ {"user"} :
        \/ messages' = AddTurn(messages, role, response_task.turn)
        \/ messages' = AddToolResult(AddTurn(messages, role, response_task.turn),
                                     response_task.turn)

\* What a response step does to the history.
LEMMA ResponseStepHistory ==
    ASSUME TypeInv, TurnIsLast, ResponseStep
    PROVE  /\ response_task'.turn = response_task.turn
           /\ messages' = messages \/ (Live /\ ~IsGreeting /\ Records)
           /\ response_task'.at = "llm" => ~IsGreeting
<1> USE DEF conversation
<1>0. /\ response_task \in ResponseTaskSet
      /\ RoundsLeft
  BY DEF TypeInv, TypeOK
<1>1. ASSUME NEW response \in ResponseTaskSet, response.turn = response_task.turn,
             Speak(response)
      PROVE  response_task'.turn = response_task.turn /\ response_task'.at # "llm"
  BY <1>1 DEF Speak, ResponseTaskSet
<1>2. ASSUME NEW response \in ResponseTaskSet, response.turn = response_task.turn,
             StartRound(response)
      PROVE  response_task'.turn = response_task.turn
  <2>1. [response EXCEPT !.full = TRUE] \in ResponseTaskSet
    BY DEF ResponseTaskSet
  <2>2. [response EXCEPT !.full = TRUE].turn = response_task.turn
    BY <1>2 DEF ResponseTaskSet
  <2>3. [response EXCEPT !.at = "llm"].turn = response_task.turn
    BY <1>2 DEF ResponseTaskSet
  <2> QED
    BY <1>1, <1>2, <2>1, <2>2, <2>3 DEF StartRound
<1>3. ASSUME NEW full, NEW exit, Finish(full, exit)
      PROVE  /\ response_task'.turn = response_task.turn
             /\ response_task'.at # "llm"
             /\ messages' = messages \/ (~IsGreeting /\ Records)
  BY <1>0, <1>3 DEF Finish, RecordReply, Records, Role, ResponseTaskSet
<1>4. /\ [response_task EXCEPT !.full = TRUE] \in ResponseTaskSet
      /\ [response_task EXCEPT !.full = TRUE].turn = response_task.turn
      /\ [response_task EXCEPT !.fallback = TRUE] \in ResponseTaskSet
      /\ [response_task EXCEPT !.fallback = TRUE].turn = response_task.turn
  BY <1>0 DEF ResponseTaskSet
<1>5. CASE GreetingStarts
  BY <1>0, <1>1, <1>5 DEF GreetingStarts
<1>6. CASE ReplyStarts
  BY <1>0, <1>2, <1>6 DEF ReplyStarts
<1>7. CASE ReplySkipped \/ SpeakIssued \/ ResponseHangupReturns
  BY <1>0, <1>7 DEF ReplySkipped, SpeakIssued, ResponseHangupReturns, ResponseTaskSet
<1>8. CASE LlmAnswers \/ LlmFails
  BY <1>1, <1>4, <1>8 DEF LlmAnswers, LlmFails
<1>9. CASE LlmCallsTool
  <2>1. [response_task EXCEPT !.tool_rounds = @ + 1] \in ResponseTaskSet
    BY <1>0, <1>9, OneMoreRoundType DEF LlmCallsTool, Resumes, RoundsLeft
  <2>2. [response_task EXCEPT !.tool_rounds = @ + 1].turn = response_task.turn
    BY <1>0 DEF ResponseTaskSet
  <2>3. Live /\ ~IsGreeting
    BY <1>9 DEF LlmCallsTool, Resumes, Live, TurnIsLast
  <2>4. Records
    BY <1>9 DEF LlmCallsTool, Records, Role
  <2> QED
    BY <1>2, <1>9, <2>1, <2>2, <2>3, <2>4 DEF LlmCallsTool
<1>10. CASE LlmCallsTooManyTools
  <2>1. [response_task EXCEPT !.tool_rounds = @ + 1] \in ResponseTaskSet
    BY <1>0, <1>10, OneMoreRoundType DEF LlmCallsTooManyTools, Resumes, RoundsLeft
  <2>2. /\ [response_task EXCEPT !.tool_rounds = @ + 1, !.full = TRUE] \in ResponseTaskSet
        /\ [response_task EXCEPT !.tool_rounds = @ + 1, !.full = TRUE].turn = response_task.turn
    BY <1>0, <2>1 DEF ResponseTaskSet
  <2> QED
    BY <1>1, <1>10, <2>2 DEF LlmCallsTooManyTools
<1>11. CASE ToolRaises
  <2>1. [response_task EXCEPT !.tool_rounds = @ + 1] \in ResponseTaskSet
    BY <1>0, <1>11, OneMoreRoundType DEF ToolRaises, Resumes, RoundsLeft
  <2>2. /\ [response_task EXCEPT !.tool_rounds = @ + 1, !.fallback = TRUE] \in ResponseTaskSet
        /\ [response_task EXCEPT !.tool_rounds = @ + 1, !.fallback = TRUE].turn
             = response_task.turn
    BY <1>0, <2>1 DEF ResponseTaskSet
  <2>3. Live /\ ~IsGreeting
    BY <1>11 DEF ToolRaises, Resumes, Live, TurnIsLast
  <2>4. Records
    BY <1>11 DEF ToolRaises, Records, Role
  <2> QED
    BY <1>1, <1>11, <2>2, <2>3, <2>4 DEF ToolRaises
<1>12. CASE LlmIsSilent \/ PlaybackEnds \/ PlaybackTimesOut
  <2>1. Live /\ \E full, exit : Finish(full, exit)
    BY <1>12, Zenon DEF LlmIsSilent, PlaybackEnds, PlaybackTimesOut, Resumes, Live
  <2> QED
    BY <1>3, <2>1
<1>13. CASE SpeakFails
  <2>1. Live
    BY <1>13 DEF SpeakFails, Resumes, Live
  <2>2. CASE \E full, exit : Finish(full, exit)
    BY <1>3, <2>1, <2>2
  <2>3. CASE Speak([response_task EXCEPT !.fallback = TRUE]) /\ UNCHANGED conversation
    BY <1>1, <1>4, <2>3
  <2> QED
    BY <1>13, <2>2, <2>3, Zenon DEF SpeakFails
<1>14. CASE ResponseCancelled
  <2>1. CASE response_task.at \in {"new", "hangup"}
    BY <1>0, <1>14, <2>1 DEF ResponseCancelled, ResponseTaskSet
  <2>2. CASE response_task.at \notin {"new", "hangup"}
    <3>1. Live /\ \E full, exit : Finish(full, exit)
      BY <1>14, <2>2, Zenon DEF ResponseCancelled
    <3> QED
      BY <1>3, <3>1
  <2> QED
    BY <2>1, <2>2
<1> QED
  BY <1>5, <1>6, <1>7, <1>8, <1>9, <1>10, <1>11, <1>12, <1>13, <1>14 DEF ResponseStep

LEMMA HistoryResponseStep ==
    ASSUME TypeInv, HistoryInv, ResponseStep
    PROVE  HistoryInv'
<1>0. /\ messages \in Seq(Message)
      /\ response_task \in ResponseTaskSet
      /\ response_task' \in ResponseTaskSet
  BY TypeResponseStep DEF TypeInv, TypeOK
<1>1. /\ response_task'.turn = response_task.turn
      /\ messages' = messages \/ (Live /\ ~IsGreeting /\ Records)
      /\ response_task'.at = "llm" => ~IsGreeting
  BY ResponseStepHistory DEF HistoryInv
<1>2. Live' => Live
  BY <1>0, ResponseStepSummary DEF Speaks, Finishes, GoesOn, Live, ResponseTaskSet
<1>3. CASE messages' = messages
  BY <1>1, <1>2, <1>3 DEF HistoryInv, RepliesFollowTheirTurn, TurnIsLast, IsGreeting, EndsWith
<1>4. CASE Live /\ ~IsGreeting /\ Records
  <2>1. Follows(messages) /\ EndsWith(messages, response_task.turn)
    BY <1>4 DEF HistoryInv, RepliesFollowTheirTurn, TurnIsLast, Follows
  <2>2. response_task.turn \in Seq(Nat)
    BY <1>0 DEF ResponseTaskSet
  <2>3. Follows(messages') /\ EndsWith(messages', response_task.turn)
    BY <1>0, <1>4, <2>1, <2>2, AddTurnFollows, AddToolResultFollows DEF Records
  <2> QED
    BY <1>1, <1>4, <2>3
       DEF HistoryInv, RepliesFollowTheirTurn, TurnIsLast, Follows, IsGreeting, EndsWith
<1> QED
  BY <1>1, <1>3, <1>4

LEMMA HistoryStartReply ==
    ASSUME TypeInv, HistoryInv, NEW turn \in Seq(Nat), StartReply(turn)
    PROVE  HistoryInv'
<1>1. Follows(messages') /\ EndsWith(messages', turn)
  BY AddTurnFollows
     DEF StartReply, Role, TypeInv, TypeOK, HistoryInv, RepliesFollowTheirTurn, Follows
<1>2. response_task'.turn = turn /\ response_task'.at = "new"
  BY DEF StartReply, NewResponse
<1> QED
  BY <1>1, <1>2 DEF HistoryInv, RepliesFollowTheirTurn, TurnIsLast, Follows, EndsWith

\* A response task that is left alone or cancelled answers the same turn.
LEMMA HistorySame ==
    ASSUME TypeInv, HistoryInv, messages' = messages,
           response_task' = response_task \/ CancelRequested
    PROVE  HistoryInv'
<1>1. response_task'.at = response_task.at /\ response_task'.turn = response_task.turn
  BY DEF TypeInv, TypeOK, CancelRequested, ResponseTaskSet
<1> QED
  BY <1>1 DEF HistoryInv, RepliesFollowTheirTurn, TurnIsLast, Live, IsGreeting, EndsWith

LEMMA HistoryRunStep ==
    ASSUME TypeInv, HistoryInv, RunStep
    PROVE  HistoryInv'
<1> USE DEF conversation
<1>0. TypeOK /\ run_task.kept \in Seq(Nat) /\ transcript_buffer \in Seq(Nat)
  BY DEF TypeInv, TypeOK, RunTaskSet
<1>1. CASE TranscriptionStarts
  <2>1. messages' = messages
    BY <1>1, Zenon DEF TranscriptionStarts
  <2>2. response_task' = response_task \/ response_task' = NewResponse(<<>>)
    BY <1>1, Zenon DEF TranscriptionStarts
  <2>3. CASE response_task' = NewResponse(<<>>)
    BY <2>1, <2>3
       DEF NewResponse, HistoryInv, RepliesFollowTheirTurn, TurnIsLast, IsGreeting
  <2> QED
    BY <2>1, <2>2, <2>3, HistorySame
<1>2. CASE TakeTurn
  <2>1. CASE Live
    <3>1. messages' = messages /\ CancelRequested
      BY <1>2, <2>1 DEF TakeTurn, CancelAndReap, CancelRequested
    <3> QED
      BY <3>1, HistorySame
  <2>2. CASE ~Live
    BY <1>0, <1>2, <2>2, HistoryStartReply DEF TakeTurn
  <2> QED
    BY <2>1, <2>2
<1>3. CASE SupersededReaped
  <2>1. CASE response_task.exit = "cancelled"
    BY <1>3, <2>1, EnterTeardownResponse, HistorySame DEF SupersededReaped
  <2>2. CASE response_task.exit # "cancelled"
    BY <1>0, <1>3, <2>2, HistoryStartReply DEF SupersededReaped
  <2> QED
    BY <2>1, <2>2
<1>4. CASE PlaybackStops
  <2>1. response_task' = response_task \/ CancelRequested
    BY <1>4 DEF PlaybackStops, CancelAndReap, CancelRequested
  <2> QED
    BY <1>4, <2>1, HistorySame DEF PlaybackStops
<1>5. CASE InterruptedReaped
  <2>1. response_task' = response_task \/ CancelRequested
    BY <1>5, EnterTeardownResponse DEF InterruptedReaped
  <2> QED
    BY <1>5, <2>1, HistorySame DEF InterruptedReaped
<1>6. CASE TakeHangup \/ HangupReturns \/ RunCancelled
  BY <1>6, EnterTeardownResponse, HistorySame DEF TakeHangup, HangupReturns, RunCancelled
<1>7. CASE TakeSpeakEnded \/ TakeIgnored \/ TakeBargeIn \/ TakeFinal \/ LastReaped \/ TranscriptionStops
  <2>1. messages' = messages /\ response_task' = response_task
    BY <1>7, Zenon
       DEF TakeSpeakEnded, TakeIgnored, TakeBargeIn, TakeFinal, LastReaped, TranscriptionStops
  <2> QED
    BY <2>1, HistorySame
<1> QED
  BY <1>1, <1>2, <1>3, <1>4, <1>5, <1>6, <1>7 DEF RunStep

LEMMA HistoryStep == TypeInv /\ HistoryInv /\ [Next]_vars => HistoryInv'
<1> SUFFICES ASSUME TypeInv, HistoryInv, [Next]_vars PROVE HistoryInv'
  OBVIOUS
<1>1. CASE RunStep
  BY <1>1, HistoryRunStep
<1>2. CASE ResponseStep
  BY <1>2, HistoryResponseStep
<1>3. CASE Environment
  BY <1>3, HistorySame, EnvironmentResponse, EnvironmentQueue DEF conversation, TypeInv
<1>4. CASE Over \/ UNCHANGED vars
  BY <1>4, HistorySame DEF Over, vars, conversation
<1> QED
  BY <1>1, <1>2, <1>3, <1>4 DEF Next

LEMMA HistoryInit == Init => HistoryInv
  BY DEF Init, NoResponse, NewResponse, HistoryInv, RepliesFollowTheirTurn, TurnIsLast, Live,
         IsGreeting

\* Whatever interrupts or supersedes it, and however the history is trimmed, a
\* response writes behind the user turn that it answers and never behind the
\* next one (agent.py:229-243).
THEOREM RepliesStayInTheirTurn == Spec => []RepliesFollowTheirTurn
<1>1. HistoryInv => RepliesFollowTheirTurn
  BY DEF HistoryInv
<1> QED
  BY <1>1, TypeInvInit, TypeInvStep, HistoryInit, HistoryStep, PTL DEF Spec

-----------------------------------------------------------------------------
(***************************************************************************)
(* The caller's words.                                                     *)
(***************************************************************************)

\* The turns of the caller in a history, and nothing for the other messages.
Turns(m) == [i \in 1..Len(m) |-> IF m[i].role = "user" THEN m[i].turn ELSE <<>>]

LEMMA TurnsType ==
    ASSUME NEW m \in Seq(Message)
    PROVE  /\ Turns(m) \in Seq(Seq(Nat))
           /\ Len(Turns(m)) = Len(m)
           /\ TurnWords(m) = FlattenSeq(Turns(m))
           /\ TurnWords(m) \in Seq(Nat)
<1>1. Len(m) \in Nat /\ \A i \in 1..Len(m) : m[i] \in Message
  OBVIOUS
<1>2. Turns(m) \in [1..Len(m) -> Seq(Nat)]
  <2>1. <<>> \in Seq(Nat)
    OBVIOUS
  <2> QED
    BY <1>1, <2>1 DEF Turns, Message
<1>3. Turns(m) \in Seq(Seq(Nat)) /\ Len(Turns(m)) = Len(m)
  BY <1>1, <1>2
<1>4. TurnWords(m) = FlattenSeq(Turns(m))
  BY DEF TurnWords, Turns
<1> QED
  BY <1>3, <1>4, FlattenType

LEMMA TurnWordsAppend ==
    ASSUME NEW m \in Seq(Message), NEW new \in Message
    PROVE  TurnWords(Append(m, new))
             = TurnWords(m) \o (IF new.role = "user" THEN new.turn ELSE <<>>)
<1> DEFINE longer == Append(m, new)
           n == Len(m)
           x == IF new.role = "user" THEN new.turn ELSE <<>>
<1>1. /\ n \in Nat /\ longer \in Seq(Message) /\ Len(longer) = n + 1
      /\ longer[n + 1] = new
      /\ \A i \in 1..n : longer[i] = m[i]
  OBVIOUS
<1>2. x \in Seq(Nat)
  BY DEF Message
<1> DEFINE A == Seq(Nat)
<1> HIDE DEF longer, A
<1>3. Turns(m) \in [1..n -> A] /\ Turns(longer) \in [1..(n + 1) -> A]
  <2>1. <<>> \in A
    BY DEF A
  <2>2. \A e \in Message : e.turn \in A
    BY DEF Message, A
  <2>3. \A i \in 1..n : m[i] \in Message
    OBVIOUS
  <2>4. \A i \in 1..(n + 1) : longer[i] \in Message
    BY <1>1
  <2> QED
    BY <1>1, <2>1, <2>2, <2>3, <2>4 DEF Turns
<1>4. \A i \in 1..n : Turns(longer)[i] = Turns(m)[i]
  BY <1>1 DEF Turns
<1>5. Turns(longer)[n + 1] = x
  <2>1. n + 1 \in 1..(n + 1)
    BY <1>1
  <2> HIDE DEF n
  <2>2. Turns(longer)[n + 1] = IF longer[n + 1].role = "user" THEN longer[n + 1].turn ELSE <<>>
    BY <1>1, <2>1 DEF Turns
  <2> QED
    BY <1>1, <2>2
<1> HIDE DEF n, x
<1>6. Turns(longer) = Append(Turns(m), x)
  BY <1>1, <1>3, <1>4, <1>5, LongerByOne
<1>7. FlattenSeq(Append(Turns(m), x)) = FlattenSeq(Turns(m)) \o x
  BY <1>2, TurnsType, FlattenAppend
<1> QED
  BY <1>1, <1>6, <1>7, TurnsType DEF longer, x

\* Popping messages from the front only takes words away from the front.
LEMMA TurnWordsDrop ==
    ASSUME NEW m \in Seq(Message), NEW d \in 0..Len(m)
    PROVE  \E old \in Seq(Nat) :
              /\ TurnWords(m) = old \o TurnWords(SubSeq(m, d + 1, Len(m)))
              /\ d = 0 => old = <<>>
<1> DEFINE n == Len(m)
           rest == SubSeq(m, d + 1, n)
           old == FlattenSeq(SubSeq(Turns(m), 1, d))
<1>1. n \in Nat /\ d \in Nat /\ d <= n
  OBVIOUS
<1>2. /\ rest \in Seq(Message) /\ Len(rest) = n - d
      /\ \A i \in 1..(n - d) : rest[i] = m[d + i]
  BY <1>1
<1>3. Turns(m) \in Seq(Seq(Nat)) /\ Len(Turns(m)) = n
  BY TurnsType
<1>4. SubSeq(Turns(m), d + 1, n) = Turns(rest)
  <2> DEFINE A == Seq(Nat)
             s == Turns(m)
             t == Turns(rest)
             u == SubSeq(s, d + 1, n)
  <2> HIDE DEF A
  <2>1. s \in Seq(A) /\ Len(s) = n
    BY <1>3 DEF A
  <2>2. t \in Seq(A) /\ Len(t) = n - d
    BY <1>2, TurnsType DEF A
  <2>3. \A i \in 1..(n - d) : t[i] = s[d + i]
    <3> SUFFICES ASSUME NEW i \in 1..(n - d)
                 PROVE  t[i] = s[d + i]
      OBVIOUS
    <3>1. d + i \in 1..n /\ i \in 1..Len(rest) /\ rest[i] = m[d + i]
      BY <1>1, <1>2
    <3> HIDE DEF rest
    <3> QED
      BY <3>1 DEF Turns
  <2> HIDE DEF s, t, n
  <2>4. /\ u \in Seq(A) /\ Len(u) = n - d
        /\ \A i \in 1..(n - d) : u[i] = s[d + i]
    BY <1>1, <2>1
  <2> HIDE DEF u
  <2>5. u = t
    BY <2>2, <2>3, <2>4, SMTT(40)
  <2> QED
    BY <2>5 DEF u, s, t, n
<1> HIDE DEF n, rest
<1>5. /\ SubSeq(Turns(m), 1, d) \in Seq(Seq(Nat))
      /\ FlattenSeq(Turns(m)) = old \o FlattenSeq(SubSeq(Turns(m), d + 1, n))
  <2>1. d \in 0..Len(Turns(m))
    BY <1>1, <1>3
  <2> QED
    BY <1>3, <2>1, FlattenDrop
<1>6. old \in Seq(Nat)
  BY <1>5, FlattenType
<1>7. d = 0 => old = <<>>
  <2> SUFFICES ASSUME d = 0 PROVE old = <<>>
    OBVIOUS
  <2>1. SubSeq(Turns(m), 1, 0) = <<>>
    BY <1>3
  <2> QED
    BY <2>1, FlattenEmpty
<1> HIDE DEF old
<1>8. TurnWords(m) = old \o TurnWords(rest)
  BY <1>2, <1>4, <1>5, TurnsType
<1> QED
  BY <1>6, <1>7, <1>8 DEF n, rest

\* Every turn of the caller has words.
HaveWords(m) == \A i \in 1..Len(m) : m[i].role = "user" => m[i].turn # <<>>

\* There are at least as many words as turns.
LEMMA TurnWordsLength ==
    ASSUME NEW m \in Seq(Message), HaveWords(m), NEW d \in 0..Len(m)
    PROVE  UserCount(m, d) <= Len(TurnWords(SubSeq(m, d + 1, Len(m))))
<1> DEFINE n == Len(m)
           rest == SubSeq(m, d + 1, n)
           U == {i \in (d + 1)..n : m[i].role = "user"}
           F == Filled(Turns(rest))
           f == [i \in U |-> i - d]
<1>1. n \in Nat /\ d \in Nat /\ d <= n
  OBVIOUS
<1>2. /\ rest \in Seq(Message) /\ Len(rest) = n - d
      /\ \A i \in 1..(n - d) : rest[i] = m[d + i]
  BY <1>1
<1>3. Turns(rest) \in Seq(Seq(Nat)) /\ Len(Turns(rest)) = n - d
  BY <1>2, TurnsType
<1> HIDE DEF rest
<1>4. ASSUME NEW i \in U
      PROVE  i - d \in F
  <2>1. i \in Nat /\ i - d \in 1..(n - d) /\ d + (i - d) = i /\ i \in 1..n
    BY <1>1
  <2>2. rest[i - d] = m[i] /\ m[i].role = "user"
    BY <1>2, <2>1
  <2>3. m[i].turn # <<>>
    BY <2>1, <2>2 DEF HaveWords
  <2>4. PICK j : j = i - d
    OBVIOUS
  <2>5. j \in 1..Len(rest) /\ rest[j] = m[i]
    BY <1>2, <2>1, <2>2, <2>4
  <2>6. Turns(rest)[j] = m[i].turn
    BY <2>2, <2>5, Zenon DEF Turns
  <2> QED
    BY <1>3, <2>1, <2>3, <2>4, <2>6 DEF Filled
<1>5. f \in [U -> F]
  BY <1>4, Zenon
<1>6. \A i, j \in U : f[i] = f[j] => i = j
  BY <1>1
<1>7. f \in Injection(U, F)
  <2> HIDE DEF f, U, F
  <2> QED
    BY <1>5, <1>6 DEF Injection, IsInjective
<1>8. IsFiniteSet(F) /\ Cardinality(F) \in Nat
  BY <1>3, FilledIsFinite
<1>9. Cardinality(U) <= Cardinality(F)
  <2> HIDE DEF f, U, F
  <2> QED
    BY <1>7, <1>8, FS_Injection
<1>10. Cardinality(F) <= Len(FlattenSeq(Turns(rest)))
  BY <1>3, FlattenLength
<1>11. UserCount(m, d) = Cardinality(U) /\ TurnWords(rest) = FlattenSeq(Turns(rest))
  BY <1>2, TurnsType DEF UserCount
<1>12. IsFiniteSet(U) /\ Cardinality(U) \in Nat
  <2> HIDE DEF f, F, U
  <2> QED
    BY <1>7, <1>8, FS_Injection, FS_CardinalityType
<1>13. Len(TurnWords(rest)) \in Nat
  BY <1>2, TurnsType
<1> DEFINE a == Cardinality(U)
           b == Cardinality(F)
<1> HIDE DEF a, b
<1>14. a \in Nat /\ b \in Nat /\ a <= b /\ b <= Len(TurnWords(rest)) /\ UserCount(m, d) = a
  BY <1>8, <1>9, <1>10, <1>11, <1>12 DEF a, b
<1>15. a <= Len(TurnWords(rest))
  BY <1>13, <1>14
<1> QED
  BY <1>14, <1>15 DEF rest

\* Of the words before, the first may be dropped, if a full history stays.
KeepsLast(before, after) ==
    \E old \in Seq(Nat) :
        /\ before = old \o after
        /\ old = <<>> \/ Len(after) >= MaxTurns

LEMMA KeepsAll ==
    ASSUME NEW words \in Seq(Nat)
    PROVE  KeepsLast(words, words)
<1>1. <<>> \in Seq(Nat) /\ words = <<>> \o words
  OBVIOUS
<1> QED
  BY <1>1 DEF KeepsLast

LEMMA TrimmedWords ==
    ASSUME NEW m \in Seq(Message), HaveWords(m)
    PROVE  /\ HaveWords(Trimmed(m))
           /\ KeepsLast(TurnWords(m), TurnWords(Trimmed(m)))
<1> DEFINE d == Popped(m)
           n == Len(m)
           U(e) == {i \in (e + 1)..n : m[i].role = "user"}
<1>1. /\ n \in Nat /\ d \in 0..n
      /\ \A e \in 0..n : TrimEnds(m, e) => d <= e
  BY PoppedIsLeast
<1>2. HaveWords(Trimmed(m))
  <2> SUFFICES ASSUME NEW i \in 1..Len(Trimmed(m)), Trimmed(m)[i].role = "user"
               PROVE  Trimmed(m)[i].turn # <<>>
    BY DEF HaveWords
  <2>1. Len(Trimmed(m)) = n - d /\ Trimmed(m)[i] = m[d + i]
    BY TrimmedType
  <2>2. d + i \in 1..n
    BY <1>1, <2>1
  <2> QED
    BY <2>1, <2>2 DEF HaveWords
<1>3. PICK old \in Seq(Nat) :
          /\ TurnWords(m) = old \o TurnWords(Trimmed(m))
          /\ d = 0 => old = <<>>
  BY <1>1, TurnWordsDrop DEF Trimmed
<1>4. UserCount(m, d) <= Len(TurnWords(Trimmed(m)))
  BY <1>1, TurnWordsLength DEF Trimmed
<1>5. Len(TurnWords(Trimmed(m))) \in Nat
  BY TrimmedType, TurnsType
<1> HIDE DEF d, n
<1>6. CASE d # 0
  <2>1. d \in Nat /\ d \in 0..n /\ d - 1 \in 0..n /\ ~(d <= d - 1) /\ (d - 1) + 1 = d
    BY <1>1, <1>6
  <2>2. ~TrimEnds(m, d - 1)
    BY <1>1, <2>1
  <2>3. ~(Cardinality(U(d - 1)) <= MaxTurns)
    BY <2>2 DEF TrimEnds, UserCount, n
  <2>4. IsFiniteSet(U(d)) /\ IsFiniteSet(U(d - 1))
    <3>1. ASSUME NEW e \in Nat
          PROVE  IsFiniteSet(U(e))
      <4>1. IsFiniteSet((e + 1)..n)
        BY <1>1, FS_Interval
      <4> QED
        BY <4>1, FS_Subset
    <3>2. d - 1 \in Nat
      BY <1>1, <2>1
    <3> QED
      BY <2>1, <3>1, <3>2
  <2>5. U(d - 1) \subseteq U(d) \cup {d}
    BY <1>1, <2>1
  <2>6. UserCount(m, d) = Cardinality(U(d))
    BY DEF UserCount, n
  <2>7. /\ Cardinality(U(d)) \in Nat
        /\ Cardinality(U(d - 1)) \in Nat
        /\ Cardinality(U(d - 1)) <= Cardinality(U(d)) + 1
    <3> DEFINE A == U(d)
               B == U(d - 1)
    <3> HIDE DEF A, B
    <3>0. IsFiniteSet(A) /\ IsFiniteSet(B) /\ B \subseteq A \cup {d}
      BY <2>4, <2>5 DEF A, B
    <3>1. Cardinality(A) \in Nat /\ Cardinality(B) \in Nat
      BY <3>0, FS_CardinalityType
    <3>2. d \notin A
      BY <1>1 DEF A
    <3>3. IsFiniteSet(A \cup {d}) /\ Cardinality(A \cup {d}) = Cardinality(A) + 1
      BY <3>0, <3>2, FS_AddElement
    <3>4. Cardinality(B) <= Cardinality(A \cup {d})
      BY <3>0, <3>3, FS_Subset
    <3> QED
      BY <3>1, <3>3, <3>4 DEF A, B
  <2> DEFINE a == Cardinality(U(d))
             b == Cardinality(U(d - 1))
             l == Len(TurnWords(Trimmed(m)))
  <2> HIDE DEF a, b, l
  <2>8. /\ a \in Nat /\ b \in Nat /\ b <= a + 1 /\ ~(b <= MaxTurns)
        /\ a <= l /\ l \in Nat /\ MaxTurns \in Nat
    BY <1>4, <1>5, <2>3, <2>6, <2>7, MaxTurnsAssumption, Zenon DEF a, b, l
  <2>9. l >= MaxTurns
    BY <2>8
  <2> QED
    BY <1>2, <1>3, <2>9, Zenon DEF KeepsLast, l
<1> QED
  BY <1>2, <1>3, <1>6, Zenon DEF KeepsLast

LEMMA AppendHaveWords ==
    ASSUME NEW m \in Seq(Message), HaveWords(m), NEW new \in Message,
           new.role = "user" => new.turn # <<>>
    PROVE  HaveWords(Append(m, new))
<1> DEFINE longer == Append(m, new)
<1>1. /\ Len(m) \in Nat /\ Len(longer) = Len(m) + 1
      /\ longer[Len(m) + 1] = new
      /\ \A i \in 1..Len(m) : longer[i] = m[i]
  OBVIOUS
<1> HIDE DEF longer
<1> SUFFICES ASSUME NEW i \in 1..Len(longer), longer[i].role = "user"
             PROVE  longer[i].turn # <<>>
  BY DEF HaveWords, longer
<1>2. CASE i = Len(m) + 1
  BY <1>1, <1>2
<1>3. CASE i # Len(m) + 1
  <2>1. i \in 1..Len(m) /\ longer[i] = m[i]
    BY <1>1, <1>3
  <2> QED
    BY <2>1 DEF HaveWords
<1> QED
  BY <1>2, <1>3

\* The words of a turn follow those of the history; trimming only loses the
\* first words of a history that is full (conversation.py:89-101).
LEMMA AddTurnWords ==
    ASSUME NEW m \in Seq(Message), HaveWords(m), NEW role \in Role, NEW turn \in Seq(Nat),
           role = "user" => turn # <<>>
    PROVE  /\ HaveWords(AddTurn(m, role, turn))
           /\ KeepsLast(TurnWords(m) \o (IF role = "user" THEN turn ELSE <<>>),
                        TurnWords(AddTurn(m, role, turn)))
<1> DEFINE new == [role |-> role, turn |-> turn]
           longer == Append(m, new)
<1>1. new \in Message /\ new.role = role /\ new.turn = turn
  BY DEF Message
<1> HIDE DEF new
<1>2. longer \in Seq(Message) /\ HaveWords(longer)
  BY <1>1, AppendHaveWords
<1>3. TurnWords(longer) = TurnWords(m) \o (IF role = "user" THEN turn ELSE <<>>)
  <2>1. TurnWords(longer) = TurnWords(m) \o (IF new.role = "user" THEN new.turn ELSE <<>>)
    BY <1>1, TurnWordsAppend
  <2> QED
    BY <1>1, <2>1
<1> HIDE DEF longer
<1>4. AddTurn(m, role, turn) = Trimmed(longer)
  BY DEF AddTurn, longer, new
<1>5. HaveWords(Trimmed(longer)) /\ KeepsLast(TurnWords(longer), TurnWords(Trimmed(longer)))
  BY <1>2, TrimmedWords
<1> QED
  BY <1>3, <1>4, <1>5

\* What a response records takes no words away, except by trimming.
LEMMA RecordsWords ==
    ASSUME TypeOK, HaveWords(messages), Records
    PROVE  /\ HaveWords(messages')
           /\ KeepsLast(TurnWords(messages), TurnWords(messages'))
<1> DEFINE turn == response_task.turn
<1>0. messages \in Seq(Message) /\ turn \in Seq(Nat)
  BY DEF TypeOK, ResponseTaskSet
<1> HIDE DEF turn
<1>1. PICK role \in Role \ {"user"} :
          \/ messages' = AddTurn(messages, role, turn)
          \/ messages' = AddToolResult(AddTurn(messages, role, turn), turn)
  BY DEF Records, turn
<1> DEFINE m == AddTurn(messages, role, turn)
           w == TurnWords(messages)
<1>2. /\ m \in Seq(Message)
      /\ HaveWords(m)
      /\ KeepsLast(w \o (IF role = "user" THEN turn ELSE <<>>), TurnWords(m))
  BY <1>0, AddTurnType, AddTurnWords
<1>3. w \in Seq(Nat)
  BY <1>0, TurnsType
<1> HIDE DEF m, w
<1>4. (IF role = "user" THEN turn ELSE <<>>) = <<>>
  BY <1>1
<1>5. w \o <<>> = w
  BY <1>3, ConcatEmptySeq
<1>6. KeepsLast(w, TurnWords(m))
  BY <1>2, <1>4, <1>5, Zenon
<1>7. HaveWords(AddToolResult(m, turn)) /\ TurnWords(AddToolResult(m, turn)) = TurnWords(m)
  <2> DEFINE new == [role |-> "tool", turn |-> turn]
  <2>1. new \in Message /\ new.role # "user"
    BY <1>0 DEF Message, Role
  <2> HIDE DEF new
  <2>2. AddToolResult(m, turn) = Append(m, new)
    BY DEF AddToolResult, new
  <2>3. HaveWords(Append(m, new))
    BY <1>2, <2>1, AppendHaveWords
  <2>4. TurnWords(Append(m, new)) = TurnWords(m) \o (IF new.role = "user" THEN new.turn ELSE <<>>)
    BY <1>2, <2>1, TurnWordsAppend
  <2>5. (IF new.role = "user" THEN new.turn ELSE <<>>) = <<>>
    BY <2>1
  <2>6. TurnWords(m) \o <<>> = TurnWords(m)
    BY <1>2, TurnsType, ConcatEmptySeq
  <2> QED
    BY <2>2, <2>3, <2>4, <2>5, <2>6, Zenon
<1>8. messages' = m \/ messages' = AddToolResult(m, turn)
  BY <1>1 DEF m
<1> QED
  BY <1>2, <1>6, <1>7, <1>8 DEF w

\* The words on a queue, item by item.
Finals(q) == [i \in 1..Len(q) |-> IF q[i].type = "final" THEN <<q[i].n>> ELSE <<>>]

LEMMA FinalsType ==
    ASSUME NEW q \in Seq(ItemSet)
    PROVE  /\ Finals(q) \in Seq(Seq(Nat))
           /\ Len(Finals(q)) = Len(q)
           /\ QueuedWords(q) = FlattenSeq(Finals(q))
           /\ QueuedWords(q) \in Seq(Nat)
<1>1. Len(q) \in Nat /\ \A i \in 1..Len(q) : q[i] \in ItemSet
  OBVIOUS
<1>2. Finals(q) \in [1..Len(q) -> Seq(Nat)]
  <2>1. <<>> \in Seq(Nat)
    OBVIOUS
  <2>2. \A item \in ItemSet : <<item.n>> \in Seq(Nat)
    BY DEF ItemSet
  <2> QED
    BY <1>1, <2>1, <2>2 DEF Finals
<1>3. Finals(q) \in Seq(Seq(Nat)) /\ Len(Finals(q)) = Len(q)
  BY <1>1, <1>2
<1>4. QueuedWords(q) = FlattenSeq(Finals(q))
  BY DEF QueuedWords, Finals
<1> QED
  BY <1>3, <1>4, FlattenType

\* The words that the item at the head of a queue carries.
HeadWords(q) == IF Head(q).type = "final" THEN <<Head(q).n>> ELSE <<>>

LEMMA QueuedTail ==
    ASSUME NEW q \in Seq(ItemSet), q # <<>>
    PROVE  /\ QueuedWords(q) = HeadWords(q) \o QueuedWords(Tail(q))
           /\ HeadWords(q) \in Seq(Nat)
           /\ QueuedWords(Tail(q)) \in Seq(Nat)
<1> DEFINE n == Len(q)
           rest == Tail(q)
<1>1. /\ n \in Nat /\ n # 0 /\ rest \in Seq(ItemSet) /\ Len(rest) = n - 1
      /\ \A i \in 1..(n - 1) : rest[i] = q[i + 1]
      /\ Head(q) = q[1] /\ q[1] \in ItemSet
  OBVIOUS
<1>2. Finals(q) \in Seq(Seq(Nat)) /\ Len(Finals(q)) = n
  BY FinalsType
<1>3. Finals(rest) \in Seq(Seq(Nat)) /\ Len(Finals(rest)) = n - 1
  BY <1>1, FinalsType
<1>4. Finals(q) # <<>>
  <2>1. Len(<<>>) = 0
    OBVIOUS
  <2> QED
    BY <1>1, <1>2, <2>1, Zenon
<1> HIDE DEF rest
<1>5. Head(Finals(q)) = HeadWords(q)
  <2>1. Head(Finals(q)) = Finals(q)[1]
    BY <1>2, <1>4
  <2>2. 1 \in 1..n
    BY <1>1
  <2> QED
    BY <1>1, <2>1, <2>2, Zenon DEF Finals, HeadWords
<1>6. Tail(Finals(q)) = Finals(rest)
  <2> DEFINE A == Seq(Nat)
             s == Finals(q)
             t == Finals(rest)
             u == Tail(s)
  <2> HIDE DEF A
  <2>1. s \in Seq(A) /\ Len(s) = n /\ t \in Seq(A) /\ Len(t) = n - 1
    BY <1>2, <1>3 DEF A
  <2>2. \A i \in 1..(n - 1) : t[i] = s[i + 1]
    <3> SUFFICES ASSUME NEW i \in 1..(n - 1)
                 PROVE  t[i] = s[i + 1]
      OBVIOUS
    <3>1. i + 1 \in 1..n /\ i \in 1..Len(rest) /\ rest[i] = q[i + 1]
      BY <1>1
    <3> QED
      BY <3>1 DEF Finals
  <2> HIDE DEF s, t, n
  <2>3. u \in Seq(A) /\ Len(u) = n - 1 /\ \A i \in 1..(n - 1) : u[i] = s[i + 1]
    BY <1>1, <2>1
  <2> HIDE DEF u
  <2>4. u = t
    BY <2>1, <2>2, <2>3, SMTT(40)
  <2> QED
    BY <2>4 DEF u, s, t
<1>7. FlattenSeq(Finals(q)) = Head(Finals(q)) \o FlattenSeq(Tail(Finals(q)))
  BY <1>2, <1>4, FlattenHead
<1>8. HeadWords(q) \in Seq(Nat)
  BY <1>1 DEF HeadWords, ItemSet
<1>9. QueuedWords(rest) = FlattenSeq(Finals(rest)) /\ QueuedWords(rest) \in Seq(Nat)
  BY <1>1, FinalsType
<1> QED
  BY <1>5, <1>6, <1>7, <1>8, <1>9, FinalsType DEF rest

LEMMA QueuedConcat ==
    ASSUME NEW q \in Seq(ItemSet), NEW items \in Seq(ItemSet)
    PROVE  QueuedWords(q \o items) = QueuedWords(q) \o QueuedWords(items)
<1> DEFINE longer == q \o items
           A == Seq(Nat)
           s == Finals(q)
           t == Finals(items)
           u == Finals(longer)
           v == s \o t
           n == Len(q)
           k == Len(items)
<1>1. /\ n \in Nat /\ k \in Nat /\ longer \in Seq(ItemSet) /\ Len(longer) = n + k
      /\ \A i \in 1..(n + k) : longer[i] = IF i <= n THEN q[i] ELSE items[i - n]
  OBVIOUS
<1> HIDE DEF longer, A
<1>2. /\ s \in Seq(A) /\ Len(s) = n
      /\ t \in Seq(A) /\ Len(t) = k
      /\ u \in Seq(A) /\ Len(u) = n + k
  BY <1>1, FinalsType DEF A
<1>3. \A i \in 1..(n + k) : u[i] = IF i <= n THEN s[i] ELSE t[i - n]
  <2> SUFFICES ASSUME NEW i \in 1..(n + k)
               PROVE  u[i] = IF i <= n THEN s[i] ELSE t[i - n]
    OBVIOUS
  <2>1. u[i] = IF longer[i].type = "final" THEN <<longer[i].n>> ELSE <<>>
    BY <1>1 DEF Finals
  <2>2. CASE i <= n
    <3>1. i \in 1..n /\ longer[i] = q[i]
      BY <1>1, <2>2
    <3>2. s[i] = IF q[i].type = "final" THEN <<q[i].n>> ELSE <<>>
      BY <3>1 DEF Finals
    <3> QED
      BY <2>1, <2>2, <3>1, <3>2
  <2>3. CASE ~(i <= n)
    <3>1. i - n \in 1..k /\ longer[i] = items[i - n]
      BY <1>1, <2>3
    <3>2. t[i - n] = IF items[i - n].type = "final" THEN <<items[i - n].n>> ELSE <<>>
      BY <3>1 DEF Finals
    <3> QED
      BY <2>1, <2>3, <3>1, <3>2
  <2> QED
    BY <2>2, <2>3
<1> HIDE DEF s, t, u, n, k
<1>4. /\ v \in Seq(A) /\ Len(v) = n + k
      /\ \A i \in 1..(n + k) : v[i] = IF i <= n THEN s[i] ELSE t[i - n]
  BY <1>1, <1>2, ConcatProperties
<1> HIDE DEF v
<1>5. u = v
  <2>1. \A i \in 1..(n + k) : u[i] = v[i]
    BY <1>3, <1>4, Zenon
  <2> QED
    BY <1>2, <1>4, <2>1
<1>6. FlattenSeq(v) = FlattenSeq(s) \o FlattenSeq(t)
  BY <1>2, FlattenConcat DEF A, v
<1> QED
  BY <1>1, <1>5, <1>6, FinalsType DEF longer, s, t, u

\* A final brings its words, any other item none.
LEMMA QueuedItems ==
    ASSUME NEW k \in Nat
    PROVE  /\ QueuedWords(<<Item("final", k), Item("uend", 0)>>) = <<k>>
           /\ \A type \in {"uend", "interim", "ended", "hangup"} :
                QueuedWords(<<Item(type, k)>>) = <<>>
<1>0. QueuedWords(<<>>) = <<>>
  BY FlattenEmpty DEF QueuedWords
<1>1. ASSUME NEW type \in {"uend", "interim", "ended", "hangup"}, NEW j \in Nat
      PROVE  QueuedWords(<<Item(type, j)>>) = <<>>
  <2> DEFINE q == <<Item(type, j)>>
  <2>1. q \in Seq(ItemSet) /\ q # <<>> /\ Tail(q) = <<>> /\ Head(q).type = type
    BY DEF Item, ItemSet
  <2>2. HeadWords(q) = <<>>
    BY <2>1 DEF HeadWords
  <2> HIDE DEF q
  <2>3. QueuedWords(q) = <<>> \o <<>>
    BY <1>0, <2>1, <2>2, QueuedTail
  <2>4. <<>> \o <<>> = <<>>
    OBVIOUS
  <2> QED
    BY <2>3, <2>4 DEF q
<1>2. QueuedWords(<<Item("final", k), Item("uend", 0)>>) = <<k>>
  <2> DEFINE q == <<Item("final", k), Item("uend", 0)>>
  <2>1. /\ q \in Seq(ItemSet) /\ q # <<>> /\ Tail(q) = <<Item("uend", 0)>>
        /\ Head(q).type = "final" /\ Head(q).n = k
    BY DEF Item, ItemSet
  <2>2. HeadWords(q) = <<k>>
    BY <2>1 DEF HeadWords
  <2> HIDE DEF q
  <2>3. QueuedWords(Tail(q)) = <<>>
    BY <1>1, <2>1
  <2>4. QueuedWords(q) = <<k>> \o <<>>
    BY <2>1, <2>2, <2>3, QueuedTail
  <2>5. <<k>> \o <<>> = <<k>>
    OBVIOUS
  <2> QED
    BY <2>4, <2>5 DEF q
<1> QED
  BY <1>1, <1>2

-----------------------------------------------------------------------------
\* The words are the last of the first n.
Recent(words, n) == \A i \in 1..Len(words) : words[i] = n - Len(words) + i

\* The words of the history and those behind them are the last of the first n,
\* and all of them unless the history is full.
Fits(history, behind, n) ==
    /\ Recent(history \o behind, n)
    /\ Len(history \o behind) >= n \/ Len(history) >= MaxTurns

LEMMA JoinAssociative ==
    \A s, t, u \in Seq(Nat) : (s \o t) \o u = s \o (t \o u)
<1> TAKE s, t, u \in Seq(Nat)
<1> QED
  BY ConcatAssociative, SMTT(40)

\* Words move from behind the history into it.
LEMMA FitsMoved ==
    ASSUME NEW n \in Nat, NEW history \in Seq(Nat), NEW turn \in Seq(Nat), NEW behind \in Seq(Nat),
           NEW after \in Seq(Nat),
           Fits(history, turn \o behind, n), KeepsLast(history \o turn, after)
    PROVE  Fits(after, behind, n)
<1>1. PICK old \in Seq(Nat) :
          /\ history \o turn = old \o after
          /\ old = <<>> \/ Len(after) >= MaxTurns
  BY DEF KeepsLast
<1> DEFINE all == history \o (turn \o behind)
           now == after \o behind
<1>2. all = old \o now
  <2>1. all = (history \o turn) \o behind
    BY JoinAssociative, ZenonT(40)
  <2>2. (old \o after) \o behind = old \o (after \o behind)
    BY JoinAssociative, ZenonT(40)
  <2> QED
    BY <1>1, <2>1, <2>2, Zenon
<1>3. now \in Seq(Nat) /\ Len(now) \in Nat /\ Len(old) \in Nat /\ Len(after) \in Nat
  OBVIOUS
<1>4. Recent(all, n) /\ (Len(all) >= n \/ Len(history) >= MaxTurns)
  BY DEF Fits
<1>5. /\ Len(history) \in Nat /\ Len(turn) \in Nat
      /\ Len(history \o turn) = Len(history) + Len(turn)
  OBVIOUS
<1>6. Len(old \o after) = Len(old) + Len(after)
  OBVIOUS
<1> HIDE DEF all, now
<1>7. /\ Len(all) = Len(old) + Len(now)
      /\ \A i \in 1..Len(now) : all[Len(old) + i] = now[i]
  BY <1>2, <1>3
<1>8. Recent(now, n)
  <2> SUFFICES ASSUME NEW i \in 1..Len(now)
               PROVE  now[i] = n - Len(now) + i
    BY DEF Recent
  <2>0. Len(old) + i \in 1..Len(all)
    <3>1. Len(all) = Len(old) + Len(now)
      BY <1>7
    <3> QED
      BY <1>3, <3>1
  <2>1. PICK j \in 1..Len(all) : j = Len(old) + i
    BY <2>0
  <2>2. all[j] = n - Len(all) + j
    BY <1>4 DEF Recent
  <2>3. all[j] = now[i]
    BY <1>7, <2>1
  <2>4. n - Len(all) + j = n - Len(now) + i
    BY <1>3, <1>7, <2>1
  <2> QED
    BY <2>2, <2>3, <2>4
<1>9. Len(now) >= n \/ Len(after) >= MaxTurns
  <2>1. CASE Len(after) >= MaxTurns
    BY <2>1
  <2>2. CASE old = <<>>
    <3>1. Len(old) = 0
      BY <2>2
    <3>2. Len(now) = Len(all)
      BY <1>3, <1>7, <3>1
    <3>3. Len(after) = Len(history) + Len(turn)
      BY <1>1, <1>3, <1>5, <1>6, <3>1
    <3>4. MaxTurns \in Nat
      BY MaxTurnsAssumption
    <3> QED
      BY <1>3, <1>4, <1>5, <3>2, <3>3, <3>4
  <2> QED
    BY <1>1, <2>1, <2>2
<1> QED
  BY <1>8, <1>9 DEF Fits, now

\* The next word is submitted.
LEMMA FitsNext ==
    ASSUME NEW n \in Nat, NEW history \in Seq(Nat), NEW behind \in Seq(Nat),
           Fits(history, behind, n)
    PROVE  Fits(history, behind \o <<n + 1>>, n + 1)
<1> DEFINE all == history \o behind
           now == history \o (behind \o <<n + 1>>)
<1>1. now = all \o <<n + 1>>
  <2>1. <<n + 1>> \in Seq(Nat)
    OBVIOUS
  <2> QED
    BY <2>1, ConcatAssociative
<1>2. all \in Seq(Nat) /\ Len(all) \in Nat
  OBVIOUS
<1>3. Recent(all, n) /\ (Len(all) >= n \/ Len(history) >= MaxTurns)
  BY DEF Fits
<1> HIDE DEF all, now
<1>4. /\ Len(now) = Len(all) + 1
      /\ now[Len(all) + 1] = n + 1
      /\ \A i \in 1..Len(all) : now[i] = all[i]
  BY <1>1, <1>2
<1>5. Recent(now, n + 1)
  <2> SUFFICES ASSUME NEW i \in 1..Len(now)
               PROVE  now[i] = (n + 1) - Len(now) + i
    BY DEF Recent
  <2>1. CASE i = Len(all) + 1
    BY <1>2, <1>4, <2>1
  <2>2. CASE i # Len(all) + 1
    <3>1. i \in 1..Len(all)
      BY <1>2, <1>4, <2>2
    <3>2. all[i] = n - Len(all) + i
      BY <1>3, <3>1 DEF Recent
    <3> QED
      BY <1>2, <1>4, <3>1, <3>2
  <2> QED
    BY <2>1, <2>2
<1>6. Len(now) >= n + 1 \/ Len(history) >= MaxTurns
  BY <1>2, <1>3, <1>4
<1> QED
  BY <1>5, <1>6 DEF Fits, now

-----------------------------------------------------------------------------
\* The words behind those of the history.
Pending == run_task.kept \o (transcript_buffer \o QueuedWords(events))

\* The call goes on.
Listening ==
    /\ ~ending
    /\ run_task.at \in {"transcribe", "get", "stopPlayback", "reapBarge", "reapTurn"}

\* Words are kept only while a response is reaped, a turn only with words.
KeptFits ==
    /\ run_task.at = "reapTurn" => run_task.kept # <<>>
    /\ run_task.at \notin {"stopPlayback", "reapBarge", "reapTurn"} => run_task.kept = <<>>

WordsFollow == Listening => Fits(TurnWords(messages), Pending, finals)

WordsInv == HaveWords(messages) /\ KeptFits /\ WordsFollow

LEMMA PendingType ==
    ASSUME TypeOK
    PROVE  /\ run_task.kept \in Seq(Nat)
           /\ transcript_buffer \in Seq(Nat)
           /\ QueuedWords(events) \in Seq(Nat)
           /\ Pending \in Seq(Nat)
           /\ TurnWords(messages) \in Seq(Nat)
           /\ finals \in Nat
<1>1. /\ run_task.kept \in Seq(Nat) /\ transcript_buffer \in Seq(Nat)
      /\ events \in Seq(ItemSet) /\ messages \in Seq(Message) /\ finals \in Nat
  BY DEF TypeOK, RunTaskSet
<1>2. QueuedWords(events) \in Seq(Nat)
  BY <1>1, FinalsType
<1>3. Pending \in Seq(Nat)
  BY <1>1, <1>2 DEF Pending
<1> QED
  BY <1>1, <1>2, <1>3, TurnsType

LEMMA PendingTypeNext ==
    ASSUME TypeOK'
    PROVE  /\ QueuedWords(events') \in Seq(Nat)
           /\ Pending' \in Seq(Nat)
           /\ TurnWords(messages') \in Seq(Nat)
<1>1. /\ run_task'.kept \in Seq(Nat) /\ transcript_buffer' \in Seq(Nat)
      /\ events' \in Seq(ItemSet) /\ messages' \in Seq(Message)
  BY DEF TypeOK, RunTaskSet
<1>2. QueuedWords(events') \in Seq(Nat)
  BY <1>1, FinalsType
<1>3. Pending' \in Seq(Nat)
  BY <1>1, <1>2 DEF Pending
<1> QED
  BY <1>1, <1>2, <1>3, TurnsType

LEMMA HeardInOrder ==
    ASSUME TypeOK
    PROVE  HeardWords = TurnWords(messages) \o Pending
<1> DEFINE h == TurnWords(messages)
           k == run_task.kept
           b == transcript_buffer
           q == QueuedWords(events)
<1>1. h \in Seq(Nat) /\ k \in Seq(Nat) /\ b \in Seq(Nat) /\ q \in Seq(Nat)
  BY PendingType
<1>2. HeardWords = ((h \o k) \o b) \o q
  BY DEF HeardWords
<1>3. Pending = k \o (b \o q)
  BY DEF Pending
<1> HIDE DEF h, k, b, q
<1>4. ((h \o k) \o b) \o q = h \o (k \o (b \o q))
  <2> DEFINE words == Seq(Nat)
             Join(s, t) == s \o t
  <2>1. h \in words /\ k \in words /\ b \in words /\ q \in words
    BY <1>1
  <2>2. \A s, t \in words : Join(s, t) \in words
    OBVIOUS
  <2>3. \A s, t, u \in words : Join(Join(s, t), u) = Join(s, Join(t, u))
    BY JoinAssociative, Zenon
  <2> HIDE DEF words, Join
  <2>4. Join(Join(Join(h, k), b), q) = Join(h, Join(k, Join(b, q)))
    BY <2>1, <2>2, <2>3
  <2> QED
    BY <2>4, Zenon DEF Join
<1> QED
  BY <1>2, <1>3, <1>4, Zenon DEF h

\* The words wait elsewhere, in the same order.
Carried == messages' = messages /\ Pending' = Pending

\* They enter the history as a turn.
Answered ==
    \E turn \in Seq(Nat) :
        /\ turn # <<>>
        /\ messages' = AddTurn(messages, "user", turn)
        /\ Pending = turn \o Pending'

\* The call does not go on.
Stops == messages' = messages /\ ~Listening'

LEMMA WordsMoved ==
    ASSUME TypeOK, TypeOK', WordsInv, KeptFits', finals' = finals, Listening' => Listening,
           Carried \/ Answered \/ Stops
    PROVE  WordsInv'
<1>1. CASE Carried
  <2>1. messages' = messages /\ Pending' = Pending
    BY <1>1 DEF Carried
  <2>2. WordsFollow'
    BY <2>1, Zenon DEF WordsInv, WordsFollow
  <2>3. HaveWords(messages)'
    BY <2>1, Zenon DEF WordsInv
  <2> QED
    BY <2>2, <2>3 DEF WordsInv
<1>2. CASE Stops
  <2>1. HaveWords(messages)'
    BY <1>2, Zenon DEF Stops, WordsInv
  <2> QED
    BY <1>2, <2>1 DEF Stops, WordsInv, WordsFollow
<1>3. CASE Answered
  <2>1. PICK turn \in Seq(Nat) :
            /\ turn # <<>>
            /\ messages' = AddTurn(messages, "user", turn)
            /\ Pending = turn \o Pending'
    BY <1>3 DEF Answered
  <2>2. PICK after : after = TurnWords(messages')
    OBVIOUS
  <2>3. PICK behind : behind = Pending'
    OBVIOUS
  <2>4. messages \in Seq(Message) /\ HaveWords(messages) /\ "user" \in Role
    BY DEF TypeOK, WordsInv, Role
  <2>5. HaveWords(messages') /\ KeepsLast(TurnWords(messages) \o turn, after)
    <3>1. (IF "user" = "user" THEN turn ELSE <<>>) = turn
      OBVIOUS
    <3>2. /\ HaveWords(AddTurn(messages, "user", turn))
          /\ KeepsLast(TurnWords(messages) \o (IF "user" = "user" THEN turn ELSE <<>>),
                       TurnWords(AddTurn(messages, "user", turn)))
      BY <2>1, <2>4, AddTurnWords
    <3> QED
      BY <2>1, <2>2, <3>1, <3>2
  <2>6. /\ after \in Seq(Nat) /\ behind \in Seq(Nat)
        /\ TurnWords(messages) \in Seq(Nat) /\ finals \in Nat
    BY <2>2, <2>3, PendingType, PendingTypeNext
  <2>7. Listening => Fits(TurnWords(messages), turn \o behind, finals)
    BY <2>1, <2>3 DEF WordsInv, WordsFollow
  <2>8. Listening' => Fits(after, behind, finals)
    BY <2>5, <2>6, <2>7, FitsMoved
  <2>9. WordsFollow'
    BY <2>2, <2>3, <2>8 DEF WordsFollow
  <2> QED
    BY <2>5, <2>9 DEF WordsInv
<1> QED
  BY <1>1, <1>2, <1>3

LEMMA TeardownStops ==
    ASSUME EnterTeardown
    PROVE  KeptFits' /\ ~Listening'
<1>1. \E place \in {"reapEnd", "stopTranscription"} : run_task' = SuspendedAt(place, <<>>)
  BY DEF EnterTeardown, CancelAndReap
<1> QED
  BY <1>1 DEF SuspendedAt, KeptFits, Listening

\* What the run task takes from the queue, with nothing kept so far.
LEMMA TakenWords ==
    ASSUME TypeOK, KeptFits, NEW type, Takes(type)
    PROVE  /\ run_task.at = "get" /\ run_task.kept = <<>>
           /\ events' = Tail(events)
           /\ Pending = transcript_buffer \o (HeadWords(events) \o QueuedWords(events'))
           /\ HeadWords(events) = IF type = "final" THEN <<Head(events).n>> ELSE <<>>
           /\ HeadWords(events) \in Seq(Nat)
           /\ QueuedWords(events') \in Seq(Nat)
<1>1. /\ run_task.at = "get" /\ events # <<>> /\ Head(events).type = type
      /\ events' = Tail(events) /\ events \in Seq(ItemSet)
  BY DEF Takes, At, TypeOK
<1>2. run_task.kept = <<>>
  BY <1>1 DEF KeptFits
<1>3. /\ QueuedWords(events) = HeadWords(events) \o QueuedWords(Tail(events))
      /\ HeadWords(events) \in Seq(Nat)
      /\ QueuedWords(Tail(events)) \in Seq(Nat)
  BY <1>1, QueuedTail
<1> DEFINE rest == transcript_buffer \o QueuedWords(events)
<1>4. rest \in Seq(Nat)
  BY PendingType
<1>5. Pending = <<>> \o rest
  BY <1>2 DEF Pending
<1> HIDE DEF rest
<1>6. <<>> \o rest = rest
  BY <1>4
<1> QED
  BY <1>1, <1>2, <1>3, <1>5, <1>6 DEF HeadWords, rest

\* An item without words leaves the queue, and the run task goes back to it.
LEMMA TakenWithoutWords ==
    ASSUME TypeOK, KeptFits, NEW type, Takes(type), type # "final",
           run_task' = BackToGet(events'), UNCHANGED <<messages, transcript_buffer>>
    PROVE  KeptFits' /\ Carried
<1>1. /\ Pending = transcript_buffer \o (HeadWords(events) \o QueuedWords(events'))
      /\ HeadWords(events) = <<>>
      /\ QueuedWords(events') \in Seq(Nat)
  BY TakenWords
<1>2. run_task'.kept = <<>> /\ run_task'.at = "get"
  BY DEF BackToGet
<1> DEFINE q == QueuedWords(events')
           b == transcript_buffer
<1>3. q \in Seq(Nat) /\ b \in Seq(Nat)
  BY <1>1, PendingType
<1>4. Pending = b \o (<<>> \o q) /\ Pending' = <<>> \o (b \o q)
  BY <1>1, <1>2 DEF Pending
<1> HIDE DEF q, b
<1>5. <<>> \o q = q /\ <<>> \o (b \o q) = b \o q
  BY <1>3
<1>6. Pending' = Pending
  BY <1>4, <1>5, Zenon
<1> QED
  BY <1>2, <1>6 DEF KeptFits, Carried

LEMMA BackWithNothing ==
    ASSUME NEW q, run_task' = BackToGet(q)
    PROVE  KeptFits' /\ run_task'.kept = <<>> /\ run_task'.at = "get"
  BY DEF BackToGet, KeptFits

\* The kept words are seen again.
LEMMA ReseatCarries ==
    ASSUME TypeOK, Reseat, transcript_buffer = <<>>, UNCHANGED <<events, messages>>
    PROVE  KeptFits' /\ Carried
<1> DEFINE k == run_task.kept
           q == QueuedWords(events)
<1>1. k \in Seq(Nat) /\ q \in Seq(Nat)
  BY PendingType
<1>2. transcript_buffer' = k /\ run_task'.kept = <<>> /\ KeptFits'
  BY BackWithNothing DEF Reseat
<1>3. Pending = k \o (<<>> \o q) /\ Pending' = <<>> \o (k \o q)
  BY <1>2 DEF Pending
<1> HIDE DEF k, q
<1>4. <<>> \o q = q /\ <<>> \o (k \o q) = k \o q
  BY <1>1
<1>5. Pending' = Pending
  BY <1>3, <1>4, Zenon
<1> QED
  BY <1>2, <1>5 DEF Carried

\* No step of the run task loses, repeats or reorders words.
LEMMA WordsRunStep ==
    ASSUME TypeInv, SafetyInv, BufferInv, WordsInv, RunStep
    PROVE  /\ KeptFits'
           /\ Carried \/ Answered \/ Stops
           /\ Listening' => Listening
<1> USE DEF conversation, status
<1>0. TypeOK /\ KeptFits
  BY DEF TypeInv, WordsInv
<1>00. \A q \in Seq(Nat) : <<>> \o q = q /\ q \o <<>> = q
  OBVIOUS
<1>1. CASE TranscriptionStarts
  <2>1. /\ run_task.at = "transcribe"
        /\ UNCHANGED <<events, messages, transcript_buffer>>
        /\ run_task' = BackToGet(events) \/ run_task' = SuspendedAt("hangup", <<>>)
    BY <1>1, Zenon DEF TranscriptionStarts, At
  <2>2. run_task.kept = <<>> /\ run_task'.kept = <<>> /\ run_task'.at \in {"get", "hangup"}
    BY <1>0, <2>1 DEF BackToGet, SuspendedAt, KeptFits
  <2>3. Carried
    BY <2>1, <2>2, Zenon DEF Carried, Pending
  <2>4. KeptFits' /\ Listening
    BY <2>1, <2>2 DEF KeptFits, Listening, SafetyInv, BeforeTheLoop
  <2> QED
    BY <2>3, <2>4
<1>2. CASE TakeHangup
  BY <1>2, TeardownStops DEF TakeHangup, Stops
<1>3. CASE TakeSpeakEnded
  <2>1. KeptFits' /\ Carried
    BY <1>0, <1>3, TakenWithoutWords DEF TakeSpeakEnded
  <2>2. run_task.at = "get" /\ ending' = ending
    BY <1>3 DEF TakeSpeakEnded, Takes, At
  <2> QED
    BY <2>1, <2>2 DEF Listening
<1>4. CASE TakeIgnored
  <2>1. PICK type : /\ Takes(type)
                    /\ type = "final" => ending
    BY <1>4 DEF TakeIgnored, InputIgnored
  <2>2. /\ run_task' = BackToGet(events')
        /\ UNCHANGED <<messages, transcript_buffer, ending>>
        /\ run_task.at = "get"
    BY <1>4, <2>1 DEF TakeIgnored, Takes, At
  <2>3. CASE type # "final"
    BY <1>0, <2>1, <2>2, <2>3, TakenWithoutWords DEF Listening
  <2>4. CASE type = "final"
    BY <2>1, <2>2, <2>4, BackWithNothing DEF Stops, Listening
  <2> QED
    BY <2>3, <2>4
<1>5. CASE TakeBargeIn
  <2>1. PICK type \in {"interim", "final"} :
            /\ Takes(type)
            /\ run_task' = SuspendedAt("stopPlayback",
                               IF type = "final" THEN <<Head(events).n>> ELSE <<>>)
    BY <1>5 DEF TakeBargeIn
  <2>2. UNCHANGED <<messages, transcript_buffer, ending>> /\ ~ending
    BY <1>5 DEF TakeBargeIn, InputIgnored
  <2>3. transcript_buffer = <<>>
    BY <2>1, BufferEmpty DEF Takes
  <2> DEFINE x == HeadWords(events)
             q == QueuedWords(events')
  <2>4. /\ run_task.at = "get"
        /\ Pending = transcript_buffer \o (x \o q)
        /\ x = IF type = "final" THEN <<Head(events).n>> ELSE <<>>
        /\ x \in Seq(Nat) /\ q \in Seq(Nat)
    BY <1>0, <2>1, TakenWords
  <2>5. run_task'.kept = x /\ run_task'.at = "stopPlayback"
    BY <2>1, <2>4 DEF SuspendedAt
  <2>6. Pending = <<>> \o (x \o q) /\ Pending' = x \o (<<>> \o q)
    BY <2>2, <2>3, <2>4, <2>5, Zenon DEF Pending
  <2> HIDE DEF x, q
  <2>7. x \o q \in Seq(Nat)
    BY <2>4
  <2>8. Pending' = Pending
    BY <1>00, <2>4, <2>6, <2>7, Zenon
  <2> QED
    BY <2>2, <2>4, <2>5, <2>8 DEF KeptFits, Carried, Listening
<1>6. CASE TakeFinal
  <2> DEFINE x == HeadWords(events)
             q == QueuedWords(events')
             b == transcript_buffer
  <2>1. /\ Takes("final")
        /\ UNCHANGED <<messages, ending>>
        /\ run_task' = BackToGet(events')
        /\ b' = Append(b, Head(events).n)
    BY <1>6 DEF TakeFinal
  <2>2. /\ run_task.at = "get"
        /\ Pending = b \o (x \o q)
        /\ x = <<Head(events).n>>
        /\ x \in Seq(Nat) /\ q \in Seq(Nat) /\ b \in Seq(Nat)
    BY <1>0, <2>1, TakenWords, PendingType
  <2>3. KeptFits' /\ run_task'.kept = <<>>
    BY <2>1, BackWithNothing
  <2>4. b' = b \o x
    <3>1. Head(events).n \in Nat
      BY <1>0, <2>1, TakesType DEF ItemSet
    <3> QED
      BY <2>1, <2>2, <3>1
  <2>5. Pending' = <<>> \o ((b \o x) \o q)
    BY <2>3, <2>4, Zenon DEF Pending
  <2>50. run_task'.at = "get"
    BY <2>1, BackWithNothing
  <2> HIDE DEF x, q, b
  <2>6. (b \o x) \o q = b \o (x \o q)
    BY <2>2, JoinAssociative, ZenonT(40)
  <2>7. (b \o x) \o q \in Seq(Nat)
    BY <2>2
  <2>8. Pending' = Pending
    BY <1>00, <2>2, <2>5, <2>6, <2>7, Zenon
  <2> QED
    BY <2>1, <2>2, <2>3, <2>8 DEF Carried, Listening
<1>7. CASE TakeTurn
  <2> DEFINE q == QueuedWords(events')
             b == transcript_buffer
  <2>1. /\ Takes("uend")
        /\ ending' = ending
        /\ b # <<>>
        /\ b' = <<>>
    BY <1>7 DEF TakeTurn
  <2>2. /\ run_task.at = "get"
        /\ Pending = b \o (<<>> \o q)
        /\ q \in Seq(Nat) /\ b \in Seq(Nat)
    <3>1. /\ run_task.at = "get"
          /\ Pending = b \o (HeadWords(events) \o q)
          /\ HeadWords(events) = IF "uend" = "final" THEN <<Head(events).n>> ELSE <<>>
          /\ q \in Seq(Nat)
      BY <1>0, <2>1, TakenWords, Zenon
    <3>2. HeadWords(events) = <<>>
      BY <3>1
    <3> QED
      BY <1>0, <3>1, <3>2, PendingType
  <2>3. Listening' => Listening
    BY <2>1, <2>2 DEF Listening
  <2>4. CASE Live
    <3>1. run_task' = SuspendedAt("reapTurn", b) /\ messages' = messages
      BY <1>7, <2>4 DEF TakeTurn, CancelAndReap
    <3>2. run_task'.kept = b /\ KeptFits'
      BY <2>1, <3>1 DEF SuspendedAt, KeptFits
    <3>3. Pending' = b \o (<<>> \o q)
      BY <2>1, <3>2, Zenon DEF Pending
    <3> QED
      BY <2>2, <2>3, <3>1, <3>2, <3>3, Zenon DEF Carried
  <2>5. CASE ~Live
    <3>1. messages' = AddTurn(messages, "user", b) /\ run_task' = BackToGet(events')
      BY <1>7, <2>5 DEF TakeTurn, StartReply
    <3>2. KeptFits' /\ run_task'.kept = <<>>
      BY <3>1, BackWithNothing
    <3>3. Pending' = <<>> \o (<<>> \o q)
      BY <2>1, <3>2, Zenon DEF Pending
    <3> HIDE DEF q, b
    <3>4. Pending = b \o Pending'
      BY <1>00, <2>2, <3>3, Zenon
    <3> QED
      BY <2>1, <2>2, <2>3, <3>1, <3>2, <3>4, Zenon DEF Answered, b
  <2> QED
    BY <2>4, <2>5
<1>8. CASE PlaybackStops
  <2>1. /\ run_task.at = "stopPlayback"
        /\ UNCHANGED <<events, messages, ending>>
    BY <1>8 DEF PlaybackStops, At
  <2>2. CASE Live
    <3>1. run_task' = SuspendedAt("reapBarge", run_task.kept)
          /\ transcript_buffer' = transcript_buffer
      BY <1>8, <2>2 DEF PlaybackStops, CancelAndReap
    <3>2. run_task'.kept = run_task.kept /\ run_task'.at = "reapBarge"
      BY <3>1 DEF SuspendedAt
    <3>3. Carried
      BY <2>1, <3>1, <3>2, Zenon DEF Carried, Pending
    <3> QED
      BY <2>1, <3>2, <3>3 DEF KeptFits, Listening
  <2>3. CASE ~Live
    <3>1. Reseat /\ transcript_buffer = <<>>
      BY <1>8, <2>1, <2>3, BufferEmpty DEF PlaybackStops
    <3> QED
      BY <1>0, <2>1, <3>1, ReseatCarries DEF Listening
  <2> QED
    BY <2>2, <2>3
<1>9. CASE InterruptedReaped
  <2>1. /\ run_task.at = "reapBarge"
        /\ UNCHANGED <<events, messages, ending>>
        /\ transcript_buffer = <<>>
    BY <1>9, BufferEmpty DEF InterruptedReaped, At
  <2>2. CASE response_task.exit = "cancelled"
    BY <1>9, <2>1, <2>2, TeardownStops DEF InterruptedReaped, Stops
  <2>3. CASE response_task.exit # "cancelled"
    BY <1>0, <1>9, <2>1, <2>3, ReseatCarries DEF InterruptedReaped, Listening
  <2> QED
    BY <2>2, <2>3
<1>10. CASE SupersededReaped
  <2> DEFINE k == run_task.kept
             q == QueuedWords(events)
  <2>1. /\ run_task.at = "reapTurn"
        /\ UNCHANGED <<events, transcript_buffer, ending>>
        /\ transcript_buffer = <<>>
    BY <1>10, BufferEmpty DEF SupersededReaped, At
  <2>2. CASE response_task.exit = "cancelled"
    BY <1>10, <2>1, <2>2, TeardownStops DEF SupersededReaped, Stops
  <2>3. CASE response_task.exit # "cancelled"
    <3>1. messages' = AddTurn(messages, "user", k) /\ run_task' = BackToGet(events')
      BY <1>10, <2>3 DEF SupersededReaped, StartReply
    <3>2. KeptFits' /\ run_task'.kept = <<>>
      BY <3>1, BackWithNothing
    <3>3. k # <<>> /\ k \in Seq(Nat) /\ q \in Seq(Nat)
      BY <1>0, <2>1, PendingType DEF KeptFits
    <3>4. Pending = k \o (<<>> \o q) /\ Pending' = <<>> \o (<<>> \o q)
      BY <2>1, <3>2, Zenon DEF Pending
    <3>5. Listening' => Listening
      BY <2>1 DEF Listening
    <3> HIDE DEF q, k
    <3>6. Pending = k \o Pending'
      BY <1>00, <3>3, <3>4, Zenon
    <3> QED
      BY <3>1, <3>2, <3>3, <3>5, <3>6, Zenon DEF Answered
  <2> QED
    BY <2>2, <2>3
<1>11. CASE HangupReturns \/ RunCancelled
  BY <1>11, TeardownStops DEF HangupReturns, RunCancelled, Stops
<1>12. CASE LastReaped \/ TranscriptionStops
  <2>1. messages' = messages
    BY <1>12, Zenon DEF LastReaped, TranscriptionStops
  <2>2. \E place \in {"stopTranscription", "done"} : run_task' = SuspendedAt(place, <<>>)
    BY <1>12 DEF LastReaped, TranscriptionStops
  <2> QED
    BY <2>1, <2>2 DEF SuspendedAt, KeptFits, Listening, Stops
<1> QED
  BY <1>1, <1>2, <1>3, <1>4, <1>5, <1>6, <1>7, <1>8, <1>9, <1>10, <1>11, <1>12 DEF RunStep

LEMMA WordsResponseStep ==
    ASSUME TypeInv, TypeOK', BufferInv, HistoryInv, WordsInv, ResponseStep
    PROVE  WordsInv'
<1>1. /\ ~run_task.holds
      /\ UNCHANGED <<events, run_task, finals>>
      /\ Speaks \/ Finishes \/ GoesOn
      /\ ending => ending'
  BY ResponseStepSummary DEF environment
<1>2. transcript_buffer = <<>> /\ transcript_buffer' = <<>>
  BY <1>1, BufferEmpty DEF Speaks, Finishes, GoesOn
<1>3. Pending' = Pending /\ KeptFits' /\ (Listening' => Listening) /\ finals' = finals
  BY <1>1, <1>2 DEF Pending, WordsInv, KeptFits, Listening
<1>4. messages' = messages \/ Records
  BY ResponseStepHistory DEF HistoryInv
<1>5. CASE messages' = messages
  BY <1>3, <1>5, WordsMoved DEF TypeInv, Carried
<1>6. CASE Records
  <2>1. HaveWords(messages') /\ KeepsLast(TurnWords(messages), TurnWords(messages'))
    BY <1>6, RecordsWords DEF TypeInv, WordsInv
  <2>2. PICK before : before = TurnWords(messages)
    OBVIOUS
  <2>3. PICK after : after = TurnWords(messages')
    OBVIOUS
  <2>4. PICK behind : behind = Pending
    OBVIOUS
  <2>5. before \in Seq(Nat) /\ after \in Seq(Nat) /\ behind \in Seq(Nat) /\ finals \in Nat
    BY <2>2, <2>3, <2>4, PendingType, PendingTypeNext DEF TypeInv
  <2>6. before \o <<>> = before /\ <<>> \o behind = behind /\ <<>> \in Seq(Nat)
    BY <2>5
  <2>7. Listening => Fits(before, <<>> \o behind, finals)
    BY <2>2, <2>4, <2>6, Zenon DEF WordsInv, WordsFollow
  <2>8. KeepsLast(before \o <<>>, after)
    BY <2>1, <2>2, <2>3, <2>6, Zenon
  <2>9. Listening => Fits(after, behind, finals)
    BY <2>5, <2>6, <2>7, <2>8, FitsMoved
  <2>10. WordsFollow'
    BY <1>3, <2>3, <2>4, <2>9, Zenon DEF WordsFollow
  <2> QED
    BY <1>3, <2>1, <2>10 DEF WordsInv
<1> QED
  BY <1>4, <1>5, <1>6

LEMMA WordsEnvironment ==
    ASSUME TypeInv, TypeOK', WordsInv, Environment
    PROVE  WordsInv'
<1> USE DEF conversation, status
<1>0. TypeOK /\ run_task \in RunTaskSet /\ events \in Seq(ItemSet) /\ finals \in Nat
  BY DEF TypeInv, TypeOK
<1>1. /\ UNCHANGED <<messages, transcript_buffer, ending>>
      /\ run_task' = run_task \/ run_task' = [run_task EXCEPT !.cancelled = TRUE]
  BY <1>0, EnvironmentQueue
<1>2. run_task'.at = run_task.at /\ run_task'.kept = run_task.kept
  BY <1>0, <1>1 DEF RunTaskSet
<1>3. KeptFits' /\ (Listening' <=> Listening)
  BY <1>1, <1>2 DEF WordsInv, KeptFits, Listening
<1> DEFINE k == run_task.kept
           b == transcript_buffer
           q == QueuedWords(events)
<1>4. k \in Seq(Nat) /\ b \in Seq(Nat) /\ q \in Seq(Nat)
  BY <1>0, PendingType
<1>5. Pending = k \o (b \o q) /\ Pending' = k \o (b \o QueuedWords(events'))
  BY <1>1, <1>2, Zenon DEF Pending
<1>6. CASE finals' = finals /\ QueuedWords(events') = q
  <2>1. Carried
    BY <1>1, <1>5, <1>6, Zenon DEF Carried
  <2> QED
    BY <1>0, <1>3, <1>6, <2>1, WordsMoved
<1>7. CASE Shutdown
  <2>1. events' = events /\ finals' = finals
    BY <1>7 DEF Shutdown
  <2> QED
    BY <1>6, <2>1
<1>8. CASE SubmitInterim \/ SubmitSpeakEnded \/ SubmitHangup
  <2>1. PICK type \in {"interim", "ended", "hangup"}, n \in Nat :
            events' = events \o <<Item(type, n)>>
    <3>1. CASE SubmitInterim \/ SubmitHangup
      <4>1. 0 \in Nat
        OBVIOUS
      <4> QED
        BY <3>1, <4>1, Zenon DEF SubmitInterim, SubmitHangup, Submits
    <3>2. CASE SubmitSpeakEnded
      <4>1. PICK generation \in {0} \cup (speak_gen - 1 .. speak_gen) :
                generation >= 0 /\ Submits(<<Item("ended", generation)>>)
        BY <3>2 DEF SubmitSpeakEnded
      <4>2. generation \in Nat
        <5>1. speak_gen \in Nat
          BY <1>0 DEF TypeOK
        <5> QED
          BY <4>1, <5>1
      <4> QED
        BY <4>1, <4>2, Zenon DEF Submits
    <3> QED
      BY <1>8, <3>1, <3>2
  <2>2. finals' = finals
    BY <1>8, Zenon DEF SubmitInterim, SubmitSpeakEnded, SubmitHangup
  <2>3. <<Item(type, n)>> \in Seq(ItemSet)
    BY DEF Item, ItemSet
  <2>4. QueuedWords(events') = q \o QueuedWords(<<Item(type, n)>>)
    BY <1>0, <2>1, <2>3, QueuedConcat
  <2>5. QueuedWords(<<Item(type, n)>>) = <<>>
    BY QueuedItems
  <2>6. q \o <<>> = q
    BY <1>4
  <2> QED
    BY <1>6, <2>2, <2>4, <2>5, <2>6, Zenon
<1>9. CASE SubmitFinal
  <2> DEFINE word == <<finals + 1>>
             items == <<Item("final", finals + 1), Item("uend", 0)>>
  <2>1. events' = events \o items /\ finals' = finals + 1
    BY <1>9 DEF SubmitFinal, Submits
  <2>2. items \in Seq(ItemSet) /\ word \in Seq(Nat)
    BY <1>0 DEF Item, ItemSet
  <2>3. QueuedWords(items) = word
    <3>1. finals + 1 \in Nat
      BY <1>0
    <3> QED
      BY <3>1, QueuedItems, Zenon
  <2> HIDE DEF items
  <2>4. QueuedWords(events') = q \o word
    BY <1>0, <2>1, <2>2, <2>3, QueuedConcat
  <2>5. Pending' = Pending \o word
    <3> HIDE DEF k, b, q, word
    <3>1. b \o q \in Seq(Nat)
      BY <1>4
    <3>2. b \o (q \o word) = (b \o q) \o word
      BY <1>4, <2>2, JoinAssociative, ZenonT(40)
    <3>3. k \o ((b \o q) \o word) = (k \o (b \o q)) \o word
      BY <1>4, <2>2, <3>1, JoinAssociative, ZenonT(40)
    <3> QED
      BY <1>5, <2>4, <3>2, <3>3, Zenon
  <2>6. PICK behind : behind = Pending
    OBVIOUS
  <2>7. PICK history : history = TurnWords(messages)
    OBVIOUS
  <2>8. history \in Seq(Nat) /\ behind \in Seq(Nat)
    BY <1>0, <2>6, <2>7, PendingType
  <2>9. Listening => Fits(history, behind, finals)
    BY <2>6, <2>7, Zenon DEF WordsInv, WordsFollow
  <2>10. Listening => Fits(history, behind \o <<finals + 1>>, finals + 1)
    BY <1>0, <2>8, <2>9, FitsNext
  <2>11. WordsFollow'
    BY <1>1, <1>3, <2>1, <2>5, <2>6, <2>7, <2>10, Zenon DEF WordsFollow
  <2>12. HaveWords(messages')
    BY <1>1, Zenon DEF WordsInv
  <2> QED
    BY <1>3, <2>11, <2>12 DEF WordsInv
<1> QED
  BY <1>7, <1>8, <1>9 DEF Environment

LEMMA WordsInit == Init => WordsInv
<1> SUFFICES ASSUME Init PROVE WordsInv
  OBVIOUS
<1>1. HaveWords(messages) /\ KeptFits
  BY DEF Init, HaveWords, KeptFits
<1>2. TurnWords(<<>>) = <<>> /\ QueuedWords(<<>>) = <<>>
  BY FlattenEmpty DEF TurnWords, QueuedWords
<1>3. run_task.kept = <<>> /\ transcript_buffer = <<>> /\ events = <<>> /\ messages = <<>>
  BY DEF Init
<1>4. Pending = <<>> \o (<<>> \o <<>>) /\ TurnWords(messages) = <<>>
  BY <1>2, <1>3, Zenon DEF Pending
<1>5. finals = 0
  BY DEF Init
<1>6. Fits(<<>>, <<>> \o (<<>> \o <<>>), 0)
  BY DEF Fits, Recent
<1> QED
  BY <1>1, <1>4, <1>5, <1>6, Zenon DEF WordsInv, WordsFollow

LEMMA WordsStep ==
    TypeInv /\ SafetyInv /\ BufferInv /\ HistoryInv /\ WordsInv /\ [Next]_vars => WordsInv'
<1> SUFFICES ASSUME TypeInv, SafetyInv, BufferInv, HistoryInv, WordsInv, [Next]_vars
             PROVE  WordsInv'
  OBVIOUS
<1>0. TypeOK /\ TypeOK'
  BY TypeInvStep DEF TypeInv
<1>1. CASE RunStep
  <2>1. finals' = finals
    BY <1>1, RunStepQueue DEF environment
  <2> QED
    BY <1>0, <1>1, <2>1, WordsRunStep, WordsMoved
<1>2. CASE ResponseStep
  BY <1>0, <1>2, WordsResponseStep
<1>3. CASE Environment
  BY <1>0, <1>3, WordsEnvironment
<1>4. CASE Over \/ UNCHANGED vars
  <2>1. UNCHANGED <<events, run_task, messages, transcript_buffer, ending, finals>>
    BY <1>4 DEF Over, vars, conversation, status, environment
  <2>2. KeptFits' /\ (Listening' => Listening) /\ Carried
    BY <2>1 DEF WordsInv, KeptFits, Listening, Carried, Pending
  <2> QED
    BY <1>0, <2>1, <2>2, WordsMoved
<1> QED
  BY <1>1, <1>2, <1>3, <1>4 DEF Next

LEMMA WordsAreHeard == TypeInv /\ WordsInv => NoWordsLost
<1> SUFFICES ASSUME TypeInv, WordsInv, Listening
             PROVE  LET known == Len(HeardWords)
                    IN  /\ known >= finals \/ known >= MaxTurns
                        /\ \A i \in 1..known : HeardWords[i] = finals - known + i
  BY DEF NoWordsLost, Listening
<1>1. /\ TurnWords(messages) \in Seq(Nat) /\ Pending \in Seq(Nat) /\ finals \in Nat
      /\ HeardWords = TurnWords(messages) \o Pending
  BY PendingType, HeardInOrder DEF TypeInv
<1> DEFINE w == HeardWords
           h == TurnWords(messages)
<1>2. Len(w) \in Nat /\ Len(h) \in Nat /\ Len(w) >= Len(h)
  <2> DEFINE p == Pending
  <2> HIDE DEF w, h, p
  <2>1. h \in Seq(Nat) /\ p \in Seq(Nat) /\ w = h \o p
    BY <1>1 DEF w, h, p
  <2> QED
    BY <2>1
<1>3. Recent(w, finals) /\ (Len(w) >= finals \/ Len(h) >= MaxTurns)
  BY <1>1, Zenon DEF WordsInv, WordsFollow, Fits
<1>4. MaxTurns \in Nat
  BY MaxTurnsAssumption
<1> HIDE DEF w, h
<1>5. Len(w) >= finals \/ Len(w) >= MaxTurns
  BY <1>2, <1>3, <1>4
<1> QED
  BY <1>3, <1>5 DEF Recent, w

\* While the call goes on, no interleaving of a barge-in, a superseded reply and
\* the end of a response loses, repeats or reorders the caller's words; only a
\* full history lets the oldest of them go (agent.py:211-243,
\* conversation.py:89-101).
THEOREM WordsNeverLost == Spec => []NoWordsLost
<1>1. Init => BufferInv
  BY DEF Init, BufferInv, FinalsArePaired, KeptIsCompleted, BufferIsTransient
<1> QED
  BY <1>1, SafetyInvariant, BufferStep, HistoryInit, HistoryStep, WordsInit, WordsStep,
     WordsAreHeard, PTL DEF Spec

-----------------------------------------------------------------------------
(***************************************************************************)
(* The replies of the agent are those that Reply promises.                 *)
(***************************************************************************)

\* A response starts without an apology and with all of its rounds.
FreshReply ==
    /\ response_task.at = "new" => response_task.tool_rounds = 0
    /\ response_task.at \in {"new", "llm"} => ~response_task.fallback

\* A response asks for its first or its next round,
AsksLlm ==
    /\ response_task'.at = "llm"
    /\ \/ response_task.at = "new" /\ response_task'.tool_rounds = response_task.tool_rounds
       \/ /\ response_task.at = "llm"
          /\ response_task.tool_rounds < MaxToolRounds
          /\ response_task'.tool_rounds = response_task.tool_rounds + 1
    /\ response_task'.fallback = response_task.fallback
    /\ UNCHANGED hung_up

\* starts to speak, to apologise once it has asked,
Utters ==
    /\ response_task'.at = "speak"
    /\ \/ response_task.at = "new" /\ response_task'.fallback = response_task.fallback
       \/ response_task.at = "llm"
       \/ response_task.at = "speak" /\ ~response_task.fallback /\ response_task'.fallback
    /\ UNCHANGED hung_up

\* ends,
Ends ==
    /\ response_task'.at \in {"hangup", "ended"}
    /\ response_task.at \in {"llm", "speak", "play"}

\* or goes on to what the caller does not hear.
GoesOnUnheard ==
    /\ \/ response_task.at = "speak" /\ response_task'.at = "play"
       \/ response_task.at \in {"new", "hangup"} /\ response_task'.at = "ended"
    /\ response_task'.fallback = response_task.fallback
    /\ UNCHANGED hung_up

LEMMA ResponseStepReply ==
    ASSUME TypeInv, ResponseStep
    PROVE  AsksLlm \/ Utters \/ Ends \/ GoesOnUnheard
<1> USE DEF speech
<1>0. /\ response_task \in ResponseTaskSet
      /\ RoundsLeft
  BY DEF TypeInv, TypeOK
<1>1. ASSUME NEW response \in ResponseTaskSet, Speak(response),
             \/ response_task.at = "new" /\ response.fallback = response_task.fallback
             \/ response_task.at = "llm"
             \/ response_task.at = "speak" /\ ~response_task.fallback /\ response.fallback
      PROVE  Utters
  BY <1>1 DEF Speak, Utters, ResponseTaskSet
<1>2. ASSUME NEW full, NEW exit, Finish(full, exit), response_task.at \in {"llm", "speak", "play"}
      PROVE  Ends
  BY <1>0, <1>2 DEF Finish, Ends, ResponseTaskSet
<1>3. /\ [response_task EXCEPT !.full = TRUE] \in ResponseTaskSet
      /\ [response_task EXCEPT !.full = TRUE].fallback = response_task.fallback
      /\ [response_task EXCEPT !.fallback = TRUE] \in ResponseTaskSet
      /\ [response_task EXCEPT !.fallback = TRUE].fallback
  BY <1>0 DEF ResponseTaskSet
<1>4. CASE GreetingStarts
  BY <1>0, <1>1, <1>4 DEF GreetingStarts, Resumes
<1>5. CASE ReplyStarts
  <2>1. response_task.at = "new" /\ StartRound(response_task)
    BY <1>5 DEF ReplyStarts, Resumes
  <2>2. CASE Speak([response_task EXCEPT !.full = TRUE])
    BY <1>1, <1>3, <2>1, <2>2
  <2>3. CASE response_task' = [response_task EXCEPT !.at = "llm"] /\ UNCHANGED speech
    BY <1>0, <2>1, <2>3 DEF AsksLlm, ResponseTaskSet
  <2> QED
    BY <2>1, <2>2, <2>3 DEF StartRound
<1>6. CASE ReplySkipped \/ SpeakIssued \/ ResponseHangupReturns
  BY <1>0, <1>6
     DEF ReplySkipped, SpeakIssued, ResponseHangupReturns, Resumes, GoesOnUnheard, ResponseTaskSet
<1>7. CASE LlmAnswers \/ LlmFails
  BY <1>1, <1>3, <1>7 DEF LlmAnswers, LlmFails, Resumes
<1>8. CASE LlmCallsTool
  <2> DEFINE more == [response_task EXCEPT !.tool_rounds = @ + 1]
  <2>1. /\ response_task.at = "llm"
        /\ response_task.tool_rounds < MaxToolRounds
        /\ StartRound(more)
    BY <1>8 DEF LlmCallsTool, Resumes
  <2>2. /\ more \in ResponseTaskSet
        /\ more.tool_rounds = response_task.tool_rounds + 1
        /\ more.fallback = response_task.fallback
    BY <1>0, <2>1, OneMoreRoundType DEF RoundsLeft, ResponseTaskSet
  <2> HIDE DEF more
  <2>3. CASE Speak([more EXCEPT !.full = TRUE])
    <3>1. [more EXCEPT !.full = TRUE] \in ResponseTaskSet
      BY <2>2 DEF ResponseTaskSet
    <3> QED
      BY <1>1, <2>1, <2>3, <3>1
  <2>4. CASE response_task' = [more EXCEPT !.at = "llm"] /\ UNCHANGED speech
    BY <2>1, <2>2, <2>4 DEF AsksLlm, ResponseTaskSet
  <2> QED
    BY <2>1, <2>3, <2>4 DEF StartRound
<1>9. CASE LlmCallsTooManyTools \/ ToolRaises
  BY <1>0, <1>9
     DEF LlmCallsTooManyTools, ToolRaises, Resumes, Speak, Utters, ResponseTaskSet
<1>10. CASE LlmIsSilent \/ PlaybackEnds \/ PlaybackTimesOut
  <2>1. response_task.at \in {"llm", "play"} /\ \E full, exit : Finish(full, exit)
    BY <1>10, Zenon DEF LlmIsSilent, PlaybackEnds, PlaybackTimesOut, Resumes
  <2> QED
    BY <1>2, <2>1
<1>11. CASE SpeakFails
  <2>1. response_task.at = "speak"
    BY <1>11 DEF SpeakFails, Resumes
  <2>2. \/ \E full, exit : Finish(full, exit)
        \/ ~response_task.fallback /\ Speak([response_task EXCEPT !.fallback = TRUE])
    BY <1>11, Zenon DEF SpeakFails
  <2> QED
    BY <1>1, <1>2, <1>3, <2>1, <2>2
<1>12. CASE ResponseCancelled
  <2>1. CASE response_task.at \in {"new", "hangup"}
    BY <1>0, <1>12, <2>1 DEF ResponseCancelled, GoesOnUnheard, ResponseTaskSet
  <2>2. CASE response_task.at \notin {"new", "hangup"}
    <3>1. response_task.at \in {"llm", "speak", "play"} /\ \E full, exit : Finish(full, exit)
      BY <1>12, <2>2 DEF ResponseCancelled, Live
    <3> QED
      BY <1>2, <3>1
  <2> QED
    BY <2>1, <2>2
<1> QED
  BY <1>4, <1>5, <1>6, <1>7, <1>8, <1>9, <1>10, <1>11, <1>12 DEF ResponseStep

LEMMA RunStepHangup ==
    ASSUME RunStep
    PROVE  hung_up' = hung_up \/ TranscriptionStarts
<1> USE DEF speech
<1>1. CASE \/ TakeHangup \/ PlaybackStops \/ InterruptedReaped \/ SupersededReaped
           \/ HangupReturns \/ RunCancelled \/ LastReaped
  BY <1>1 DEF TakeHangup, PlaybackStops, InterruptedReaped, SupersededReaped, HangupReturns,
              RunCancelled, LastReaped
<1>2. CASE TakeSpeakEnded \/ TakeBargeIn \/ TranscriptionStops
  BY <1>2, Zenon DEF TakeSpeakEnded, TakeBargeIn, TranscriptionStops
<1>3. CASE TakeIgnored \/ TakeFinal \/ TakeTurn
  BY <1>3 DEF TakeIgnored, TakeFinal, TakeTurn
<1> QED
  BY <1>1, <1>2, <1>3 DEF RunStep

LEMMA FreshReplyStep ==
    ASSUME TypeInv, FreshReply, [Next]_vars
    PROVE  FreshReply'
<1>0. response_task \in ResponseTaskSet /\ TypeOK
  BY DEF TypeInv, TypeOK
<1>1. CASE response_task' = response_task \/ CancelRequested \/ ResponseReplaced
  BY <1>0, <1>1
     DEF FreshReply, CancelRequested, ResponseReplaced, NewResponse, ResponseTaskSet
<1>2. CASE ResponseStep
  BY <1>2, ResponseStepReply DEF AsksLlm, Utters, Ends, GoesOnUnheard, FreshReply
<1>3. CASE RunStep
  BY <1>0, <1>1, <1>3, RunStepResponse
<1>4. CASE Environment
  BY <1>1, <1>4, EnvironmentResponse
<1>5. CASE Over \/ UNCHANGED vars
  BY <1>1, <1>5, Zenon DEF Over, vars
<1> QED
  BY <1>2, <1>3, <1>4, <1>5 DEF Next

\* The state of the abstract reply.
ReplyRounds == IF Stage = "asking" THEN response_task.tool_rounds ELSE 0

LEMMA ReplyStep ==
    ASSUME TypeInv, TypeInv', SafetyInv, SafetyInv', FreshReply, [Next]_vars
    PROVE  [Replies!RepliesNext]_<<Stage, ReplyRounds>>
<1> USE DEF Replies!RepliesNext, Replies!Ask, Replies!AskAgain, Replies!Speak,
            Replies!Apologise, Replies!End
<1>0. /\ response_task \in ResponseTaskSet
      /\ response_task' \in ResponseTaskSet
      /\ hung_up => response_task.at \in {"none", "hangup", "ended"}
      /\ hung_up' => response_task'.at \in {"none", "hangup", "ended"}
  BY DEF TypeInv, TypeOK, SafetyInv, NothingAfterTheHangup
<1>1. /\ hung_up => Stage = "over"
      /\ ~hung_up /\ response_task.at \in {"none", "new", "hangup", "ended"} => Stage = "none"
      /\ ~hung_up /\ response_task.at = "llm" => Stage = "asking"
      /\ ~hung_up /\ response_task.at \in {"speak", "play"}
            => Stage = IF response_task.fallback THEN "apologising" ELSE "speaking"
  BY <1>0 DEF Stage, ResponseTaskSet
<1>2. /\ hung_up' => Stage' = "over"
      /\ ~hung_up' /\ response_task'.at \in {"none", "new", "hangup", "ended"} => Stage' = "none"
      /\ ~hung_up' /\ response_task'.at = "llm" => Stage' = "asking"
      /\ ~hung_up' /\ response_task'.at \in {"speak", "play"}
            => Stage' = IF response_task'.fallback THEN "apologising" ELSE "speaking"
  BY <1>0 DEF Stage, ResponseTaskSet
<1>3. CASE ResponseStep
  <2>1. CASE AsksLlm
    BY <1>0, <1>1, <1>2, <2>1 DEF AsksLlm, FreshReply, ReplyRounds
  <2>2. CASE Utters
    BY <1>0, <1>1, <1>2, <2>2 DEF Utters, FreshReply, ReplyRounds
  <2>3. CASE Ends
    BY <1>0, <1>1, <1>2, <2>3 DEF Ends, ReplyRounds
  <2>4. CASE GoesOnUnheard
    BY <1>0, <1>1, <1>2, <2>4 DEF GoesOnUnheard, ReplyRounds
  <2> QED
    BY <1>3, <2>1, <2>2, <2>3, <2>4, ResponseStepReply
<1>4. ASSUME response_task' = response_task \/ CancelRequested, hung_up' = hung_up
      PROVE  UNCHANGED <<Stage, ReplyRounds>>
  <2>1. /\ response_task'.at = response_task.at
        /\ response_task'.tool_rounds = response_task.tool_rounds
        /\ response_task'.fallback = response_task.fallback
    BY <1>0, <1>4 DEF CancelRequested, ResponseTaskSet
  <2> QED
    BY <1>4, <2>1 DEF Stage, ReplyRounds
<1>5. CASE RunStep
  <2>1. CASE hung_up' = hung_up /\ ResponseReplaced
    <3>1. response_task.at \in {"none", "hangup", "ended", "new"} /\ response_task'.at = "new"
      BY <1>0, <2>1
         DEF ResponseReplaced, NewResponse, SafetyInv, BeforeTheLoop, Live, ResponseTaskSet
    <3> QED
      BY <1>0, <1>1, <1>2, <2>1, <3>1 DEF ReplyRounds
  <2>2. CASE TranscriptionStarts
    <3>1. response_task.at = "none" /\ ~hung_up
      BY <2>2 DEF TranscriptionStarts, At, SafetyInv, BeforeTheLoop
    <3>2. response_task'.at \in {"none", "new"}
      BY <2>2, <3>1 DEF TranscriptionStarts, NewResponse
    <3> QED
      BY <1>0, <1>1, <1>2, <3>1, <3>2 DEF ReplyRounds
  <2> QED
    BY <1>4, <1>5, <2>1, <2>2, RunStepHangup, RunStepResponse DEF TypeInv
<1>6. CASE Environment
  BY <1>4, <1>6, EnvironmentResponse, EnvironmentQueue DEF speech, TypeInv
<1>7. CASE Over \/ UNCHANGED vars
  <2>1. response_task' = response_task /\ hung_up' = hung_up
    BY <1>7 DEF Over, vars, speech
  <2> QED
    BY <1>4, <2>1
<1> QED
  BY <1>3, <1>5, <1>6, <1>7 DEF Next

LEMMA ReplyInit == Init => Replies!InitReply /\ FreshReply
  BY DEF Init, NoResponse, NewResponse, Stage, Replies!InitReply, FreshReply

\* Whatever interrupts, supersedes or fails it, a reply stays within its rounds,
\* speaks once and apologises at most after that, and nothing follows the hangup.
THEOREM ReplyImplemented == Spec => ImplementsReply
<1>1. Spec => []FreshReply
  BY ReplyInit, TypeInvInit, TypeInvStep, FreshReplyStep, PTL DEF Spec
<1>2. TypeInv /\ TypeInv' /\ SafetyInv /\ SafetyInv' /\ FreshReply /\ [Next]_vars
        => [Replies!RepliesNext]_<<Stage, ReplyRounds>>
  BY ReplyStep
<1> QED
  BY <1>1, <1>2, ReplyInit, SafetyInvariant, PTL
     DEF Spec, ImplementsReply, Replies!RepliesSpec, ReplyRounds

=============================================================================

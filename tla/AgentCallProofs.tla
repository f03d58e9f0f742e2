--------------------------- MODULE AgentCallProofs ---------------------------
(***************************************************************************)
(* Theorems about AgentCall: the agent of a call together with the leg.    *)
(* What VoiceAgent's theorems say of the agent alone holds of the agent in *)
(* the call, since its steps are steps of VoiceAgent.  What the agent      *)
(* knows of the leg is proved for every set of LegFaults: a generation     *)
(* that has not gone astray is where the agent believes it to be.          *)
(***************************************************************************)
EXTENDS AgentCall, VoiceAgentProofs

-----------------------------------------------------------------------------
(***************************************************************************)
(* The agent's part of a step of the call.                                 *)
(***************************************************************************)

LEMMA RunStepOfCall ==
    ASSUME AgentRunStep
    PROVE  /\ RunStep
           /\ LeavesTheLeg
           /\ hangup_failed' \in {hangup_failed, TRUE}
           /\ \/ /\ requests' = requests \cup Sent
                 /\ UNCHANGED astray
                 /\ run_task.at = "stopPlayback" => StopsInFlight = {}
              \/ StopRaises
<1> USE DEF mishaps
<1>1. CASE RunGoesOn
  BY <1>1 DEF RunGoesOn, Sends
<1>2. CASE StopReturns
  BY <1>2 DEF StopReturns, Sends, RunStep
<1>3. CASE StopRaises
  BY <1>3 DEF StopRaises, RunStep
<1>4. CASE RunHangsUp
  BY <1>4 DEF RunHangsUp, HangupReturns, At, Sends, RunStep
<1> QED
  BY <1>1, <1>2, <1>3, <1>4 DEF AgentRunStep

LEMMA ResponseStepOfCall ==
    ASSUME AgentResponseStep
    PROVE  /\ ResponseStep
           /\ Sends
           /\ hangup_failed' \in {hangup_failed, TRUE}
           /\ UNCHANGED astray \/ SpeakRaises
<1> USE DEF mishaps
<1>1. CASE ResponseGoesOn \/ ResponseHangsUp
  BY <1>1 DEF ResponseGoesOn, ResponseHangsUp, ResponseStep
<1>2. CASE SpeakReturns \/ SpeakRaises
  BY <1>2 DEF SpeakReturns, SpeakRaises, ResponseStep
<1>3. CASE WaitEnds \/ WaitExpires
  BY <1>3 DEF WaitEnds, WaitExpires, ResponseStep
<1> QED
  BY <1>1, <1>2, <1>3 DEF AgentResponseStep

LEMMA CallStepOfTheAgent ==
    ASSUME [CallNext]_callVars
    PROVE  [Next]_vars
<1>1. CASE AgentRunStep
  BY <1>1, RunStepOfCall DEF Next
<1>2. CASE AgentResponseStep
  BY <1>2, ResponseStepOfCall DEF Next
<1>3. CASE LegStep \/ CallerHangsUp \/ ReportIsLost \/ UNCHANGED callVars
  <2>1. UNCHANGED vars
    BY <1>3 DEF LegStep, LegTakesSpeak, LegStops, LegFinishes, LegHangsUp, CommandIsDropped,
                CallerHangsUp, LegGoesDown, ReportIsLost, callVars
  <2> QED
    BY <2>1
<1>4. CASE CallerSpeaks \/ ReportArrives \/ HangupArrives
  BY <1>4 DEF CallerSpeaks, ReportArrives, HangupArrives, Environment, Next
<1>5. CASE CallIsOver
  BY <1>5 DEF CallIsOver, Next
<1> QED
  BY <1>1, <1>2, <1>3, <1>4, <1>5 DEF CallNext

\* What the agent is known to keep, whatever is around it.
AgentInv == TypeInv /\ SafetyInv /\ BufferInv /\ CompletionInv

LEMMA AgentInvariant == CallSpec => []AgentInv
<1>1. CallInit => AgentInv
  <2>1. Init => BufferInv
    BY DEF Init, BufferInv, FinalsArePaired, KeptIsCompleted, BufferIsTransient
  <2>2. Init => CompletionInv
    BY DEF Init, CompletionInv, CompletionsWereReported, StaleCompletionsIgnored
  <2> QED
    BY <2>1, <2>2, TypeInvInit, SafetyInit DEF CallInit, AgentInv
<1>2. AgentInv /\ [CallNext]_callVars => AgentInv'
  BY CallStepOfTheAgent, TypeInvStep, SafetyStep, BufferStep, CompletionStep DEF AgentInv
<1> QED
  BY <1>1, <1>2, PTL DEF CallSpec

\* In the call with its leg the agent behaves as VoiceAgent has it: the commands,
\* the leg and the webhooks that they cause add no step to its two tasks.
THEOREM CallIsACallOfTheAgent == CallSpec => Init /\ [][Next]_vars
<1>1. CallInit => Init
  BY DEF CallInit
<1>2. [CallNext]_callVars => [Next]_vars
  BY CallStepOfTheAgent
<1> QED
  BY <1>1, <1>2, PTL DEF CallSpec

-----------------------------------------------------------------------------
(***************************************************************************)
(* Type correctness.                                                       *)
(***************************************************************************)

RequestSet == [type : {"speak", "stop", "late", "hangup"}, n : Nat]

LegTypeOK ==
    /\ requests \subseteq RequestSet
    /\ leg \in {"up", "down"}
    /\ playing \in Seq(Nat)
    /\ reports \subseteq Nat
    /\ heard \in BOOLEAN
    /\ astray \subseteq Nat
    /\ hangup_failed \in BOOLEAN

LEMMA SentType ==
    ASSUME TypeOK, speak_gen' \in Nat
    PROVE  Sent \subseteq RequestSet
<1>1. \A generation \in speak_gen + 1 .. speak_gen' : SpeakRequest(generation) \in RequestSet
  BY DEF TypeOK, SpeakRequest, RequestSet
<1>2. StopRequest(speak_gen) \in RequestSet /\ HangupRequest \in RequestSet
  BY DEF TypeOK, StopRequest, HangupRequest, RequestSet
<1> QED
  BY <1>1, <1>2, Zenon DEF Sent

\* What the leg plays now is the head of what it has.
LEMMA CurrentIsHead ==
    ASSUME playing \in Seq(Nat)
    PROVE  /\ playing = <<>> => Current = {}
           /\ playing # <<>> => Current = {playing[1]} /\ Head(playing) = playing[1]
                                 /\ 1 \in 1..Len(playing)
           /\ Current \subseteq Nat
<1>1. DOMAIN playing = 1..Len(playing)
  OBVIOUS
<1>2. CASE playing = <<>>
  <2>1. DOMAIN playing = {}
    BY <1>1, <1>2
  <2>2. Current = {}
    BY <2>1 DEF Current
  <2> QED
    BY <1>2, <2>2
<1>3. CASE playing # <<>>
  <2>1. 1 \in 1..Len(playing) /\ Head(playing) = playing[1] /\ playing[1] \in Nat
    BY <1>3
  <2>2. Current = {playing[1]}
    BY <1>1, <2>1 DEF Current
  <2> QED
    BY <1>3, <2>1, <2>2
<1> QED
  BY <1>2, <1>3

LEMMA LegTypeAgent ==
    ASSUME TypeInv, TypeInv', LegTypeOK, AgentRunStep \/ AgentResponseStep
    PROVE  LegTypeOK'
<1> USE DEF carrier, LeavesTheLeg
<1>0. TypeOK /\ speak_gen \in Nat /\ speak_gen' \in Nat
  BY DEF TypeInv, TypeOK
<1>1. CASE AgentRunStep
  <2>1. requests' \subseteq RequestSet /\ astray' \subseteq Nat
    <3>1. CASE requests' = requests \cup Sent /\ UNCHANGED astray
      BY <1>0, <3>1, SentType DEF LegTypeOK
    <3>2. CASE StopRaises
      <4>1. \A request \in requests :
               /\ request.n \in Nat
               /\ [request EXCEPT !.type = "late"] \in RequestSet
        BY DEF LegTypeOK, RequestSet
      <4>2. requests' \subseteq RequestSet
        BY <3>2, <4>1 DEF StopRaises, LegTypeOK
      <4>3. astray' \subseteq Nat
        BY <3>2, <4>1 DEF StopRaises, StopsInFlight, LegTypeOK
      <4> QED
        BY <4>2, <4>3
    <3> QED
      BY <1>1, <3>1, <3>2, RunStepOfCall
  <2> QED
    BY <1>1, <2>1, RunStepOfCall DEF LegTypeOK
<1>2. CASE AgentResponseStep
  <2>1. requests' \subseteq RequestSet
    BY <1>0, <1>2, ResponseStepOfCall, SentType DEF Sends, LegTypeOK
  <2>2. astray' \subseteq Nat
    <3>1. CASE UNCHANGED astray
      BY <3>1 DEF LegTypeOK
    <3>2. CASE SpeakRaises
      <4> DEFINE last == IF run_task.at = "stopPlayback" THEN speak_gen' ELSE speak_gen
      <4>1. last \in Nat
        BY <1>0
      <4>2. astray' = astray \cup (speak_gen .. last)
        BY <3>2, Zenon DEF SpeakRaises
      <4> HIDE DEF last
      <4>3. speak_gen .. last \subseteq Nat
        BY <1>0, <4>1
      <4> QED
        BY <4>2, <4>3 DEF LegTypeOK
    <3> QED
      BY <1>2, <3>1, <3>2, ResponseStepOfCall
  <2> QED
    BY <1>2, <2>1, <2>2, ResponseStepOfCall DEF Sends, LegTypeOK
<1> QED
  BY <1>1, <1>2

LEMMA LegTypeStep ==
    ASSUME TypeInv, TypeInv', LegTypeOK, [CallNext]_callVars
    PROVE  LegTypeOK'
<1> USE DEF carrier, mishaps
<1>1. CASE AgentRunStep \/ AgentResponseStep
  BY <1>1, LegTypeAgent
<1>2. CASE LegTakesSpeak
  <2>1. PICK request \in requests :
            /\ requests' = requests \ {request}
            /\ playing' = Append(playing, request.n)
            /\ astray' = IF playing = <<>> THEN astray ELSE astray \cup {request.n}
    BY <1>2 DEF LegTakesSpeak
  <2>2. request.n \in Nat
    BY <2>1 DEF LegTypeOK, RequestSet
  <2>3. playing' \in Seq(Nat)
    BY <2>1, <2>2 DEF LegTypeOK
  <2>4. astray' = astray \/ astray' = astray \cup {request.n}
    BY <2>1, Zenon
  <2>5. astray' \subseteq Nat
    BY <2>2, <2>4 DEF LegTypeOK
  <2> QED
    BY <1>2, <2>1, <2>3, <2>5 DEF LegTakesSpeak, LegTypeOK
<1>3. CASE LegStops
  <2>1. PICK stop \in requests :
            /\ requests' = requests \ {stop}
            /\ astray' = astray \cup (Current \ {stop.n}) \cup ({stop.n} \ Current)
    BY <1>3 DEF LegStops
  <2>2. stop.n \in Nat /\ Current \subseteq Nat
    BY <2>1, CurrentIsHead DEF LegTypeOK, RequestSet
  <2>3. playing' \in Seq(Nat)
    BY <1>3 DEF LegStops, LegTypeOK
  <2>4. astray' \subseteq Nat /\ requests' \subseteq RequestSet
    BY <2>1, <2>2 DEF LegTypeOK
  <2> QED
    BY <1>3, <2>2, <2>3, <2>4 DEF LegStops, LegTypeOK
<1>4. CASE LegFinishes
  <2>1. Head(playing) \in Nat /\ Tail(playing) \in Seq(Nat)
    BY <1>4 DEF LegFinishes, LegTypeOK
  <2>2. heard' \in BOOLEAN
    BY <1>4, Zenon DEF LegFinishes, LegTypeOK
  <2> QED
    BY <1>4, <2>1, <2>2 DEF LegFinishes, LegTypeOK
<1>5. CASE LegHangsUp \/ CallerHangsUp
  <2>1. playing' = <<>> /\ <<>> \in Seq(Nat)
    BY <1>5 DEF LegHangsUp, CallerHangsUp, LegGoesDown
  <2>2. /\ requests' \subseteq requests
        /\ leg' = "down"
        /\ heard' = FALSE
        /\ astray' = {}
        /\ UNCHANGED <<reports, hangup_failed>>
    BY <1>5 DEF LegHangsUp, CallerHangsUp, LegGoesDown
  <2> QED
    BY <2>1, <2>2 DEF LegTypeOK
<1>6. CASE CommandIsDropped
  BY <1>6 DEF CommandIsDropped, LegTypeOK
<1>7. CASE CallerSpeaks \/ ReportArrives \/ ReportIsLost \/ HangupArrives \/ CallIsOver
  BY <1>7 DEF CallerSpeaks, ReportArrives, ReportIsLost, HangupArrives, CallIsOver, LegTypeOK
<1>8. CASE UNCHANGED callVars
  BY <1>8 DEF callVars, LegTypeOK
<1> QED
  BY <1>1, <1>2, <1>3, <1>4, <1>5, <1>6, <1>7, <1>8 DEF CallNext, LegStep

LEMMA LegTypeInvariant == CallSpec => []LegTypeOK
<1>1. CallInit => LegTypeOK
  <2> SUFFICES ASSUME CallInit PROVE LegTypeOK
    OBVIOUS
  <2>1. requests \subseteq RequestSet /\ reports \subseteq Nat /\ astray \subseteq Nat
    BY DEF CallInit
  <2>2. leg \in {"up", "down"} /\ heard \in BOOLEAN /\ hangup_failed \in BOOLEAN
    BY Zenon DEF CallInit
  <2>3. playing \in Seq(Nat)
    BY DEF CallInit
  <2> QED
    BY <2>1, <2>2, <2>3, Zenon DEF LegTypeOK
<1>2. AgentInv => TypeInv
  BY DEF AgentInv
<1> QED
  BY <1>1, <1>2, AgentInvariant, LegTypeStep, PTL DEF CallSpec

\* The commands, the leg and the reports stay in their types along with the agent.
THEOREM CallTypeCorrect == CallSpec => []CallTypeOK
<1>1. AgentInv /\ LegTypeOK => CallTypeOK
  BY DEF AgentInv, TypeInv, LegTypeOK, CallTypeOK, RequestSet
<1> QED
  BY <1>1, AgentInvariant, LegTypeInvariant, PTL

-----------------------------------------------------------------------------
(***************************************************************************)
(* More of what the steps of the agent do.                                 *)
(***************************************************************************)

Reaping == run_task.at \in {"reapBarge", "reapTurn", "reapEnd"}

\* The response is left alone, replaced by a new one, or cancelled to be reaped.
ReapsWhatItCancels ==
    \/ ~response_task'.cancelled
    \/ response_task'.cancelled = response_task.cancelled
    \/ Live' /\ Reaping'

LEMMA ReapSummary ==
    ASSUME TypeInv, NEW place \in {"reapBarge", "reapTurn", "reapEnd"}, NEW kept,
           Live, CancelAndReap(place, kept)
    PROVE  ReapsWhatItCancels /\ run_task'.at = place /\ ~run_task'.cancelled
  BY DEF TypeInv, TypeOK, ResponseTaskSet, CancelAndReap, SuspendedAt, Live, Reaping,
         ReapsWhatItCancels

LEMMA TeardownSummary ==
    ASSUME TypeInv, EnterTeardown
    PROVE  /\ ~run_task'.cancelled
           /\ run_task'.at = IF Live THEN "reapEnd" ELSE "stopTranscription"
           /\ ReapsWhatItCancels
<1>1. CASE Live
  BY <1>1, ReapSummary DEF EnterTeardown
<1>2. CASE ~Live
  BY <1>2 DEF EnterTeardown, SuspendedAt, ReapsWhatItCancels
<1> QED
  BY <1>1, <1>2

LEMMA StartReplySummary ==
    ASSUME NEW turn, StartReply(turn)
    PROVE  run_task'.at = "get" /\ ~run_task'.cancelled /\ ~response_task'.cancelled
  BY DEF StartReply, BackToGet, NewResponse

\* Where the run task goes, and what it does to the flags and to the response.
LEMMA RunStepSummary ==
    ASSUME TypeInv, SafetyInv, RunStep, ~run_task.cancelled
    PROVE  /\ ~run_task'.cancelled
           /\ ReapsWhatItCancels
           /\ Reaping => ~Live
           /\ \/ UNCHANGED <<agent_is_speaking, barged_in>>
              \/ /\ run_task.at = "get" /\ run_task'.at = "stopPlayback"
                 /\ agent_is_speaking /\ ~agent_is_speaking' /\ barged_in'
           /\ run_task'.at = "stopPlayback" => run_task.at = "get" /\ barged_in' /\ ~agent_is_speaking'
           /\ run_task'.at = "reapBarge" => run_task.at = "stopPlayback" /\ Live
           /\ run_task'.at = "reapTurn" => transcript_buffer # <<>>
           /\ run_task'.at = "get" => run_task.at = "get" \/ ~Live
           /\ run_task'.at = "hangup" => hung_up'
           /\ run_task'.at = "reapEnd" => Live /\ (TakeHangup \/ run_task.at = "hangup")
           /\ \/ transcript_buffer' \in {<<>>, transcript_buffer}
              \/ ~agent_is_speaking \/ ~Live
<1> USE DEF conversation, speech, status, environment
<1>1. CASE TranscriptionStarts
  <2>1. /\ run_task.at = "transcribe"
        /\ UNCHANGED <<agent_is_speaking, barged_in, transcript_buffer>>
    BY <1>1, Zenon DEF TranscriptionStarts, At
  <2>2. ~Live
    BY <2>1 DEF SafetyInv, BeforeTheLoop, Live
  <2>3. PICK greets \in Greetings, failed \in BOOLEAN :
          /\ IF greets
             THEN run_task' = BackToGet(events)
             ELSE run_task' = IF failed THEN SuspendedAt("hangup", <<>>) ELSE BackToGet(events)
          /\ hung_up' = (failed /\ ~greets)
    BY <1>1, Zenon DEF TranscriptionStarts
  <2>4. run_task' = BackToGet(events) \/ (run_task' = SuspendedAt("hangup", <<>>) /\ hung_up')
    BY <2>3, Zenon
  <2>5. response_task' = response_task \/ response_task' = NewResponse(<<>>)
    BY <1>1, Zenon DEF TranscriptionStarts
  <2>6. ReapsWhatItCancels
    BY <2>5 DEF NewResponse, ReapsWhatItCancels
  <2> QED
    BY <2>1, <2>2, <2>4, <2>6 DEF BackToGet, SuspendedAt, Reaping
<1>2. CASE TakeHangup
  <2>1. /\ run_task.at = "get"
        /\ EnterTeardown
        /\ UNCHANGED <<agent_is_speaking, barged_in, transcript_buffer>>
    BY <1>2 DEF TakeHangup, Takes, At
  <2> QED
    BY <1>2, <2>1, TeardownSummary DEF Reaping
<1>3. CASE TakeSpeakEnded \/ TakeIgnored \/ TakeFinal
  <2>1. /\ run_task.at = "get"
        /\ run_task' = BackToGet(events')
        /\ response_task' = response_task
        /\ UNCHANGED <<agent_is_speaking, barged_in>>
    BY <1>3 DEF TakeSpeakEnded, TakeIgnored, TakeFinal, Takes, At
  <2>2. transcript_buffer' = transcript_buffer \/ ~agent_is_speaking
    BY <1>3 DEF TakeSpeakEnded, TakeIgnored, TakeFinal
  <2> QED
    BY <2>1, <2>2 DEF BackToGet, Reaping, ReapsWhatItCancels
<1>4. CASE TakeBargeIn
  <2>1. /\ run_task.at = "get"
        /\ run_task'.at = "stopPlayback"
        /\ ~run_task'.cancelled
        /\ response_task' = response_task
        /\ agent_is_speaking /\ ~agent_is_speaking' /\ barged_in'
        /\ transcript_buffer' = transcript_buffer
    BY <1>4 DEF TakeBargeIn, Takes, At, SuspendedAt
  <2> QED
    BY <2>1 DEF Reaping, ReapsWhatItCancels
<1>5. CASE TakeTurn
  <2>1. /\ run_task.at = "get"
        /\ transcript_buffer # <<>>
        /\ transcript_buffer' = <<>>
        /\ UNCHANGED <<agent_is_speaking, barged_in>>
        /\ IF Live THEN CancelAndReap("reapTurn", transcript_buffer)
                   ELSE StartReply(transcript_buffer)
    BY <1>5 DEF TakeTurn, Takes, At
  <2> QED
    BY <2>1, ReapSummary, StartReplySummary DEF Reaping, ReapsWhatItCancels
<1>6. CASE PlaybackStops
  <2>1. /\ run_task.at = "stopPlayback"
        /\ UNCHANGED <<agent_is_speaking, barged_in>>
        /\ IF Live THEN CancelAndReap("reapBarge", run_task.kept) /\ UNCHANGED transcript_buffer
                   ELSE run_task' = BackToGet(events) /\ UNCHANGED response_task
    BY <1>6 DEF PlaybackStops, Reseat, At
  <2> QED
    BY <2>1, ReapSummary DEF BackToGet, Reaping, ReapsWhatItCancels
<1>7. CASE InterruptedReaped
  <2>1. /\ run_task.at = "reapBarge"
        /\ ~Live
        /\ UNCHANGED <<agent_is_speaking, barged_in>>
        /\ EnterTeardown \/ (run_task' = BackToGet(events) /\ UNCHANGED response_task)
    BY <1>7 DEF InterruptedReaped, Reseat, At
  <2> QED
    BY <2>1, TeardownSummary DEF BackToGet, Reaping, ReapsWhatItCancels
<1>8. CASE SupersededReaped
  <2>1. /\ run_task.at = "reapTurn"
        /\ ~Live
        /\ UNCHANGED <<agent_is_speaking, barged_in>>
        /\ EnterTeardown \/ StartReply(run_task.kept)
    BY <1>8 DEF SupersededReaped, At
  <2> QED
    BY <2>1, TeardownSummary, StartReplySummary DEF Reaping, ReapsWhatItCancels
<1>9. CASE HangupReturns
  <2>1. /\ run_task.at = "hangup"
        /\ UNCHANGED <<agent_is_speaking, barged_in, transcript_buffer>>
        /\ EnterTeardown
    BY <1>9 DEF HangupReturns, At
  <2> QED
    BY <2>1, TeardownSummary DEF Reaping
<1>10. CASE RunCancelled
  BY <1>10 DEF RunCancelled
<1>11. CASE LastReaped \/ TranscriptionStops
  <2>1. /\ (run_task.at = "reapEnd" /\ ~Live) \/ run_task.at = "stopTranscription"
        /\ run_task'.at \in {"stopTranscription", "done"}
        /\ ~run_task'.cancelled
        /\ response_task' = response_task
        /\ UNCHANGED <<agent_is_speaking, barged_in, transcript_buffer>>
    BY <1>11 DEF LastReaped, TranscriptionStops, SuspendedAt
  <2> QED
    BY <2>1 DEF Reaping, ReapsWhatItCancels
<1> QED
  BY <1>1, <1>2, <1>3, <1>4, <1>5, <1>6, <1>7, <1>8, <1>9, <1>10, <1>11 DEF RunStep

\* A response step speaks exactly when it starts a generation.
Generates ==
    \/ response_task'.at = "speak" /\ speak_gen' = speak_gen + 1
    \/ response_task'.at # "speak" /\ speak_gen' = speak_gen

LEMMA ResponseStepGenerates ==
    ASSUME TypeInv, ResponseStep
    PROVE  ~response_task'.cancelled /\ Generates
<1> USE DEF Generates
<1> USE DEF speech
<1>0. response_task \in ResponseTaskSet
  BY DEF TypeInv, TypeOK
<1>1. ASSUME NEW response, Speak(response), response \in ResponseTaskSet, ~response.cancelled
      PROVE  ~response_task'.cancelled /\ Generates
  BY <1>1 DEF Speak, ResponseTaskSet
<1>2. ASSUME NEW response, StartRound(response), response \in ResponseTaskSet, ~response.cancelled
      PROVE  ~response_task'.cancelled /\ Generates
  BY <1>2 DEF StartRound, Speak, ResponseTaskSet
<1>3. ASSUME NEW full, NEW exit, Finish(full, exit)
      PROVE  ~response_task'.cancelled /\ Generates
  BY <1>0, <1>3 DEF Finish, ResponseTaskSet
<1>4. CASE GreetingStarts \/ ReplyStarts
  BY <1>0, <1>1, <1>2, <1>4 DEF GreetingStarts, ReplyStarts, Resumes
<1>5. CASE LlmAnswers \/ LlmFails
  BY <1>0, <1>5 DEF LlmAnswers, LlmFails, Resumes, Speak, ResponseTaskSet
<1>6. CASE LlmCallsTooManyTools \/ ToolRaises
  BY <1>0, <1>6 DEF LlmCallsTooManyTools, ToolRaises, Resumes, Speak, ResponseTaskSet
<1>7. CASE LlmCallsTool
  BY <1>0, <1>7 DEF LlmCallsTool, Resumes, StartRound, Speak, ResponseTaskSet
<1>8. CASE ReplySkipped \/ SpeakIssued \/ ResponseHangupReturns
  BY <1>0, <1>8 DEF ReplySkipped, SpeakIssued, ResponseHangupReturns, Resumes, ResponseTaskSet
<1>9. CASE LlmIsSilent \/ PlaybackEnds \/ PlaybackTimesOut
  <2>1. \E full, exit : Finish(full, exit)
    BY <1>9, Zenon DEF LlmIsSilent, PlaybackEnds, PlaybackTimesOut
  <2> QED
    BY <1>3, <2>1
<1>10. CASE SpeakFails
  <2>1. ~response_task.cancelled
    BY <1>10 DEF SpeakFails, Resumes
  <2>2. \/ \E full, exit : Finish(full, exit)
        \/ Speak([response_task EXCEPT !.fallback = TRUE])
    BY <1>10, Zenon DEF SpeakFails
  <2> QED
    BY <1>0, <1>3, <2>1, <2>2 DEF Speak, ResponseTaskSet
<1>11. CASE ResponseCancelled
  <2>1. CASE response_task.at \in {"new", "hangup"}
    BY <1>0, <1>11, <2>1 DEF ResponseCancelled, ResponseTaskSet
  <2>2. CASE \E full, exit : Finish(full, exit)
    BY <1>3, <2>2
  <2> QED
    BY <1>11, <2>1, <2>2, Zenon DEF ResponseCancelled
<1> QED
  BY <1>4, <1>5, <1>6, <1>7, <1>8, <1>9, <1>10, <1>11 DEF ResponseStep

LEMMA ResponseStepGeneration ==
    ASSUME TypeInv, ResponseStep
    PROVE  /\ ~response_task'.cancelled
           /\ \/ Speaks /\ speak_gen' = speak_gen + 1
              \/ Finishes /\ speak_gen' = speak_gen
              \/ GoesOn /\ speak_gen' = speak_gen
  BY ResponseStepSummary, ResponseStepGenerates DEF Generates, Speaks, Finishes, GoesOn


-----------------------------------------------------------------------------
(***************************************************************************)
(* What is in flight between the agent and the leg.                        *)
(***************************************************************************)

\* The latest speak is still in flight, or the leg has it.
LatestInFlight == SpeakRequest(speak_gen) \in requests
LatestPlays == \E i \in 1..Len(playing) : playing[i] = speak_gen

\* The agent has not lost control of its latest speak.
Followed == leg = "up" /\ speak_gen \notin astray

\* What is in flight to a leg that is up is for the latest generation, as far as it
\* has not gone astray.
RequestsFit ==
    \A request \in requests :
        /\ request.type = "speak" => request.n <= speak_gen
        /\ request.type = "speak" /\ leg = "up" => request.n = speak_gen \/ request.n \in astray
        /\ request.type = "stop" => run_task.at = "stopPlayback"
        /\ request.type = "stop" /\ Followed => request.n = speak_gen
        /\ request.type = "late" /\ leg = "up" => request.n \in astray
        /\ request.type = "hangup" => hung_up

\* So is what the leg plays; all that waits behind it has gone astray.
PlayingFits ==
    /\ playing # <<>> => leg = "up"
    /\ \A i \in 1..Len(playing) :
          /\ playing[i] <= speak_gen
          /\ playing[i] \notin astray => i = 1 /\ playing[i] = speak_gen

ReportsFit ==
    /\ reported <= speak_gen
    /\ \A generation \in reports : generation <= speak_gen
    /\ response_task.at = "play" => ~LatestInFlight

\* What the agent knows of a speak that it has under control: it is in flight or
\* plays only while the response waits for it and can be interrupted, its end has
\* not been reported then, and nobody but a barge-in keeps it from being heard.
AgentKnows ==
    Followed =>
       /\ LatestInFlight \/ LatestPlays =>
             /\ response_task.at \in {"speak", "play"}
             /\ agent_is_speaking \/ StopsInFlight # {}
             /\ speak_gen \notin reports
             /\ reported # speak_gen
       /\ LatestInFlight => ~LatestPlays
       /\ run_task.at \in {"stopPlayback", "reapBarge"} => ~agent_is_speaking
       /\ response_task.at \in {"speak", "play"} /\ ~barged_in
             => LatestInFlight \/ LatestPlays \/ heard

\* The flags while the run task listens or supersedes a response.
ListensInTheLoop ==
    /\ run_task.at = "get" => ~barged_in
    /\ transcript_buffer # <<>> \/ run_task.at = "reapTurn" => ~agent_is_speaking

\* A response is only cancelled to be reaped, and the teardown only finds one to
\* reap when the leg is down or about to be.
CancelledIsReaped ==
    /\ ~run_task.cancelled
    /\ response_task.cancelled => Live /\ Reaping
    /\ run_task.at = "hangup" => hung_up
    /\ run_task.at = "reapEnd" => leg = "down" \/ hung_up
    /\ \A i \in 1..Len(events) : events[i].type = "hangup" => leg = "down"

CallInv ==
    /\ RequestsFit
    /\ PlayingFits
    /\ ReportsFit
    /\ AgentKnows
    /\ ListensInTheLoop
    /\ CancelledIsReaped

LEMMA CallInvInit == CallInit => CallInv
<1> SUFFICES ASSUME CallInit PROVE CallInv
  OBVIOUS
<1> USE DEF CallInit, Init, NoResponse, NewResponse
<1>1. RequestsFit /\ ReportsFit
  BY DEF RequestsFit, ReportsFit, LatestInFlight
<1>2. 1..Len(playing) = {}
  BY DEF CallInit
<1>3. PlayingFits /\ ~LatestPlays
  BY <1>2 DEF PlayingFits, LatestPlays
<1>4. AgentKnows
  BY <1>3 DEF AgentKnows, LatestInFlight
<1>5. ListensInTheLoop /\ CancelledIsReaped
  BY DEF ListensInTheLoop, CancelledIsReaped
<1> QED
  BY <1>1, <1>3, <1>4, <1>5 DEF CallInv

-----------------------------------------------------------------------------
\* What a step of the run task sends, and what becomes of its stop.
LEMMA RunStepSends ==
    ASSUME AgentInv, LegTypeOK, CallInv, AgentRunStep
    PROVE  /\ UNCHANGED speak_gen
           /\ heard => heard'
           /\ astray \subseteq astray'
           /\ \A request \in requests' :
                 \/ /\ request \in requests
                    /\ run_task.at = "stopPlayback" => request.type # "stop"
                 \/ /\ request = StopRequest(speak_gen)
                    /\ run_task'.at = "stopPlayback" /\ run_task.at # "stopPlayback"
                 \/ request = HangupRequest /\ hung_up'
                 \/ request.type = "late" /\ request.n \in astray'
           /\ LatestInFlight' = LatestInFlight
           /\ run_task'.at = "stopPlayback" /\ run_task.at # "stopPlayback"
                 => StopsInFlight' # {}
           /\ run_task.at = "stopPlayback" /\ speak_gen \notin astray' /\ leg = "up"
                 => StopsInFlight = {}
<1>1. /\ RunStep
      /\ heard' = (heard /\ speak_gen' = speak_gen)
  BY RunStepOfCall DEF LeavesTheLeg
<1>2. UNCHANGED speak_gen /\ speak_gen \in Nat
  BY <1>1, RunStepQueue DEF AgentInv, TypeInv, TypeOK
<1>3. heard => heard'
  BY <1>1, <1>2, Zenon
<1>4. CASE /\ requests' = requests \cup Sent
           /\ UNCHANGED astray
           /\ run_task.at = "stopPlayback" => StopsInFlight = {}
  <2>1. {SpeakRequest(generation) : generation \in speak_gen + 1 .. speak_gen'} = {}
    BY <1>2
  <2>2. Sent = (IF run_task'.at = "stopPlayback" /\ run_task.at # "stopPlayback"
                THEN {StopRequest(speak_gen)} ELSE {})
                 \cup (IF hung_up' /\ ~hung_up THEN {HangupRequest} ELSE {})
    BY <2>1, Zenon DEF Sent
  <2>3. StopRequest(speak_gen).type = "stop" /\ HangupRequest.type = "hangup"
    BY DEF StopRequest, HangupRequest
  <2>4. run_task'.at = "stopPlayback" /\ run_task.at # "stopPlayback" => StopsInFlight' # {}
    BY <1>4, <2>2, <2>3 DEF StopsInFlight
  <2>5. SpeakRequest(speak_gen) # StopRequest(speak_gen) /\ SpeakRequest(speak_gen) # HangupRequest
    BY <2>3 DEF SpeakRequest
  <2>6. SpeakRequest(speak_gen) \notin Sent
    BY <2>2, <2>5, Zenon
  <2>7. LatestInFlight' = LatestInFlight
    BY <1>2, <1>4, <2>6 DEF LatestInFlight
  <2>8. \A request \in Sent :
           \/ /\ request = StopRequest(speak_gen)
              /\ run_task'.at = "stopPlayback" /\ run_task.at # "stopPlayback"
           \/ request = HangupRequest /\ hung_up'
    BY <2>2
  <2>9. run_task.at = "stopPlayback" => \A request \in requests : request.type # "stop"
    BY <1>4 DEF StopsInFlight
  <2> QED
    BY <1>2, <1>3, <1>4, <2>4, <2>7, <2>8, <2>9
<1>5. CASE StopRaises
  <2> DEFINE Later(request) == IF request.type = "stop" THEN [request EXCEPT !.type = "late"]
                                                        ELSE request
  <2>1. /\ requests' = {Later(request) : request \in requests}
        /\ astray' = astray \cup {stop.n : stop \in StopsInFlight}
        /\ run_task.at = "stopPlayback"
    BY <1>5 DEF StopRaises, PlaybackStops, At
  <2>2. \A request \in requests : request.type = "stop" =>
           /\ [request EXCEPT !.type = "late"].type = "late"
           /\ [request EXCEPT !.type = "late"].n \in astray'
    BY <2>1 DEF StopsInFlight, LegTypeOK, RequestSet
  <2>3. \A request \in requests' :
           \/ request \in requests /\ request.type # "stop"
           \/ request.type = "late" /\ request.n \in astray'
    BY <2>1, <2>2
  <2>4. SpeakRequest(speak_gen).type = "speak"
    BY DEF SpeakRequest
  <2>5. LatestInFlight => LatestInFlight'
    <3>1. Later(SpeakRequest(speak_gen)) = SpeakRequest(speak_gen)
      BY <2>4
    <3> QED
      BY <1>2, <2>1, <3>1 DEF LatestInFlight
  <2>6. LatestInFlight' => LatestInFlight
    BY <1>2, <2>3, <2>4 DEF LatestInFlight
  <2>7. speak_gen \notin astray' /\ leg = "up" => StopsInFlight = {}
    <3>1. ASSUME speak_gen \notin astray', leg = "up", NEW stop \in StopsInFlight
          PROVE  FALSE
      <4>1. stop.n = speak_gen
        BY <2>1, <3>1 DEF StopsInFlight, CallInv, RequestsFit, Followed
      <4> QED
        BY <2>1, <3>1, <4>1
    <3> QED
      BY <3>1
  <2>8. LatestInFlight' = LatestInFlight
    BY <2>5, <2>6 DEF LatestInFlight
  <2> QED
    BY <1>2, <1>3, <2>1, <2>3, <2>7, <2>8
<1> QED
  BY <1>4, <1>5, RunStepOfCall

LEMMA CallInvRunStep ==
    ASSUME AgentInv, LegTypeOK, CallInv, AgentRunStep
    PROVE  CallInv'
<1> USE DEF carrier
<1>0. /\ TypeInv /\ SafetyInv
      /\ response_task \in ResponseTaskSet
      /\ RunStep
      /\ ~run_task.cancelled
      /\ UNCHANGED <<leg, playing, reports, reported>>
      /\ events' = events \/ (events # <<>> /\ events' = Tail(events))
  BY RunStepOfCall, RunStepQueue
     DEF AgentInv, TypeInv, TypeOK, CallInv, CancelledIsReaped, environment, LeavesTheLeg
<1>1. /\ ~run_task'.cancelled
      /\ ReapsWhatItCancels
      /\ Reaping => ~Live
      /\ \/ UNCHANGED <<agent_is_speaking, barged_in>>
         \/ /\ run_task.at = "get" /\ run_task'.at = "stopPlayback"
            /\ agent_is_speaking /\ ~agent_is_speaking' /\ barged_in'
      /\ run_task'.at = "stopPlayback" => run_task.at = "get" /\ barged_in' /\ ~agent_is_speaking'
      /\ run_task'.at = "reapBarge" => run_task.at = "stopPlayback" /\ Live
      /\ run_task'.at = "reapTurn" => transcript_buffer # <<>>
      /\ run_task'.at = "get" => run_task.at = "get" \/ ~Live
      /\ run_task'.at = "hangup" => hung_up'
      /\ run_task'.at = "reapEnd" => Live /\ (TakeHangup \/ run_task.at = "hangup")
      /\ \/ transcript_buffer' \in {<<>>, transcript_buffer}
         \/ ~agent_is_speaking \/ ~Live
  BY <1>0, RunStepSummary
<1>2. \/ response_task'.at = response_task.at
      \/ response_task.at \notin {"speak", "play"} /\ response_task'.at = "new"
  BY <1>0, RunStepResponse
     DEF TypeInv, CancelRequested, ResponseReplaced, NewResponse, ResponseTaskSet, SafetyInv,
         BeforeTheLoop, Live
<1>3. hung_up => hung_up'
  BY <1>0, RunStepHangup DEF TranscriptionStarts, At, SafetyInv, BeforeTheLoop
<1>4. agent_is_speaking \/ barged_in <=> response_task.at \in {"speak", "play"}
  BY <1>0 DEF SafetyInv, SpeakingFlagsTrackTheTask
<1>5. /\ UNCHANGED speak_gen
      /\ heard => heard'
      /\ astray \subseteq astray'
      /\ \A request \in requests' :
            \/ /\ request \in requests
               /\ run_task.at = "stopPlayback" => request.type # "stop"
            \/ /\ request = StopRequest(speak_gen)
               /\ run_task'.at = "stopPlayback" /\ run_task.at # "stopPlayback"
            \/ request = HangupRequest /\ hung_up'
            \/ request.type = "late" /\ request.n \in astray'
      /\ LatestInFlight' = LatestInFlight
      /\ run_task'.at = "stopPlayback" /\ run_task.at # "stopPlayback" => StopsInFlight' # {}
      /\ run_task.at = "stopPlayback" /\ speak_gen \notin astray' /\ leg = "up"
            => StopsInFlight = {}
  BY RunStepSends
<1>6. LatestPlays' = LatestPlays /\ (Followed' => Followed)
  BY <1>0, <1>5 DEF LatestPlays, Followed
<1>7. RequestsFit'
  <2> SUFFICES ASSUME NEW request \in requests'
               PROVE  /\ request.type = "speak" => request.n <= speak_gen'
                      /\ request.type = "speak" /\ leg' = "up"
                            => request.n = speak_gen' \/ request.n \in astray'
                      /\ request.type = "stop" => run_task'.at = "stopPlayback"
                      /\ request.type = "stop" /\ Followed' => request.n = speak_gen'
                      /\ request.type = "late" /\ leg' = "up" => request.n \in astray'
                      /\ request.type = "hangup" => hung_up'
    BY DEF RequestsFit
  <2>1. CASE request \in requests /\ (run_task.at = "stopPlayback" => request.type # "stop")
    BY <1>0, <1>3, <1>5, <1>6, <2>1 DEF CallInv, RequestsFit
  <2>2. CASE request = StopRequest(speak_gen) /\ run_task'.at = "stopPlayback"
    BY <1>5, <2>2 DEF StopRequest
  <2>3. CASE request = HangupRequest /\ hung_up'
    BY <2>3 DEF HangupRequest
  <2>4. CASE request.type = "late" /\ request.n \in astray'
    BY <2>4
  <2> QED
    BY <1>5, <2>1, <2>2, <2>3, <2>4
<1>8. PlayingFits'
  BY <1>0, <1>5 DEF CallInv, PlayingFits
<1>9. ReportsFit'
  BY <1>0, <1>2, <1>5 DEF CallInv, ReportsFit
<1>10. AgentKnows'
  <2> SUFFICES ASSUME Followed'
               PROVE  /\ LatestInFlight' \/ LatestPlays' =>
                            /\ response_task'.at \in {"speak", "play"}
                            /\ agent_is_speaking' \/ StopsInFlight' # {}
                            /\ speak_gen' \notin reports'
                            /\ reported' # speak_gen'
                      /\ LatestInFlight' => ~LatestPlays'
                      /\ run_task'.at \in {"stopPlayback", "reapBarge"} => ~agent_is_speaking'
                      /\ response_task'.at \in {"speak", "play"} /\ ~barged_in'
                            => LatestInFlight' \/ LatestPlays' \/ heard'
    BY DEF AgentKnows
  <2>1. Followed /\ AgentKnows
    BY <1>6 DEF CallInv
  <2>2. StopsInFlight = {}
    <3>1. speak_gen \notin astray' /\ leg = "up"
      BY <1>0, <1>5 DEF Followed
    <3>2. \A stop \in StopsInFlight : run_task.at = "stopPlayback"
      BY DEF StopsInFlight, CallInv, RequestsFit
    <3> QED
      BY <1>5, <3>1, <3>2
  <2>3. ASSUME LatestInFlight' \/ LatestPlays'
        PROVE  /\ response_task'.at \in {"speak", "play"}
               /\ agent_is_speaking' \/ StopsInFlight' # {}
               /\ speak_gen' \notin reports'
               /\ reported' # speak_gen'
    <3>1. /\ response_task.at \in {"speak", "play"}
          /\ agent_is_speaking
          /\ speak_gen \notin reports
          /\ reported # speak_gen
      BY <1>5, <1>6, <2>1, <2>2, <2>3, Zenon DEF AgentKnows
    <3>2. agent_is_speaking' \/ StopsInFlight' # {}
      BY <1>1, <1>5, <3>1
    <3> QED
      BY <1>0, <1>2, <1>5, <3>1, <3>2
  <2>4. LatestInFlight' => ~LatestPlays'
    BY <1>5, <1>6, <2>1, Zenon DEF AgentKnows
  <2>5. run_task'.at \in {"stopPlayback", "reapBarge"} => ~agent_is_speaking'
    <3>1. CASE run_task'.at = "stopPlayback"
      BY <1>1, <3>1
    <3>2. CASE run_task'.at = "reapBarge"
      BY <1>1, <2>1, <3>2 DEF AgentKnows
    <3> QED
      BY <3>1, <3>2
  <2>6. ASSUME response_task'.at \in {"speak", "play"}, ~barged_in'
        PROVE  LatestInFlight' \/ LatestPlays' \/ heard'
    <3>1. response_task.at \in {"speak", "play"} /\ ~barged_in
      BY <1>1, <1>2, <2>6
    <3>2. LatestInFlight \/ LatestPlays \/ heard
      BY <2>1, <3>1 DEF AgentKnows
    <3> QED
      BY <1>5, <1>6, <3>2, Zenon
  <2> QED
    BY <2>3, <2>4, <2>5, <2>6
<1>11. ListensInTheLoop'
  <2>1. run_task'.at = "get" => ~barged_in'
    BY <1>1, <1>4 DEF Live, CallInv, ListensInTheLoop
  <2>2. transcript_buffer' # <<>> \/ run_task'.at = "reapTurn" => ~agent_is_speaking'
    BY <1>1, <1>4 DEF Live, CallInv, ListensInTheLoop
  <2> QED
    BY <2>1, <2>2 DEF ListensInTheLoop
<1>12. CancelledIsReaped'
  <2>1. response_task'.cancelled => Live' /\ Reaping'
    BY <1>1 DEF ReapsWhatItCancels, CallInv, CancelledIsReaped
  <2>2. run_task'.at = "reapEnd" => leg' = "down" \/ hung_up'
    <3>1. ASSUME TakeHangup PROVE leg = "down"
      <4>1. events \in Seq(ItemSet) /\ events # <<>> /\ Head(events).type = "hangup"
        BY <1>0, <3>1 DEF TypeInv, TypeOK, TakeHangup, Takes
      <4>2. 1 \in 1..Len(events) /\ events[1].type = "hangup"
        BY <4>1
      <4> QED
        BY <4>2 DEF CallInv, CancelledIsReaped
    <3> QED
      BY <1>0, <1>1, <1>3, <3>1 DEF CallInv, CancelledIsReaped
  <2>3. ASSUME NEW i \in 1..Len(events'), events'[i].type = "hangup"
        PROVE  leg' = "down"
    <3>0. events \in Seq(ItemSet)
      BY <1>0 DEF TypeInv, TypeOK
    <3>1. \E j \in 1..Len(events) : events'[i] = events[j]
      <4>1. CASE events' = events
        BY <2>3, <4>1
      <4>2. CASE events # <<>> /\ events' = Tail(events)
        <5>1. i + 1 \in 1..Len(events) /\ events'[i] = events[i + 1]
          BY <2>3, <3>0, <4>2
        <5> QED
          BY <5>1
      <4> QED
        BY <1>0, <4>1, <4>2
    <3> QED
      BY <1>0, <2>3, <3>1 DEF CallInv, CancelledIsReaped
  <2> QED
    BY <1>1, <2>1, <2>2, <2>3 DEF CancelledIsReaped
<1> QED
  BY <1>7, <1>8, <1>9, <1>10, <1>11, <1>12 DEF CallInv

-----------------------------------------------------------------------------
\* The common part of a response step: the run task, the leg and the queue stay,
\* and what the step sends.
LEMMA ResponseStepFrame ==
    ASSUME AgentInv, LegTypeOK, CallInv, AgentResponseStep
    PROVE  /\ TypeInv /\ SafetyInv
           /\ UNCHANGED <<run_task, events, reported, leg, playing, reports>>
           /\ transcript_buffer = <<>>
           /\ ~response_task'.cancelled
           /\ speak_gen \in Nat
           /\ astray \subseteq astray'
           /\ requests \subseteq requests'
           /\ \A request \in requests' \ requests :
                 \/ request = SpeakRequest(speak_gen') /\ speak_gen' = speak_gen + 1
                 \/ request = HangupRequest /\ hung_up'
           /\ speak_gen' = speak_gen + 1 => SpeakRequest(speak_gen') \in requests'
           /\ speak_gen' = speak_gen /\ heard => heard'
           /\ StopsInFlight' = StopsInFlight
<1>1. TypeInv /\ SafetyInv /\ speak_gen \in Nat
  BY DEF AgentInv, TypeInv, TypeOK
<1>2. ~run_task.holds /\ UNCHANGED <<events, run_task, reported>>
  BY <1>1, ResponseStepOfCall, ResponseStepSummary DEF environment
<1>3. transcript_buffer = <<>>
  BY <1>2 DEF AgentInv, BufferInv, BufferIsTransient
<1>4. ~response_task'.cancelled
  BY <1>1, ResponseStepOfCall, ResponseStepGeneration
<1>5. /\ requests' = requests \cup Sent
      /\ heard' = (heard /\ speak_gen' = speak_gen)
      /\ UNCHANGED <<leg, playing, reports>>
  BY ResponseStepOfCall DEF Sends, LeavesTheLeg, carrier
<1>6. astray \subseteq astray'
  BY ResponseStepOfCall DEF SpeakRaises
<1>7. speak_gen' = speak_gen \/ speak_gen' = speak_gen + 1
  BY <1>1, ResponseStepOfCall, ResponseStepGeneration
<1>8. \A request \in Sent :
         \/ request = SpeakRequest(speak_gen') /\ speak_gen' = speak_gen + 1
         \/ request = HangupRequest /\ hung_up'
  BY <1>1, <1>2, <1>7 DEF Sent
<1>9. speak_gen' = speak_gen + 1 => SpeakRequest(speak_gen') \in Sent
  <2>1. speak_gen' = speak_gen + 1 => speak_gen' \in speak_gen + 1 .. speak_gen'
    BY <1>1
  <2> QED
    BY <2>1 DEF Sent
<1>10. speak_gen' = speak_gen /\ heard => heard'
  BY <1>5, Zenon
<1>11. StopsInFlight' = StopsInFlight
  <2>1. \A request \in Sent : request.type # "stop"
    BY <1>8 DEF SpeakRequest, HangupRequest
  <2> QED
    BY <1>5, <2>1 DEF StopsInFlight
<1> QED
  BY <1>1, <1>2, <1>3, <1>4, <1>5, <1>6, <1>8, <1>9, <1>10, <1>11

\* A response step that starts a speak or ends the response when no speak raises.
LEMMA WithoutRaising ==
    ASSUME AgentInv, AgentResponseStep, Speaks \/ Finishes
    PROVE  \/ SpeakRaises
           \/ response_task.at \notin {"speak", "play"}
           \/ ResponseCancelled /\ Finishes
           \/ response_task.at = "play" /\ Finishes /\ (WaitEnds \/ WaitExpires)
<1>0. response_task \in ResponseTaskSet
  BY DEF AgentInv, TypeInv, TypeOK
<1>1. CASE ResponseGoesOn
  <2>1. CASE ResponseCancelled
    BY <2>1 DEF ResponseCancelled, Speaks
  <2> QED
    BY <1>1, <2>1 DEF ResponseGoesOn
<1>2. CASE ResponseHangsUp
  BY <1>2 DEF ResponseHangsUp, ResponseHangupReturns, Resumes
<1>3. CASE SpeakReturns
  <2>1. response_task'.at = "play"
    BY <1>0, <1>3 DEF SpeakReturns, SpeakIssued, Resumes, ResponseTaskSet
  <2> QED
    BY <2>1 DEF Speaks, Finishes
<1>4. CASE WaitEnds \/ WaitExpires
  <2>1. response_task.at = "play"
    BY <1>4 DEF WaitEnds, WaitExpires, PlaybackEnds, PlaybackTimesOut, Resumes
  <2> QED
    BY <1>4, <2>1 DEF Speaks
<1> QED
  BY <1>1, <1>2, <1>3, <1>4 DEF AgentResponseStep

\* A speak that raises has gone astray, and so has an apology for it that is sent
\* while a stop is awaited.
LEMMA RaisedIsAstray ==
    ASSUME TypeInv, SpeakRaises, speak_gen' \in Nat, speak_gen' >= speak_gen
    PROVE  /\ speak_gen \in astray'
           /\ run_task.at = "stopPlayback" => speak_gen' \in astray'
           /\ response_task.at = "speak"
<1> DEFINE last == IF run_task.at = "stopPlayback" THEN speak_gen' ELSE speak_gen
<1>1. speak_gen \in Nat /\ last \in Nat /\ last >= speak_gen
  BY DEF TypeInv, TypeOK
<1>2. astray' = astray \cup (speak_gen .. last)
  BY Zenon DEF SpeakRaises
<1>3. response_task.at = "speak"
  BY DEF SpeakRaises, SpeakFails, Resumes
<1>4. run_task.at = "stopPlayback" => last = speak_gen'
  OBVIOUS
<1> HIDE DEF last
<1>5. speak_gen \in speak_gen .. last /\ last \in speak_gen .. last
  BY <1>1
<1> QED
  BY <1>2, <1>3, <1>4, <1>5

\* What the agent follows is neither in flight nor plays when a response that
\* speaks ends, or goes on to another speak.
LEMMA QuietAfterwards ==
    ASSUME AgentInv, LegTypeOK, CallInv, AgentResponseStep,
           \/ Speaks /\ speak_gen' = speak_gen + 1
           \/ Finishes /\ speak_gen' = speak_gen,
           leg = "up", speak_gen \notin astray'
    PROVE  ~LatestInFlight /\ ~LatestPlays /\ ~SpeakRaises
<1>0. /\ TypeInv /\ SafetyInv /\ speak_gen \in Nat
      /\ astray \subseteq astray'
  BY ResponseStepFrame
<1>1. Followed /\ AgentKnows
  BY <1>0 DEF Followed, CallInv
<1>2. ~SpeakRaises
  <2>1. speak_gen' \in Nat /\ speak_gen' >= speak_gen
    BY <1>0
  <2> QED
    BY <1>0, <2>1, RaisedIsAstray
<1>3. CASE response_task.at \notin {"speak", "play"}
  BY <1>1, <1>2, <1>3 DEF AgentKnows
<1>4. CASE ResponseCancelled /\ Finishes
  <2>1. (response_task.cancelled /\ ~hung_up) \/ response_task.at \notin {"speak", "play"}
    BY <1>0, <1>4 DEF ResponseCancelled, Finishes, SafetyInv, NothingAfterTheHangup
  <2>2. CASE response_task.cancelled /\ ~hung_up
    <3>1. run_task.at \in {"reapBarge", "reapTurn"}
      BY <2>2 DEF CallInv, CancelledIsReaped, Reaping
    <3>2. ~agent_is_speaking
      BY <1>1, <3>1 DEF CallInv, ListensInTheLoop, AgentKnows
    <3>3. StopsInFlight = {}
      BY <3>1 DEF CallInv, RequestsFit, StopsInFlight
    <3> QED
      BY <1>1, <1>2, <3>2, <3>3 DEF AgentKnows
  <2> QED
    BY <1>3, <2>1, <2>2
<1>5. CASE response_task.at = "play" /\ (WaitEnds \/ WaitExpires)
  <2>1. ~LatestInFlight
    BY <1>5 DEF CallInv, ReportsFit
  <2>2. CASE WaitEnds
    <3>1. reported = speak_gen
      BY <2>2 DEF WaitEnds, PlaybackEnds, AgentInv, CompletionInv, StaleCompletionsIgnored
    <3> QED
      BY <1>1, <1>2, <2>1, <3>1 DEF AgentKnows
  <2>3. CASE WaitExpires
    <3>1. speak_gen \notin Range(playing)
      BY <1>1, <2>3 DEF WaitExpires, Followed
    <3>2. DOMAIN playing = 1..Len(playing)
      BY DEF LegTypeOK
    <3>3. ~LatestPlays
      BY <3>1, <3>2 DEF Range, LatestPlays
    <3> QED
      BY <1>2, <2>1, <3>3
  <2> QED
    BY <1>5, <2>2, <2>3
<1> QED
  BY <1>2, <1>3, <1>4, <1>5, WithoutRaising

LEMMA CallInvSpeaks ==
    ASSUME AgentInv, LegTypeOK, CallInv, AgentResponseStep, Speaks, speak_gen' = speak_gen + 1
    PROVE  CallInv'
<1>0. /\ TypeInv /\ SafetyInv
      /\ UNCHANGED <<run_task, events, reported, leg, playing, reports>>
      /\ transcript_buffer = <<>>
      /\ ~response_task'.cancelled
      /\ speak_gen \in Nat
      /\ astray \subseteq astray'
      /\ requests \subseteq requests'
      /\ \A request \in requests' \ requests :
            \/ request = SpeakRequest(speak_gen')
            \/ request = HangupRequest /\ hung_up'
      /\ SpeakRequest(speak_gen') \in requests'
  BY ResponseStepFrame
<1>1. /\ response_task.at \in {"new", "llm", "speak"}
      /\ ~response_task.cancelled
      /\ response_task'.at = "speak"
      /\ agent_is_speaking' = TRUE
      /\ UNCHANGED <<barged_in, hung_up, transcript_buffer>>
  BY DEF Speaks
<1>2. leg = "up" /\ speak_gen \notin astray' => ~LatestInFlight /\ ~LatestPlays
  BY QuietAfterwards
<1>3. run_task.at \notin {"reapBarge", "reapTurn"}
  BY <1>0, <1>1 DEF SafetyInv, Interrupting, Live
<1>4. Followed' => run_task.at # "stopPlayback"
  <2> SUFFICES ASSUME leg = "up", speak_gen' \notin astray', run_task.at = "stopPlayback"
               PROVE  FALSE
    BY <1>0 DEF Followed
  <2>1. response_task.at = "speak"
    BY <1>0, <1>1 DEF SafetyInv, Interrupting
  <2>2. SpeakRaises
    BY <2>1, WithoutRaising DEF Speaks, Finishes
  <2>3. speak_gen' \in Nat /\ speak_gen' >= speak_gen
    BY <1>0
  <2> QED
    BY <1>0, <2>2, <2>3, RaisedIsAstray
<1>5. RequestsFit'
  <2>1. ASSUME NEW request \in requests
        PROVE  /\ request.type = "speak" => request.n <= speak_gen'
               /\ request.type = "speak" /\ leg' = "up" => request.n \in astray'
               /\ request.type = "stop" => run_task'.at = "stopPlayback" /\ ~Followed'
               /\ request.type = "late" /\ leg' = "up" => request.n \in astray'
               /\ request.type = "hangup" => hung_up'
    <3>1. request.n \in Nat /\ request \in RequestSet
      BY DEF LegTypeOK, RequestSet
    <3>2. ASSUME request.type = "speak", leg = "up" PROVE request.n \in astray'
      <4>1. CASE request.n = speak_gen
        <5>1. request = SpeakRequest(speak_gen)
          BY <3>1, <3>2, <4>1 DEF RequestSet, SpeakRequest
        <5> QED
          BY <1>2, <3>2, <4>1, <5>1 DEF LatestInFlight
      <4> QED
        BY <1>0, <3>2, <4>1 DEF CallInv, RequestsFit
    <3> QED
      BY <1>0, <1>1, <1>4, <3>1, <3>2 DEF CallInv, RequestsFit
  <2>2. ASSUME NEW request \in requests' \ requests
        PROVE  /\ request.type = "speak" => request.n = speak_gen'
               /\ request.type \notin {"stop", "late"}
               /\ request.type = "hangup" => hung_up'
    BY <1>0, <2>2 DEF SpeakRequest, HangupRequest
  <2>3. speak_gen' <= speak_gen'
    BY <1>0
  <2> QED
    BY <2>1, <2>2, <2>3 DEF RequestsFit
<1>6. /\ \A i \in 1..Len(playing) : playing[i] <= speak_gen /\ playing[i] \in Nat
      /\ playing # <<>> => leg = "up"
  BY DEF CallInv, PlayingFits, LegTypeOK
<1>7. PlayingFits'
  <2>1. ASSUME NEW i \in 1..Len(playing)
        PROVE  playing[i] <= speak_gen' /\ playing[i] \in astray'
    <3>1. leg = "up"
      <4>1. playing # <<>>
        BY <2>1
      <4> QED
        BY <1>6, <4>1
    <3>2. playing[i] \in astray'
      <4>1. CASE playing[i] = speak_gen
        BY <1>0, <1>2, <2>1, <3>1, <4>1 DEF LatestPlays
      <4>2. CASE playing[i] # speak_gen
        <5>1. playing[i] \in astray
          BY <2>1, <4>2 DEF CallInv, PlayingFits
        <5> QED
          BY <1>0, <5>1
      <4> QED
        BY <4>1, <4>2
    <3>3. playing[i] <= speak_gen'
      BY <1>0, <1>6, <2>1
    <3> QED
      BY <3>2, <3>3
  <2> QED
    BY <1>0, <1>6, <2>1 DEF PlayingFits
<1>8. ~LatestPlays'
  BY <1>0, <1>6 DEF LatestPlays
<1>9. ReportsFit' /\ reported' # speak_gen' /\ speak_gen' \notin reports'
  <2>1. reported \in Nat /\ reports \subseteq Nat
    BY <1>0 DEF TypeInv, TypeOK, LegTypeOK
  <2> QED
    BY <1>0, <1>1, <2>1 DEF CallInv, ReportsFit
<1>10. LatestInFlight'
  BY <1>0 DEF LatestInFlight
<1>11. AgentKnows'
  BY <1>0, <1>1, <1>3, <1>4, <1>8, <1>9, <1>10 DEF AgentKnows
<1>12. ListensInTheLoop' /\ CancelledIsReaped'
  BY <1>0, <1>1, <1>3 DEF CallInv, ListensInTheLoop, CancelledIsReaped
<1> QED
  BY <1>5, <1>7, <1>9, <1>11, <1>12 DEF CallInv

LEMMA CallInvFinishes ==
    ASSUME AgentInv, LegTypeOK, CallInv, AgentResponseStep, Finishes, speak_gen' = speak_gen
    PROVE  CallInv'
<1>0. /\ TypeInv /\ SafetyInv
      /\ UNCHANGED <<run_task, events, reported, leg, playing, reports>>
      /\ ~response_task'.cancelled
      /\ speak_gen \in Nat
      /\ astray \subseteq astray'
      /\ requests \subseteq requests'
      /\ \A request \in requests' \ requests : request = HangupRequest /\ hung_up'
  BY ResponseStepFrame
<1>1. /\ response_task'.at = IF ending THEN "hangup" ELSE "ended"
      /\ agent_is_speaking' = FALSE
      /\ barged_in' = FALSE
      /\ hung_up' = (hung_up \/ ending)
      /\ transcript_buffer' = <<>>
  BY DEF Finishes
<1>2. /\ LatestInFlight' = LatestInFlight
      /\ LatestPlays' = LatestPlays
      /\ Followed' => Followed
  BY <1>0 DEF LatestInFlight, LatestPlays, Followed, SpeakRequest, HangupRequest
<1>3. Followed' => ~LatestInFlight' /\ ~LatestPlays'
  BY <1>0, <1>2, QuietAfterwards DEF Followed
<1>4. RequestsFit'
  <2>1. \A request \in requests' \ requests : request.type = "hangup" /\ hung_up'
    BY <1>0 DEF HangupRequest
  <2> QED
    BY <1>0, <1>1, <1>2, <2>1 DEF CallInv, RequestsFit
<1>5. PlayingFits'
  BY <1>0 DEF CallInv, PlayingFits
<1>6. ReportsFit'
  BY <1>0, <1>1 DEF CallInv, ReportsFit
<1>7. AgentKnows'
  BY <1>1, <1>3 DEF AgentKnows
<1>8. ListensInTheLoop' /\ CancelledIsReaped'
  BY <1>0, <1>1 DEF CallInv, ListensInTheLoop, CancelledIsReaped
<1> QED
  BY <1>4, <1>5, <1>6, <1>7, <1>8 DEF CallInv

\* A response step that goes on from its speak command knows that the leg took it.
LEMMA GoesOnToPlay ==
    ASSUME AgentInv, AgentResponseStep, GoesOn, response_task.at = "speak"
    PROVE  ~LatestInFlight
<1>0. response_task \in ResponseTaskSet
  BY DEF AgentInv, TypeInv, TypeOK
<1>1. response_task'.at = "play"
  BY DEF GoesOn
<1>2. CASE SpeakReturns
  BY <1>2 DEF SpeakReturns, LatestInFlight
<1>3. CASE ResponseGoesOn
  <2>1. ResponseCancelled
    BY <1>3 DEF ResponseGoesOn
  <2> QED
    BY <1>1, <2>1 DEF ResponseCancelled, GoesOn
<1>4. CASE ResponseHangsUp \/ WaitEnds \/ WaitExpires
  BY <1>4 DEF ResponseHangsUp, ResponseHangupReturns, WaitEnds, WaitExpires, PlaybackEnds,
              PlaybackTimesOut, Resumes
<1>5. CASE SpeakRaises
  <2>1. \/ \E full, exit : Finish(full, exit)
        \/ Speak([response_task EXCEPT !.fallback = TRUE])
    BY <1>5, Zenon DEF SpeakRaises, SpeakFails
  <2>2. response_task'.at # "play"
    BY <1>0, <2>1 DEF Finish, Speak, ResponseTaskSet
  <2> QED
    BY <1>1, <2>2
<1> QED
  BY <1>2, <1>3, <1>4, <1>5 DEF AgentResponseStep

LEMMA CallInvGoesOn ==
    ASSUME AgentInv, LegTypeOK, CallInv, AgentResponseStep, GoesOn, speak_gen' = speak_gen
    PROVE  CallInv'
<1>0. /\ TypeInv /\ SafetyInv
      /\ UNCHANGED <<run_task, events, reported, leg, playing, reports>>
      /\ ~response_task'.cancelled
      /\ speak_gen \in Nat
      /\ astray \subseteq astray'
      /\ requests \subseteq requests'
      /\ \A request \in requests' \ requests : request = HangupRequest /\ hung_up'
      /\ heard => heard'
      /\ StopsInFlight' = StopsInFlight
  BY ResponseStepFrame
<1>1. /\ UNCHANGED <<agent_is_speaking, barged_in, hung_up, transcript_buffer>>
      /\ \/ response_task.at \in {"new", "llm", "hangup"}
            /\ response_task'.at \in {"llm", "ended"}
         \/ response_task.at = "speak" /\ response_task'.at = "play" /\ ~LatestInFlight
  BY GoesOnToPlay DEF GoesOn
<1>2. /\ LatestInFlight' = LatestInFlight
      /\ LatestPlays' = LatestPlays
      /\ Followed' => Followed
  BY <1>0 DEF LatestInFlight, LatestPlays, Followed, SpeakRequest, HangupRequest
<1>3. RequestsFit'
  <2>1. \A request \in requests' \ requests : request.type = "hangup" /\ hung_up'
    BY <1>0 DEF HangupRequest
  <2> QED
    BY <1>0, <1>1, <1>2, <2>1 DEF CallInv, RequestsFit
<1>4. PlayingFits'
  BY <1>0 DEF CallInv, PlayingFits
<1>5. ReportsFit'
  BY <1>0, <1>1, <1>2 DEF CallInv, ReportsFit
<1>6. AgentKnows'
  <2> SUFFICES ASSUME Followed', Followed, AgentKnows PROVE AgentKnows'
    BY <1>2 DEF AgentKnows, CallInv
  <2>1. CASE response_task.at \in {"new", "llm", "hangup"}
    <3>1. ~LatestInFlight /\ ~LatestPlays
      BY <2>1 DEF AgentKnows
    <3>2. response_task'.at \notin {"speak", "play"}
      BY <1>1, <2>1
    <3>3. run_task'.at \in {"stopPlayback", "reapBarge"} => ~agent_is_speaking'
      BY <1>0, <1>1 DEF AgentKnows
    <3> QED
      BY <1>2, <3>1, <3>2, <3>3 DEF AgentKnows
  <2>2. CASE response_task.at = "speak"
    BY <1>0, <1>1, <1>2, <2>2 DEF AgentKnows
  <2> QED
    BY <1>1, <2>1, <2>2
<1>7. ListensInTheLoop' /\ CancelledIsReaped'
  BY <1>0, <1>1 DEF CallInv, ListensInTheLoop, CancelledIsReaped
<1> QED
  BY <1>3, <1>4, <1>5, <1>6, <1>7 DEF CallInv

LEMMA CallInvResponseStep ==
    ASSUME AgentInv, LegTypeOK, CallInv, AgentResponseStep
    PROVE  CallInv'
<1>1. \/ Speaks /\ speak_gen' = speak_gen + 1
      \/ Finishes /\ speak_gen' = speak_gen
      \/ GoesOn /\ speak_gen' = speak_gen
  BY ResponseStepOfCall, ResponseStepGeneration DEF AgentInv
<1> QED
  BY <1>1, CallInvSpeaks, CallInvFinishes, CallInvGoesOn

-----------------------------------------------------------------------------
\* What the leg has taken last is at the end of what it plays.
LEMMA TakenIsLast ==
    ASSUME NEW p \in Seq(Nat), NEW n \in Nat
    PROVE  /\ Append(p, n) # <<>>
           /\ \A i \in 1..Len(Append(p, n)) :
                 \/ i \in 1..Len(p) /\ Append(p, n)[i] = p[i]
                 \/ i = Len(p) + 1 /\ Append(p, n)[i] = n
           /\ \A i \in 1..Len(p) : i \in 1..Len(Append(p, n)) /\ Append(p, n)[i] = p[i]
           /\ Len(Append(p, n)) = Len(p) + 1 /\ Append(p, n)[Len(p) + 1] = n
           /\ Len(p) \in Nat /\ (p = <<>> => Len(p) = 0)
<1>1. /\ Len(Append(p, n)) = Len(p) + 1 /\ Append(p, n)[Len(p) + 1] = n
      /\ \A i \in 1..Len(p) : Append(p, n)[i] = p[i]
      /\ Len(p) \in Nat
  OBVIOUS
<1>2. p = <<>> => Len(p) = 0
  OBVIOUS
<1>3. Append(p, n) # <<>>
  OBVIOUS
<1> DEFINE longer == Append(p, n)
           k == Len(p)
<1> HIDE DEF longer, k
<1>4. \A i \in 1..k + 1 : i \in 1..k \/ i = k + 1
  BY <1>1 DEF k
<1>5. \A i \in 1..k : i \in 1..k + 1
  BY <1>1 DEF k
<1> QED
  BY <1>1, <1>2, <1>3, <1>4, <1>5 DEF longer, k

LEMMA CallInvTakesSpeak ==
    ASSUME AgentInv, LegTypeOK, CallInv, LegTakesSpeak
    PROVE  CallInv'
<1> USE DEF vars, conversation, speech, status, environment
<1>1. PICK request \in requests :
          /\ request.type = "speak"
          /\ requests' = requests \ {request}
          /\ playing' = Append(playing, request.n)
          /\ astray' = IF playing = <<>> THEN astray ELSE astray \cup {request.n}
  BY DEF LegTakesSpeak
<1>2. UNCHANGED <<vars, leg, heard, reports, hangup_failed>> /\ leg = "up"
  BY DEF LegTakesSpeak
<1>3. request.n \in Nat /\ request \in RequestSet /\ speak_gen \in Nat /\ playing \in Seq(Nat)
  BY <1>1 DEF AgentInv, TypeInv, TypeOK, LegTypeOK, RequestSet
<1>4. /\ astray \subseteq astray'
      /\ playing # <<>> => request.n \in astray'
      /\ request.n <= speak_gen
      /\ request.n = speak_gen \/ request.n \in astray
  BY <1>1, <1>2 DEF CallInv, RequestsFit
<1>5. Followed' => Followed
  BY <1>2, <1>4 DEF Followed
<1>6. RequestsFit'
  BY <1>1, <1>2, <1>4, <1>5 DEF CallInv, RequestsFit
<1>7. /\ playing' # <<>>
      /\ \A i \in 1..Len(playing') :
            \/ i \in 1..Len(playing) /\ playing'[i] = playing[i]
            \/ i = Len(playing) + 1 /\ playing'[i] = request.n
      /\ \A i \in 1..Len(playing) : i \in 1..Len(playing') /\ playing'[i] = playing[i]
      /\ Len(playing) + 1 \in 1..Len(playing') /\ playing'[Len(playing) + 1] = request.n
      /\ playing = <<>> => Len(playing) = 0
  <2>1. Len(playing) + 1 \in 1..Len(Append(playing, request.n))
    BY <1>3, TakenIsLast
  <2> QED
    BY <1>1, <1>3, <2>1, TakenIsLast
<1>8. PlayingFits'
  <2>1. ASSUME NEW i \in 1..Len(playing')
        PROVE  /\ playing'[i] <= speak_gen
               /\ playing'[i] \notin astray' => i = 1 /\ playing'[i] = speak_gen
    <3>1. CASE i \in 1..Len(playing) /\ playing'[i] = playing[i]
      BY <1>4, <3>1 DEF CallInv, PlayingFits
    <3>2. CASE i = Len(playing) + 1 /\ playing'[i] = request.n
      BY <1>4, <1>7, <3>2
    <3> QED
      BY <1>7, <2>1, <3>1, <3>2
  <2> QED
    BY <1>2, <2>1 DEF PlayingFits
<1>9. LatestInFlight' => LatestInFlight
  BY <1>1, <1>2 DEF LatestInFlight, SpeakRequest
<1>10. ReportsFit'
  BY <1>2, <1>9 DEF CallInv, ReportsFit
<1>11. StopsInFlight' = StopsInFlight
  BY <1>1 DEF StopsInFlight
<1>12. Followed' => /\ LatestPlays' => LatestPlays \/ LatestInFlight
                    /\ LatestPlays' => ~LatestInFlight'
                    /\ LatestInFlight \/ LatestPlays => LatestInFlight' \/ LatestPlays'
  <2> SUFFICES ASSUME Followed'
               PROVE  /\ LatestPlays' => LatestPlays \/ LatestInFlight
                      /\ LatestPlays' => ~LatestInFlight'
                      /\ LatestInFlight \/ LatestPlays => LatestInFlight' \/ LatestPlays'
    OBVIOUS
  <2>1. request.n = speak_gen => request = SpeakRequest(speak_gen)
    BY <1>1, <1>3 DEF RequestSet, SpeakRequest
  <2>2. LatestPlays' => LatestPlays \/ request.n = speak_gen
    BY <1>2, <1>7 DEF LatestPlays
  <2>3. request.n = speak_gen => LatestInFlight /\ ~LatestInFlight'
    BY <1>1, <1>2, <2>1 DEF LatestInFlight
  <2>4. LatestPlays => ~LatestInFlight'
    BY <1>5, <1>9 DEF CallInv, AgentKnows
  <2>5. LatestInFlight => LatestInFlight' \/ LatestPlays'
    <3>1. CASE request.n = speak_gen
      BY <1>2, <1>7, <3>1 DEF LatestPlays
    <3>2. CASE request.n # speak_gen
      BY <1>1, <1>2, <3>2 DEF LatestInFlight, SpeakRequest
    <3> QED
      BY <3>1, <3>2
  <2>6. LatestPlays => LatestPlays'
    BY <1>2, <1>7 DEF LatestPlays
  <2> QED
    BY <2>2, <2>3, <2>4, <2>5, <2>6
<1>13. AgentKnows'
  BY <1>2, <1>5, <1>9, <1>11, <1>12 DEF CallInv, AgentKnows
<1>14. ListensInTheLoop' /\ CancelledIsReaped'
  BY <1>2 DEF CallInv, ListensInTheLoop, CancelledIsReaped, Live, Reaping
<1> QED
  BY <1>6, <1>8, <1>10, <1>13, <1>14 DEF CallInv

LEMMA CallInvDropped ==
    ASSUME AgentInv, CallInv, CommandIsDropped
    PROVE  CallInv'
<1> USE DEF vars, conversation, speech, status, environment, carrier, mishaps
<1>1. /\ requests' \subseteq requests
      /\ UNCHANGED <<vars, carrier, heard, mishaps>>
      /\ \A request \in requests \ requests' : request \notin Awaited
  BY DEF CommandIsDropped
<1>2. Followed' = Followed /\ LatestPlays' = LatestPlays /\ StopsInFlight' = StopsInFlight
  <2>1. \A request \in requests : request.type = "stop" => request \in Awaited
    BY DEF Awaited, StopsInFlight
  <2>2. StopsInFlight' = StopsInFlight
    BY <1>1, <2>1 DEF StopsInFlight
  <2> QED
    BY <1>1, <2>2 DEF Followed, LatestPlays
<1>3. LatestInFlight' => LatestInFlight
  BY <1>1 DEF LatestInFlight
<1>4. response_task.at = "speak" /\ LatestInFlight => LatestInFlight'
  BY <1>1 DEF LatestInFlight, Awaited
<1>5. response_task.at = "play" => ~LatestInFlight
  BY DEF CallInv, ReportsFit
<1>6. RequestsFit' /\ PlayingFits'
  BY <1>1, <1>2 DEF CallInv, RequestsFit, PlayingFits, Followed
<1>7. ReportsFit'
  BY <1>1, <1>3 DEF CallInv, ReportsFit
<1>8. AgentKnows'
  BY <1>1, <1>2, <1>3, <1>4, <1>5 DEF CallInv, AgentKnows
<1>9. ListensInTheLoop' /\ CancelledIsReaped'
  BY <1>1 DEF CallInv, ListensInTheLoop, CancelledIsReaped, Live, Reaping
<1> QED
  BY <1>6, <1>7, <1>8, <1>9 DEF CallInv

\* What is left of what the leg plays when its first is taken away.
LEMMA RestHasGoneAstray ==
    ASSUME LegTypeOK, CallInv, playing # <<>>
    PROVE  /\ playing[1] \in Nat /\ playing[1] <= speak_gen /\ leg = "up"
           /\ playing[1] \notin astray => playing[1] = speak_gen
           /\ \A i \in 1..Len(Tail(playing)) :
                 Tail(playing)[i] <= speak_gen /\ Tail(playing)[i] \in astray
           /\ LatestPlays /\ speak_gen \notin astray => playing[1] = speak_gen
<1>1. 1 \in 1..Len(playing) /\ playing[1] \in Nat
  BY DEF LegTypeOK
<1>2. \A i \in 1..Len(Tail(playing)) :
         i + 1 \in 1..Len(playing) /\ i + 1 # 1 /\ Tail(playing)[i] = playing[i + 1]
  BY DEF LegTypeOK
<1>3. \A i \in 1..Len(playing) :
         /\ playing[i] <= speak_gen
         /\ playing[i] \notin astray => i = 1 /\ playing[i] = speak_gen
  BY DEF CallInv, PlayingFits
<1>4. leg = "up"
  BY DEF CallInv, PlayingFits
<1>5. LatestPlays /\ speak_gen \notin astray => playing[1] = speak_gen
  BY <1>3 DEF LatestPlays
<1> QED
  BY <1>1, <1>2, <1>3, <1>4, <1>5

LEMMA CallInvStops ==
    ASSUME AgentInv, LegTypeOK, CallInv, LegStops
    PROVE  CallInv'
<1> USE DEF vars, conversation, speech, status, environment
<1>1. PICK stop \in requests :
          /\ stop.type \in {"stop", "late"}
          /\ requests' = requests \ {stop}
          /\ astray' = astray \cup (Current \ {stop.n}) \cup ({stop.n} \ Current)
  BY DEF LegStops
<1>2. /\ UNCHANGED <<vars, leg, heard, hangup_failed>>
      /\ leg = "up"
      /\ playing' = IF playing = <<>> THEN <<>> ELSE Tail(playing)
      /\ reports' = reports \cup Current
  BY DEF LegStops
<1>3. /\ playing = <<>> => Current = {}
      /\ playing # <<>> => Current = {playing[1]}
  BY CurrentIsHead DEF LegTypeOK
<1>4. astray \subseteq astray' /\ (Followed' => Followed)
  BY <1>1, <1>2 DEF Followed
<1>5. /\ LatestInFlight' = LatestInFlight
      /\ stop.type = "stop" => run_task.at = "stopPlayback"
      /\ stop.type = "stop" /\ Followed => stop.n = speak_gen
      /\ stop.type = "late" => stop.n \in astray
  BY <1>1, <1>2 DEF LatestInFlight, SpeakRequest, CallInv, RequestsFit
<1>6. \A i \in 1..Len(playing') : playing'[i] <= speak_gen /\ playing'[i] \in astray
  <2>1. CASE playing = <<>>
    <3>1. 1..Len(playing') = {}
      BY <1>2, <2>1
    <3> QED
      BY <3>1
  <2>2. CASE playing # <<>>
    BY <1>2, <2>2, RestHasGoneAstray
  <2> QED
    BY <2>1, <2>2
<1>7. RequestsFit'
  BY <1>1, <1>2, <1>4 DEF CallInv, RequestsFit
<1>8. PlayingFits'
  BY <1>2, <1>4, <1>6 DEF PlayingFits
<1>9. ReportsFit'
  <2>1. \A generation \in Current : generation <= speak_gen
    BY <1>3, RestHasGoneAstray
  <2> QED
    BY <1>2, <1>5, <2>1 DEF CallInv, ReportsFit
<1>10. Followed' => ~LatestPlays'
  BY <1>2, <1>4, <1>6 DEF Followed, LatestPlays
<1>11. Followed' => /\ LatestInFlight => speak_gen \notin Current /\ stop.type = "late"
                    /\ LatestPlays => Current = {speak_gen} /\ stop.type = "stop"
  <2> SUFFICES ASSUME Followed'
               PROVE  /\ LatestInFlight => speak_gen \notin Current /\ stop.type = "late"
                      /\ LatestPlays => Current = {speak_gen} /\ stop.type = "stop"
    OBVIOUS
  <2>1. Followed /\ AgentKnows /\ speak_gen \notin astray /\ speak_gen \notin astray'
    BY <1>2, <1>4 DEF CallInv, Followed
  <2>2. ASSUME LatestInFlight PROVE speak_gen \notin Current /\ stop.type = "late"
    <3>1. ~LatestPlays
      BY <2>1, <2>2 DEF AgentKnows
    <3>2. speak_gen \notin Current
      <4>1. CASE playing # <<>>
        <5>1. 1 \in 1..Len(playing)
          BY <4>1 DEF LegTypeOK
        <5> QED
          BY <1>3, <3>1, <4>1, <5>1 DEF LatestPlays
      <4> QED
        BY <1>3, <4>1
    <3>3. stop.n # speak_gen
      BY <1>1, <2>1, <3>2
    <3> QED
      BY <1>1, <1>5, <2>1, <3>2, <3>3
  <2>3. ASSUME LatestPlays PROVE Current = {speak_gen} /\ stop.type = "stop"
    <3>1. playing # <<>>
      BY <2>3 DEF LatestPlays
    <3>2. Current = {speak_gen}
      BY <1>3, <2>1, <2>3, <3>1, RestHasGoneAstray
    <3>3. stop.n = speak_gen
      BY <1>1, <2>1, <3>2
    <3> QED
      BY <1>1, <1>5, <2>1, <3>2, <3>3
  <2> QED
    BY <2>2, <2>3
<1>12. agent_is_speaking \/ barged_in <=> response_task.at \in {"speak", "play"}
  BY DEF AgentInv, SafetyInv, SpeakingFlagsTrackTheTask
<1>13. stop.type = "late" => StopsInFlight' = StopsInFlight
  BY <1>1 DEF StopsInFlight
<1>14. AgentKnows'
  <2> SUFFICES ASSUME Followed' PROVE AgentKnows'
    BY DEF AgentKnows
  <2>1. Followed /\ AgentKnows
    BY <1>4 DEF CallInv
  <2>2. ASSUME LatestInFlight'
        PROVE  /\ response_task'.at \in {"speak", "play"}
               /\ agent_is_speaking' \/ StopsInFlight' # {}
               /\ speak_gen' \notin reports'
               /\ reported' # speak_gen'
    <3>1. LatestInFlight
      BY <1>5, <2>2, Zenon
    <3> QED
      BY <1>2, <1>11, <1>13, <2>1, <3>1 DEF AgentKnows
  <2>3. run_task'.at \in {"stopPlayback", "reapBarge"} => ~agent_is_speaking'
    BY <1>2, <2>1 DEF AgentKnows
  <2>4. ASSUME response_task'.at \in {"speak", "play"}, ~barged_in'
        PROVE  LatestInFlight' \/ LatestPlays' \/ heard'
    <3>1. ~LatestPlays
      <4>1. LatestPlays => run_task.at = "stopPlayback"
        BY <1>5, <1>11
      <4>2. LatestPlays => ~agent_is_speaking
        BY <2>1, <4>1 DEF AgentKnows
      <4> QED
        BY <1>2, <1>12, <2>4, <4>2
    <3>2. LatestInFlight \/ heard
      BY <1>2, <2>1, <2>4, <3>1 DEF AgentKnows
    <3> QED
      BY <1>2, <1>5, <3>2, Zenon
  <2> QED
    BY <1>10, <2>2, <2>3, <2>4 DEF AgentKnows
<1>15. ListensInTheLoop' /\ CancelledIsReaped'
  BY <1>2 DEF CallInv, ListensInTheLoop, CancelledIsReaped, Live, Reaping
<1> QED
  BY <1>7, <1>8, <1>9, <1>14, <1>15 DEF CallInv

LEMMA CallInvPlaysOut ==
    ASSUME AgentInv, LegTypeOK, CallInv, LegFinishes
    PROVE  CallInv'
<1> USE DEF vars, conversation, speech, status, environment, mishaps
<1>1. /\ UNCHANGED <<vars, requests, leg, mishaps>>
      /\ playing # <<>>
      /\ playing' = Tail(playing)
  BY DEF LegFinishes
<1>2. /\ Head(playing) = playing[1] /\ 1 \in 1..Len(playing)
      /\ reports' = reports \cup {playing[1]}
  BY <1>1, CurrentIsHead DEF LegFinishes, LegTypeOK
<1>3. /\ heard => heard'
      /\ playing[1] = speak_gen => heard'
  BY <1>2, Zenon DEF LegFinishes
<1>4. /\ playing[1] \in Nat /\ playing[1] <= speak_gen /\ leg = "up"
      /\ playing[1] \notin astray => playing[1] = speak_gen
      /\ \A i \in 1..Len(playing') : playing'[i] <= speak_gen /\ playing'[i] \in astray
      /\ LatestPlays /\ speak_gen \notin astray => playing[1] = speak_gen
  BY <1>1, RestHasGoneAstray
<1>5. /\ LatestInFlight' = LatestInFlight
      /\ StopsInFlight' = StopsInFlight
      /\ Followed' = Followed
  BY <1>1 DEF LatestInFlight, StopsInFlight, Followed
<1>6. RequestsFit'
  BY <1>1, <1>5 DEF CallInv, RequestsFit
<1>7. PlayingFits'
  BY <1>1, <1>4 DEF PlayingFits
<1>8. ReportsFit'
  BY <1>1, <1>2, <1>4, <1>5 DEF CallInv, ReportsFit
<1>9. AgentKnows'
  <2> SUFFICES ASSUME Followed, AgentKnows PROVE AgentKnows'
    BY <1>5 DEF CallInv, AgentKnows
  <2>1. ~LatestPlays'
    BY <1>1, <1>4 DEF LatestPlays, Followed
  <2>2. LatestPlays => heard'
    BY <1>3, <1>4 DEF Followed
  <2>3. LatestInFlight => playing[1] # speak_gen
    BY <1>2 DEF AgentKnows, LatestPlays
  <2>4. LatestInFlight =>
          /\ response_task'.at \in {"speak", "play"}
          /\ agent_is_speaking' \/ StopsInFlight' # {}
          /\ speak_gen' \notin reports'
          /\ reported' # speak_gen'
    BY <1>1, <1>2, <1>5, <2>3 DEF AgentKnows
  <2>5. run_task'.at \in {"stopPlayback", "reapBarge"} => ~agent_is_speaking'
    BY <1>1 DEF AgentKnows
  <2>6. ASSUME response_task'.at \in {"speak", "play"}, ~barged_in'
        PROVE  LatestInFlight' \/ LatestPlays' \/ heard'
    <3>1. LatestInFlight \/ LatestPlays \/ heard
      BY <1>1, <2>6 DEF AgentKnows
    <3> QED
      BY <1>3, <1>5, <2>2, <3>1, Zenon
  <2>7. LatestInFlight' => LatestInFlight
    BY <1>5, Zenon
  <2> QED
    BY <2>1, <2>4, <2>5, <2>6, <2>7 DEF AgentKnows
<1>10. ListensInTheLoop' /\ CancelledIsReaped'
  BY <1>1 DEF CallInv, ListensInTheLoop, CancelledIsReaped, Live, Reaping
<1> QED
  BY <1>6, <1>7, <1>8, <1>9, <1>10 DEF CallInv

LEMMA CallInvGoesDown ==
    ASSUME AgentInv, CallInv, LegHangsUp \/ CallerHangsUp
    PROVE  CallInv'
<1> USE DEF vars, conversation, speech, status, environment
<1>1. /\ UNCHANGED <<vars, reports, hangup_failed>>
      /\ requests' \subseteq requests
      /\ leg' = "down"
      /\ playing' = <<>>
  BY DEF LegHangsUp, CallerHangsUp, LegGoesDown
<1>2. ~Followed'
  BY <1>1 DEF Followed
<1>3. RequestsFit'
  BY <1>1, <1>2 DEF CallInv, RequestsFit
<1>4. PlayingFits'
  <2>1. 1..Len(playing') = {}
    BY <1>1
  <2> QED
    BY <1>1, <2>1 DEF PlayingFits
<1>5. ReportsFit'
  BY <1>1 DEF CallInv, ReportsFit, LatestInFlight
<1>6. AgentKnows'
  BY <1>2 DEF AgentKnows
<1>7. ListensInTheLoop' /\ CancelledIsReaped'
  BY <1>1 DEF CallInv, ListensInTheLoop, CancelledIsReaped, Live, Reaping
<1> QED
  BY <1>3, <1>4, <1>5, <1>6, <1>7 DEF CallInv

\* A webhook puts items on the queue; a report of an end is of a generation that
\* the leg has ended, and a hangup is of a leg that is down.
LEMMA WebhookSubmits ==
    ASSUME AgentInv, LegTypeOK, CallInv, CallerSpeaks \/ ReportArrives \/ HangupArrives
    PROVE  /\ UNCHANGED <<run_task, response_task, transcript_buffer, agent_is_speaking,
                          barged_in, speak_gen, hung_up>>
           /\ UNCHANGED <<requests, leg, playing, heard, mishaps>>
           /\ reports' \subseteq reports
           /\ reported' = reported \/ reported' \in reports
           /\ \A i \in 1..Len(events') : events'[i].type = "hangup" => leg = "down"
<1> USE DEF conversation, speech, status, environment, carrier, mishaps
<1>0. events \in Seq(ItemSet) /\ speak_gen \in Nat /\ finals \in Nat
  BY DEF AgentInv, TypeInv, TypeOK
<1>1. \A i \in 1..Len(events) : events[i].type = "hangup" => leg = "down"
  BY DEF CallInv, CancelledIsReaped
<1>2. ASSUME NEW items \in Seq(ItemSet), events' = events \o items,
             \A j \in 1..Len(items) : items[j].type = "hangup" => leg = "down"
      PROVE  \A i \in 1..Len(events') : events'[i].type = "hangup" => leg = "down"
  <2>1. \A i \in 1..Len(events') :
           IF i <= Len(events) THEN i \in 1..Len(events) /\ events'[i] = events[i]
           ELSE i - Len(events) \in 1..Len(items) /\ events'[i] = items[i - Len(events)]
    BY <1>0, <1>2
  <2> QED
    BY <1>1, <1>2, <2>1
<1>3. CASE CallerSpeaks
  <2>1. PICK items \in {<<Item("final", finals + 1), Item("uend", 0)>>, <<Item("interim", 0)>>} :
            events' = events \o items /\ Submits(items)
    BY <1>3 DEF CallerSpeaks, SubmitFinal, SubmitInterim, Submits
  <2>2. items \in Seq(ItemSet) /\ \A j \in 1..Len(items) : items[j].type # "hangup"
    <3> DEFINE final == Item("final", finals + 1)
               uend == Item("uend", 0)
               interim == Item("interim", 0)
    <3>1. /\ final \in ItemSet /\ uend \in ItemSet /\ interim \in ItemSet
          /\ final.type = "final" /\ uend.type = "uend" /\ interim.type = "interim"
      BY <1>0 DEF Item, ItemSet
    <3> HIDE DEF final, uend, interim
    <3>2. /\ <<final, uend>> \in Seq(ItemSet)
          /\ \A j \in 1..Len(<<final, uend>>) : <<final, uend>>[j].type # "hangup"
      BY <3>1
    <3>3. /\ <<interim>> \in Seq(ItemSet)
          /\ \A j \in 1..Len(<<interim>>) : <<interim>>[j].type # "hangup"
      BY <3>1
    <3>4. items = <<final, uend>> \/ items = <<interim>>
      BY <2>1, Zenon DEF final, uend, interim
    <3> QED
      BY <3>2, <3>3, <3>4
  <2>3. \A i \in 1..Len(events') : events'[i].type = "hangup" => leg = "down"
    BY <1>2, <2>1, <2>2
  <2>4. reported' = reported
    BY <1>3 DEF CallerSpeaks, SubmitFinal, SubmitInterim
  <2> QED
    BY <1>3, <2>1, <2>3, <2>4 DEF CallerSpeaks, Submits
<1>4. CASE ReportArrives
  <2>1. PICK generation \in {0} \cup (speak_gen - 1 .. speak_gen) :
            /\ generation >= 0
            /\ Submits(<<Item("ended", generation)>>)
            /\ reported' = IF generation > reported THEN generation ELSE reported
    BY <1>4 DEF ReportArrives, SubmitSpeakEnded
  <2>2. generation \in Nat /\ events' = events \o <<Item("ended", generation)>>
    BY <1>0, <2>1 DEF Submits
  <2>3. <<Item("ended", generation)>> \in Seq(ItemSet)
    BY <2>2 DEF Item, ItemSet
  <2>4. Last(events').n = generation
    <3>1. Len(events') = Len(events) + 1
      BY <1>0, <2>2, <2>3
    <3>2. events'[Len(events')] = Item("ended", generation)
      BY <1>0, <2>2, <2>3, <3>1
    <3> QED
      BY <3>2 DEF Last, Item
  <2>5. \A i \in 1..Len(events') : events'[i].type = "hangup" => leg = "down"
    <3>1. \A j \in 1..Len(<<Item("ended", generation)>>) :
             <<Item("ended", generation)>>[j].type # "hangup"
      BY DEF Item
    <3> QED
      BY <1>2, <2>2, <2>3, <3>1
  <2> QED
    BY <1>4, <2>1, <2>4, <2>5 DEF ReportArrives, Submits
<1>5. CASE HangupArrives
  <2>1. leg = "down" /\ Submits(<<Item("hangup", 0)>>) /\ reported' = reported
    BY <1>5 DEF HangupArrives, SubmitHangup
  <2> QED
    BY <1>5, <2>1 DEF HangupArrives, Submits
<1> QED
  BY <1>3, <1>4, <1>5

LEMMA CallInvWebhooks ==
    ASSUME AgentInv, LegTypeOK, CallInv,
           CallerSpeaks \/ ReportArrives \/ HangupArrives \/ ReportIsLost
    PROVE  CallInv'
<1> USE DEF vars, conversation, speech, status, environment, mishaps
<1>1. /\ UNCHANGED <<run_task, response_task, transcript_buffer, agent_is_speaking,
                     barged_in, speak_gen, hung_up>>
      /\ UNCHANGED <<requests, leg, playing, heard, mishaps>>
      /\ reports' \subseteq reports
      /\ reported' = reported \/ reported' \in reports
      /\ \A i \in 1..Len(events') : events'[i].type = "hangup" => leg = "down"
  <2>1. CASE ReportIsLost
    BY <2>1 DEF ReportIsLost, CallInv, CancelledIsReaped
  <2> QED
    BY <2>1, WebhookSubmits
<1>2. /\ LatestInFlight' = LatestInFlight
      /\ LatestPlays' = LatestPlays
      /\ StopsInFlight' = StopsInFlight
      /\ Followed' = Followed
  BY <1>1 DEF LatestInFlight, LatestPlays, StopsInFlight, Followed
<1>3. RequestsFit' /\ PlayingFits'
  BY <1>1, <1>2 DEF CallInv, RequestsFit, PlayingFits
<1>4. ReportsFit'
  BY <1>1, <1>2 DEF CallInv, ReportsFit
<1>5. AgentKnows'
  <2> SUFFICES ASSUME Followed, AgentKnows PROVE AgentKnows'
    BY <1>2 DEF CallInv, AgentKnows
  <2>1. LatestInFlight \/ LatestPlays =>
          /\ response_task'.at \in {"speak", "play"}
          /\ agent_is_speaking' \/ StopsInFlight' # {}
          /\ speak_gen' \notin reports'
          /\ reported' # speak_gen'
    BY <1>1, <1>2 DEF AgentKnows
  <2>2. run_task'.at \in {"stopPlayback", "reapBarge"} => ~agent_is_speaking'
    BY <1>1 DEF AgentKnows
  <2>3. ASSUME response_task'.at \in {"speak", "play"}, ~barged_in'
        PROVE  LatestInFlight \/ LatestPlays \/ heard
    BY <1>1, <2>3 DEF AgentKnows
  <2>4. LatestInFlight => ~LatestPlays
    BY DEF AgentKnows
  <2> QED
    BY <1>1, <1>2, <2>1, <2>2, <2>3, <2>4 DEF AgentKnows
<1>6. ListensInTheLoop' /\ CancelledIsReaped'
  BY <1>1 DEF CallInv, ListensInTheLoop, CancelledIsReaped, Live, Reaping
<1> QED
  BY <1>3, <1>4, <1>5, <1>6 DEF CallInv

LEMMA CallInvStep ==
    ASSUME AgentInv, LegTypeOK, CallInv, [CallNext]_callVars
    PROVE  CallInv'
<1> USE DEF vars, conversation, speech, status, environment, carrier, mishaps
<1>1. CASE LegStep \/ CallerHangsUp
  BY <1>1, CallInvTakesSpeak, CallInvDropped, CallInvStops, CallInvPlaysOut, CallInvGoesDown
     DEF LegStep
<1>2. CASE CallIsOver \/ UNCHANGED callVars
  <2>1. UNCHANGED callVars
    BY <1>2 DEF CallIsOver, Over, callVars
  <2>2. UNCHANGED <<vars, requests, leg, playing, reports, heard, astray, hangup_failed>>
    BY <2>1 DEF callVars
  <2>3. /\ LatestInFlight' = LatestInFlight /\ LatestPlays' = LatestPlays
        /\ StopsInFlight' = StopsInFlight /\ Followed' = Followed
    BY <2>2 DEF LatestInFlight, LatestPlays, StopsInFlight, Followed
  <2>4. RequestsFit' /\ PlayingFits' /\ ReportsFit'
    BY <2>2, <2>3 DEF CallInv, RequestsFit, PlayingFits, ReportsFit
  <2>5. AgentKnows'
    BY <2>2, <2>3 DEF CallInv, AgentKnows
  <2>6. ListensInTheLoop' /\ CancelledIsReaped'
    BY <2>2 DEF CallInv, ListensInTheLoop, CancelledIsReaped, Live, Reaping
  <2> QED
    BY <2>4, <2>5, <2>6 DEF CallInv
<1> QED
  BY <1>1, <1>2, CallInvRunStep, CallInvResponseStep, CallInvWebhooks DEF CallNext

LEMMA CallInvariant == CallSpec => [](AgentInv /\ LegTypeOK /\ CallInv)
<1>1. AgentInv /\ LegTypeOK /\ CallInv /\ [CallNext]_callVars => CallInv'
  BY CallInvStep
<1> QED
  BY <1>1, CallInvInit, AgentInvariant, LegTypeInvariant, PTL DEF CallSpec

\* What plays and has not gone astray is the latest speak, which the agent follows.
LEMMA HeardIsFollowed ==
    ASSUME LegTypeOK, CallInv, NEW i \in 1..Len(playing), playing[i] \notin astray
    PROVE  Followed /\ LatestPlays
<1>1. playing # <<>>
  OBVIOUS
<1>2. leg = "up" /\ playing[i] = speak_gen
  BY <1>1 DEF CallInv, PlayingFits
<1> QED
  BY <1>2 DEF Followed, LatestPlays

\* What the caller hears the caller can interrupt, unless it has gone astray or the
\* call is ending (agent.py:199-210): whatever was interrupted, superseded, failed
\* or overtaken before, the agent knows of every other speak that it speaks.
THEOREM EverythingHeardIsInterruptible == CallSpec => []SpeechIsInterruptible
<1>1. LegTypeOK /\ CallInv => SpeechIsInterruptible
  BY HeardIsFollowed DEF CallInv, AgentKnows, SpeechIsInterruptible
<1> QED
  BY <1>1, CallInvariant, PTL

\* The leg is never given a speak while it still plays another one, unless one of
\* the two went astray before (telnyx.py:324-325): no timeout of a wait, reap or
\* report that comes late makes the agent speak into its own speech.
THEOREM SpeaksNeverQueue == CallSpec => NoSpeakIsQueued
<1>1. ASSUME LegTypeOK, CallInv, [CallNext]_callVars, LegTypeOK'
      PROVE  [\A queued \in {playing'[i] : i \in Len(playing) + 1..Len(playing')} :
                 queued \in astray \/ Range(playing) \subseteq astray]_callVars
  <2> SUFFICES ASSUME NEW i \in Len(playing) + 1..Len(playing'), playing'[i] \notin astray
               PROVE  Range(playing) \subseteq astray
    OBVIOUS
  <2>0. playing \in Seq(Nat) /\ playing' \in Seq(Nat) /\ Len(playing) \in Nat
    BY <1>1 DEF LegTypeOK
  <2>1. Len(playing') > Len(playing)
    BY <2>0
  <2>2. LegTakesSpeak
    <3>1. ASSUME playing' = playing PROVE FALSE
      BY <2>1, <3>1, <2>0
    <3>2. ASSUME AgentRunStep \/ AgentResponseStep PROVE playing' = playing
      BY <3>2, RunStepOfCall, ResponseStepOfCall DEF Sends, LeavesTheLeg, carrier
    <3>3. ASSUME LegStops \/ LegFinishes PROVE FALSE
      <4>1. playing = <<>> => playing' = <<>>
        BY <3>3 DEF LegStops, LegFinishes
      <4>2. playing # <<>> => playing' = Tail(playing)
        BY <3>3 DEF LegStops, LegFinishes
      <4>3. playing # <<>> => Len(Tail(playing)) < Len(playing)
        BY <2>0
      <4> QED
        BY <2>0, <2>1, <3>1, <4>1, <4>2, <4>3
    <3>4. ASSUME LegHangsUp \/ CallerHangsUp PROVE FALSE
      <4>1. playing' = <<>>
        BY <3>4 DEF LegHangsUp, CallerHangsUp, LegGoesDown
      <4>2. Len(playing') = 0
        BY <4>1
      <4> QED
        BY <2>0, <2>1, <4>2
    <3>5. ASSUME \/ CommandIsDropped \/ CallerSpeaks \/ ReportArrives \/ ReportIsLost
                 \/ HangupArrives \/ CallIsOver \/ UNCHANGED callVars
          PROVE  playing' = playing
      BY <3>5 DEF CommandIsDropped, CallerSpeaks, ReportArrives, ReportIsLost, HangupArrives,
                  CallIsOver, callVars, carrier
    <3> QED
      BY <1>1, <3>1, <3>2, <3>3, <3>4, <3>5 DEF CallNext, LegStep
  <2>3. PICK request \in requests :
           request.type = "speak" /\ playing' = Append(playing, request.n) /\ leg = "up"
    BY <2>2 DEF LegTakesSpeak
  <2>4. request.n \in Nat /\ request \in RequestSet
    BY <1>1, <2>3 DEF LegTypeOK, RequestSet
  <2>5. i = Len(playing) + 1 /\ playing'[i] = request.n
    BY <2>0, <2>3, <2>4, TakenIsLast
  <2>6. request.n = speak_gen /\ speak_gen \notin astray
    BY <1>1, <2>3, <2>5 DEF CallInv, RequestsFit
  <2>7. request = SpeakRequest(speak_gen)
    BY <2>3, <2>4, <2>6 DEF RequestSet, SpeakRequest
  <2>8. Followed /\ LatestInFlight
    BY <2>3, <2>6, <2>7 DEF Followed, LatestInFlight
  <2>9. ~LatestPlays
    BY <1>1, <2>8 DEF CallInv, AgentKnows
  <2>10. \A j \in 1..Len(playing) : playing[j] \in astray
    BY <1>1, <2>9, HeardIsFollowed
  <2>11. DOMAIN playing = 1..Len(playing)
    BY <2>0
  <2> QED
    BY <2>10, <2>11 DEF Range
<1> QED
  BY <1>1, CallInvariant, LegTypeInvariant, PTL DEF CallSpec, NoSpeakIsQueued

\* The hangup command leaves the agent only when nothing plays any more but what
\* went astray (agent.py:456-458): the goodbye is not cut off by its own hangup.
THEOREM GoodbyesAreHeard == CallSpec => []GoodbyeIsHeard
<1>1. AgentInv /\ LegTypeOK /\ CallInv => GoodbyeIsHeard
  <2> SUFFICES ASSUME AgentInv, LegTypeOK, CallInv, HangupRequest \in requests,
                      NEW i \in 1..Len(playing), playing[i] \notin astray
               PROVE  FALSE
    <3>1. LegTypeOK => DOMAIN playing = 1..Len(playing)
      BY DEF LegTypeOK
    <3> QED
      BY <3>1 DEF GoodbyeIsHeard, Range
  <2>1. hung_up
    BY DEF CallInv, RequestsFit, HangupRequest
  <2>2. response_task.at \notin {"speak", "play"}
    BY <2>1 DEF AgentInv, SafetyInv, NothingAfterTheHangup
  <2> QED
    BY <2>2, HeardIsFollowed DEF CallInv, AgentKnows
<1> QED
  BY <1>1, CallInvariant, PTL

-----------------------------------------------------------------------------
(***************************************************************************)
(* What the history says of a reply that was spoken.                       *)
(***************************************************************************)

\* While a response is in flight the run task adds nothing to the history.
LEMMA RunStepKeepsHistory ==
    ASSUME RunStep, Live, ~(run_task.at = "transcribe")
    PROVE  messages' = messages
<1> USE DEF conversation
<1>1. CASE TranscriptionStarts
  BY <1>1 DEF TranscriptionStarts, At
<1>2. CASE \/ TakeHangup \/ TakeIgnored \/ HangupReturns \/ RunCancelled
  BY <1>2 DEF TakeHangup, TakeIgnored, HangupReturns, RunCancelled
<1>3. CASE TakeSpeakEnded \/ TakeBargeIn \/ LastReaped \/ TranscriptionStops
  BY <1>3, Zenon DEF TakeSpeakEnded, TakeBargeIn, LastReaped, TranscriptionStops
<1>4. CASE TakeFinal \/ TakeTurn \/ PlaybackStops \/ InterruptedReaped \/ SupersededReaped
  BY <1>4 DEF TakeFinal, TakeTurn, PlaybackStops, InterruptedReaped, SupersededReaped
<1> QED
  BY <1>1, <1>2, <1>3, <1>4 DEF RunStep

\* A turn that enters the history is its last message.
LEMMA AddTurnLast ==
    ASSUME NEW m \in Seq(Message), NEW role \in Role, NEW turn \in Seq(Nat)
    PROVE  Last(AddTurn(m, role, turn)).role = role
<1> DEFINE message == [role |-> role, turn |-> turn]
           longer == Append(m, message)
<1>1. message \in Message
  BY DEF Message
<1>2. longer \in Seq(Message) /\ Len(longer) = Len(m) + 1 /\ longer[Len(longer)] = message
  BY <1>1
<1>3. longer # <<>>
  <2>1. Len(longer) # 0 /\ Len(<<>>) = 0
    BY <1>2
  <2> QED
    BY <2>1, Zenon
<1>4. Trimmed(longer)[Len(Trimmed(longer))] = message
  BY <1>2, <1>3, TrimmedLast
<1>5. AddTurn(m, role, turn) = Trimmed(longer)
  BY DEF AddTurn
<1> QED
  BY <1>4, <1>5 DEF Last

\* A response that was speaking changes the history only by recording its reply
\* when it ends.
LEMMA SpokenReplyIsRecorded ==
    ASSUME TypeInv, ResponseStep, response_task.at \in {"speak", "play"}, messages' # messages
    PROVE  Finishes /\ \E full : RecordReply(full)
<1> USE DEF conversation, status
<1>0. TypeOK /\ response_task \in ResponseTaskSet
  BY DEF TypeInv, TypeOK
<1>1. SpeakFails \/ PlaybackEnds \/ PlaybackTimesOut \/ ResponseCancelled
  BY DEF ResponseStep, GreetingStarts, ReplyStarts, ReplySkipped, LlmAnswers, LlmIsSilent,
         LlmCallsTool, LlmCallsTooManyTools, ToolRaises, LlmFails, SpeakIssued,
         ResponseHangupReturns, Resumes
<1>2. \E full, exit : Finish(full, exit)
  <2>1. CASE SpeakFails
    BY <2>1, Zenon DEF SpeakFails
  <2>2. CASE PlaybackEnds \/ PlaybackTimesOut \/ ResponseCancelled
    BY <2>2, Zenon DEF PlaybackEnds, PlaybackTimesOut, ResponseCancelled
  <2> QED
    BY <1>1, <2>1, <2>2
<1>3. UNCHANGED ending
  BY <1>1 DEF SpeakFails, PlaybackEnds, PlaybackTimesOut, ResponseCancelled
<1> QED
  BY <1>0, <1>2, <1>3, FinishFinishes DEF Finish

\* The history never claims that the caller heard a reply that was cut off: a
\* reply that is recorded without the mark of an interruption while the leg is up
\* was played to its end (conversation.py:43-46), unless its last speak went
\* astray: it failed, or a command that failed or was overtaken before it had left
\* the agent without knowledge of it.
THEOREM HistoryTellsWhatWasHeard == CallSpec => UnmarkedRepliesWereHeard
<1>1. ASSUME AgentInv, LegTypeOK, CallInv, [CallNext]_callVars
      PROVE  [leg = "up" /\ response_task.at \in {"speak", "play"}
                /\ messages' # messages /\ Last(messages').role = "assistant"
                => heard \/ speak_gen \in astray']_callVars
  <2> SUFFICES ASSUME leg = "up", response_task.at \in {"speak", "play"},
                      messages' # messages, Last(messages').role = "assistant",
                      speak_gen \notin astray'
               PROVE  heard
    OBVIOUS
  <2>0. TypeInv /\ SafetyInv /\ response_task \in ResponseTaskSet /\ messages \in Seq(Message)
    BY <1>1 DEF AgentInv, TypeInv, TypeOK
  <2>1. AgentResponseStep
    <3>1. ASSUME AgentRunStep PROVE FALSE
      <4>1. run_task.at # "transcribe"
        BY <2>0 DEF SafetyInv, BeforeTheLoop
      <4> QED
        BY <3>1, <4>1, RunStepOfCall, RunStepKeepsHistory DEF Live
    <3>2. ASSUME LegStep \/ CallerHangsUp \/ ReportIsLost \/ CallIsOver \/ UNCHANGED callVars
          PROVE  FALSE
      BY <3>2 DEF LegStep, LegTakesSpeak, LegStops, LegFinishes, LegHangsUp, CommandIsDropped,
                  CallerHangsUp, LegGoesDown, ReportIsLost, CallIsOver, Over, callVars, vars,
                  conversation
    <3>3. ASSUME CallerSpeaks \/ ReportArrives \/ HangupArrives
          PROVE  FALSE
      BY <3>3 DEF CallerSpeaks, ReportArrives, HangupArrives, SubmitFinal, SubmitInterim,
                  SubmitSpeakEnded, SubmitHangup, Submits, conversation
    <3> QED
      BY <1>1, <3>1, <3>2, <3>3 DEF CallNext
  <2>2. Finishes /\ \E full : RecordReply(full)
    BY <2>0, <2>1, ResponseStepOfCall, SpokenReplyIsRecorded
  <2>3. speak_gen' = speak_gen
    BY <2>0, <2>1, <2>2, ResponseStepOfCall, ResponseStepGeneration DEF Speaks, Finishes, GoesOn
  <2>4. ~LatestInFlight /\ ~LatestPlays
    BY <1>1, <2>1, <2>2, <2>3, QuietAfterwards
  <2>5. messages' = AddTurn(messages, IF barged_in THEN "interrupted" ELSE "assistant",
                            response_task.turn)
    BY <2>2 DEF RecordReply
  <2>6. ~barged_in
    <3>1. response_task.turn \in Seq(Nat) /\ "interrupted" \in Role
      BY <2>0 DEF ResponseTaskSet, Role
    <3>2. barged_in => Last(messages').role = "interrupted"
      BY <2>0, <2>5, <3>1, AddTurnLast
    <3> QED
      BY <3>2
  <2>7. Followed
    BY <1>1, <2>1, ResponseStepFrame DEF Followed
  <2> QED
    BY <1>1, <2>4, <2>6, <2>7 DEF CallInv, AgentKnows
<1> QED
  BY <1>1, CallInvariant, PTL DEF CallSpec, UnmarkedRepliesWereHeard

=============================================================================

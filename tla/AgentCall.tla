------------------------------ MODULE AgentCall ------------------------------
(***************************************************************************)
(* The agent of VoiceAgent together with the carrier's leg of its call:    *)
(* the call commands of offleash/telnyx.py that are in flight, what the    *)
(* leg plays, and the webhooks that report it.  The agent's steps are      *)
(* those of VoiceAgent; here a command takes effect at the leg while its   *)
(* task awaits it, and the webhooks say only what happened at the leg.     *)
(*                                                                         *)
(* The leg is external, modelled from how the code uses it: it plays the   *)
(* speaks in the order in which it takes them and reports the end of each, *)
(* whether it was played to its end or stopped.                            *)
(***************************************************************************)
EXTENDS VoiceAgent

CONSTANTS
    LegFaults,    \* what can go wrong between the agent and a leg that is up
    MaxAdrift     \* bound: while more commands are in flight that nobody waits for, no
                  \* other one fails

ASSUME AgentCallAssumption ==
    /\ LegFaults \subseteq
         {"speak",    \* a speak command fails: it was refused, or timed out before or
                      \* after the leg took it
          "stop",     \* a playback_stop command fails in one of these ways
          "hangup",   \* a hangup command does
          "order"}    \* a stop overtakes the speaks that were sent before it
    /\ MaxAdrift \in Nat

VARIABLES
    requests,       \* the commands in flight
    leg,            \* up, or down
    playing,        \* the generations that the leg plays and has queued
    reports,        \* the generations whose end is still to be reported
    heard,          \* history: the latest generation was played to its end
    astray,         \* history: the generations that the agent has lost control of
    hangup_failed   \* history: a hangup command failed

carrier == <<leg, playing, reports>>
mishaps == <<astray, hangup_failed>>
callVars == <<vars, requests, carrier, heard, mishaps>>

\* A stop carries the latest generation when it was sent.
SpeakRequest(generation) == [type |-> "speak", n |-> generation]
StopRequest(generation) == [type |-> "stop", n |-> generation]
HangupRequest == [type |-> "hangup", n |-> 0]

CallInit ==
    /\ Init
    /\ requests = {}
    /\ leg = "up"
    /\ playing = <<>>
    /\ reports = {}
    /\ heard = FALSE
    /\ astray = {}
    /\ hangup_failed = FALSE

-----------------------------------------------------------------------------
(***************************************************************************)
(* The agent, which sends commands and awaits them.  A command that raises *)
(* stays in flight: whether it is carried out later or never is up to the  *)
(* leg (LegStep).                                                          *)
(***************************************************************************)

StopsInFlight == {request \in requests : request.type = "stop"}

\* The commands that a task of the agent waits for.
Awaited ==
    StopsInFlight
       \cup (IF response_task.at = "speak" THEN {SpeakRequest(speak_gen)} ELSE {})
       \cup (IF "hangup" \in {run_task.at, response_task.at} THEN {HangupRequest} ELSE {})

\* Mutant: a barge-in does not stop the playback.
SentWithoutStop ==
    {SpeakRequest(generation) : generation \in speak_gen + 1 .. speak_gen'}
       \cup (IF hung_up' /\ ~hung_up THEN {HangupRequest} ELSE {})

\* The commands that a step of the agent sends.
Sent ==
    {SpeakRequest(generation) : generation \in speak_gen + 1 .. speak_gen'}
       \cup (IF run_task'.at = "stopPlayback" /\ run_task.at # "stopPlayback"
             THEN {StopRequest(speak_gen)} ELSE {})
       \cup (IF hung_up' /\ ~hung_up THEN {HangupRequest} ELSE {})

\* A step of the agent leaves the leg alone; a new generation is still to be heard.
LeavesTheLeg ==
    /\ heard' = (heard /\ speak_gen' = speak_gen)
    /\ UNCHANGED carrier

Sends == requests' = requests \cup Sent /\ LeavesTheLeg

\* A command of the type raises on a leg that is down, or fails on one that is up.
Raises(type) ==
    \/ leg = "down"
    \/ type \in LegFaults /\ Cardinality(requests \ Awaited) <= MaxAdrift

RunGoesOn ==
    /\ run_task.at \notin {"stopPlayback", "hangup"}
    /\ RunStep
    /\ Sends
    /\ UNCHANGED mishaps

StopReturns ==
    /\ StopsInFlight = {}
    /\ PlaybackStops
    /\ Sends
    /\ UNCHANGED mishaps

\* Mutant: a stop that fails is sent again, until it succeeds.
StopIsSentAgain ==
    /\ Raises("stop")
    /\ run_task.at = "stopPlayback"
    /\ UNCHANGED callVars

\* The stop raises, which is swallowed.  From now on nobody waits for it; what it was
\* to stop plays on, unless the leg has stopped it all the same.
StopRaises ==
    /\ Raises("stop")
    /\ PlaybackStops
    /\ requests' = {IF request.type = "stop" THEN [request EXCEPT !.type = "late"] ELSE request :
                    request \in requests}
    /\ astray' = astray \cup {stop.n : stop \in StopsInFlight}
    /\ LeavesTheLeg
    /\ UNCHANGED hangup_failed

RunHangsUp ==
    /\ HangupReturns
    /\ \/ HangupRequest \notin requests /\ UNCHANGED hangup_failed
       \/ Raises("hangup") /\ hangup_failed' = TRUE
    /\ Sends
    /\ UNCHANGED astray

AgentRunStep == RunGoesOn \/ StopReturns \/ StopRaises \/ RunHangsUp

ResponseGoesOn ==
    /\ \/ response_task.at \notin {"speak", "play", "hangup"} /\ ResponseStep
       \/ ResponseCancelled
    /\ Sends
    /\ UNCHANGED mishaps

ResponseHangsUp ==
    /\ ResponseHangupReturns
    /\ \/ HangupRequest \notin requests /\ UNCHANGED hangup_failed
       \/ Raises("hangup") /\ hangup_failed' = TRUE
    /\ Sends
    /\ UNCHANGED astray

\* The leg has taken the speak, and the command returns.
SpeakReturns ==
    /\ SpeakRequest(speak_gen) \notin requests
    /\ SpeakIssued
    /\ Sends
    /\ UNCHANGED mishaps

\* The speak raises, whether the leg has taken it, is still to take it or refuses it.
\* An apology for it that is sent while a stop is awaited comes behind that stop.
SpeakRaises ==
    /\ Raises("speak")
    /\ SpeakFails
    /\ Sends
    /\ astray' = astray \cup (speak_gen .. IF run_task.at = "stopPlayback" THEN speak_gen'
                                                                           ELSE speak_gen)
    /\ UNCHANGED hangup_failed

WaitEnds ==
    /\ PlaybackEnds
    /\ Sends
    /\ UNCHANGED mishaps

\* The wait for the end of a speak is longer than its playback: it expires only
\* when the speak does not play any more and no report of its end is on its way,
\* or when the speak had to wait behind another.
WaitExpires ==
    /\ PlaybackTimesOut
    /\ \/ speak_gen \in astray
       \/ /\ speak_gen \notin Range(playing) \cup reports
          /\ Item("ended", speak_gen) \notin Range(events)
    /\ Sends
    /\ UNCHANGED mishaps

AgentResponseStep ==
    \/ ResponseGoesOn
    \/ ResponseHangsUp
    \/ SpeakReturns
    \/ SpeakRaises
    \/ WaitEnds
    \/ WaitExpires

-----------------------------------------------------------------------------
(***************************************************************************)
(* The leg.                                                                *)
(***************************************************************************)

\* What the leg plays now; the rest of playing waits behind it.
Current == {playing[i] : i \in DOMAIN playing \cap {1}}

\* The leg takes a speak, whether or not the agent still waits for it, and queues it
\* when another one plays.
LegTakesSpeak ==
    /\ leg = "up"
    /\ \E request \in requests :
          /\ request.type = "speak"
          /\ requests' = requests \ {request}
          /\ playing' = Append(playing, request.n)
          /\ astray' = IF playing = <<>> THEN astray ELSE astray \cup {request.n}
    /\ UNCHANGED <<vars, leg, reports, heard, hangup_failed>>

\* stop_playback stops what is playing, which need not be what it was sent for: that
\* may have ended, still be in flight, or wait behind another one.
LegStops ==
    /\ leg = "up"
    /\ \E stop \in requests :
          /\ stop.type \in {"stop", "late"}
          /\ \/ "order" \in LegFaults
             \/ \A request \in requests : request.type = "speak" => request.n > stop.n
          /\ requests' = requests \ {stop}
          /\ astray' = astray \cup (Current \ {stop.n}) \cup ({stop.n} \ Current)
    /\ playing' = IF playing = <<>> THEN <<>> ELSE Tail(playing)
    /\ reports' = reports \cup Current
    /\ UNCHANGED <<vars, leg, heard, hangup_failed>>

LegFinishes ==
    /\ playing # <<>>
    /\ heard' = (heard \/ Head(playing) = speak_gen)
    /\ reports' = reports \cup {Head(playing)}
    /\ playing' = Tail(playing)
    /\ UNCHANGED <<vars, requests, leg, mishaps>>

\* With the leg goes what it plays, the commands that nobody waits for, and the
\* history of its speaks.
LegGoesDown(carried_out) ==
    /\ leg = "up"
    /\ leg' = "down"
    /\ playing' = <<>>
    /\ requests' = (requests \ carried_out) \cap Awaited
    /\ heard' = FALSE
    /\ astray' = {}
    /\ UNCHANGED <<vars, reports, hangup_failed>>

\* The hangup command is carried out, whether or not the agent still waits for it.
LegHangsUp == HangupRequest \in requests /\ LegGoesDown({HangupRequest})

CallerHangsUp == LegGoesDown({})

\* A command that raised, or whose task was cancelled, may never reach the leg.
CommandIsDropped ==
    /\ \E request \in requests \ Awaited : requests' = requests \ {request}
    /\ UNCHANGED <<vars, carrier, heard, mishaps>>

\* The webhooks: transcripts while the leg is up (bound: one interim on the queue),
\* the end of a playback, which may be reported late or not at all, and the hangup.
CallerSpeaks ==
    /\ leg = "up"
    /\ SubmitFinal \/ (SubmitInterim /\ Item("interim", 0) \notin Range(events))
    /\ UNCHANGED <<requests, carrier, heard, mishaps>>

ReportArrives ==
    /\ SubmitSpeakEnded
    /\ Last(events').n \in reports
    /\ reports' = reports \ {Last(events').n}
    /\ UNCHANGED <<requests, leg, playing, heard, mishaps>>

ReportIsLost ==
    /\ \E generation \in reports : reports' = reports \ {generation}
    /\ UNCHANGED <<vars, requests, leg, playing, heard, mishaps>>

\* Reports behind the hangup are never read and are left out.
HangupArrives ==
    /\ leg = "down"
    /\ SubmitHangup
    /\ reports' = {}
    /\ UNCHANGED <<requests, leg, playing, heard, mishaps>>

LegStep ==
    \/ LegTakesSpeak
    \/ LegStops
    \/ LegFinishes
    \/ LegHangsUp
    \/ CommandIsDropped

CallIsOver ==
    /\ Over
    /\ UNCHANGED <<requests, carrier, heard, mishaps>>

CallNext ==
    \/ AgentRunStep
    \/ AgentResponseStep
    \/ LegStep
    \/ CallerHangsUp
    \/ CallerSpeaks
    \/ ReportArrives
    \/ ReportIsLost
    \/ HangupArrives
    \/ CallIsOver

(***************************************************************************)
(* The agent's fairness is that of VoiceAgent.  The leg carries out every  *)
(* command that is awaited on it, unless it raises, and plays every speak; *)
(* the report of its end arrives or is lost before the wait for it         *)
(* expires, and the webhook of the hangup is repeated until it is taken.   *)
(***************************************************************************)
CallFairness ==
    /\ WF_callVars(AgentRunStep)
    /\ SF_callVars(AgentResponseStep)
    /\ WF_callVars(LegStep)
    /\ WF_callVars(ReportArrives \/ ReportIsLost)
    /\ WF_callVars(HangupArrives)

CallSpec == CallInit /\ [][CallNext]_callVars /\ CallFairness

-----------------------------------------------------------------------------
(***************************************************************************)
(* Properties.                                                             *)
(***************************************************************************)

\* The type invariant.
CallTypeOK ==
    /\ TypeOK
    /\ \A request \in requests : request \in [type : {"speak", "stop", "late", "hangup"}, n : Nat]
    /\ leg \in {"up", "down"}
    /\ playing \in Seq(Nat)
    /\ reports \subseteq Nat
    /\ heard \in BOOLEAN
    /\ astray \subseteq Nat
    /\ hangup_failed \in BOOLEAN

(***************************************************************************)
(* A generation goes astray when the outcome of a command is not what the  *)
(* agent takes it for: its speak raised, the stop that was to stop it      *)
(* raised or stopped something else, a stop for another one stopped it, or *)
(* it was queued behind another or sent behind a stop.  Of all the other   *)
(* generations, also of those that follow such a mishap, the agent knows   *)
(* what became of them.                                                    *)
(***************************************************************************)

\* What the caller hears the caller can interrupt: while the leg plays, a transcript
\* is a barge-in, or the stop of an earlier one is on its way (agent.py:202-210).  It
\* is not so for what went astray, and while the call is ending, when the agent
\* ignores the caller (agent.py:199-200).
SpeechIsInterruptible ==
    ~ending => \A i \in 1..Len(playing) :
                  playing[i] \in astray \/ agent_is_speaking \/ StopsInFlight # {}

\* A speak is queued behind another one only when one of the two went astray before
\* (telnyx.py:324-325 "a queue we never build").
NoSpeakIsQueued ==
    [][\A queued \in {playing'[i] : i \in Len(playing) + 1..Len(playing')} :
          queued \in astray \/ Range(playing) \subseteq astray]_callVars

\* The agent hangs up when the goodbye was played, not in the middle of it
\* (agent.py:456-458 "now that the goodbye has finished playing"): all that the
\* hangup may cut off is what went astray.
GoodbyeIsHeard == HangupRequest \in requests => Range(playing) \subseteq astray

\* What a reply said last was played to its end when the reply enters the history
\* without the mark of an interruption (conversation.py:43-46), unless that speak went
\* astray, be it by the failure that ends the reply, or the call is over.
UnmarkedRepliesWereHeard ==
    [][leg = "up" /\ response_task.at \in {"speak", "play"}
         /\ messages' # messages /\ Last(messages').role = "assistant"
         => heard \/ speak_gen \in astray']_callVars

\* The agent of VoiceAgent, with the fairness that is assumed there: the leg and
\* the timeouts of commands and waits leave no task of the agent waiting for ever.
ImplementsAgent == Spec

\* A conversation that is ending frees the leg: the call does not stay open
\* (agent.py:456-462), unless the hangup command fails, which is swallowed.
EndingFreesTheLeg == ending ~> leg = "down" \/ hangup_failed

\* A leg that went down, whoever hung up, ends the run of its agent
\* (agent.py:186-189).
LegEndsTheRun == leg = "down" ~> run_task.at = "done"

-----------------------------------------------------------------------------
(***************************************************************************)
(* What a comment of the code says and the code does not do.               *)
(***************************************************************************)

\* barge_in.py:23-25: "barge-in stops the leg's playback and signals the pipeline to
\* cancel the in-flight response": once the stop has returned, no response is heard
\* that speaks on.
BargeInSilencesTheAgent == run_task.at = "reapBarge" => ~agent_is_speaking \/ playing = <<>>

=============================================================================

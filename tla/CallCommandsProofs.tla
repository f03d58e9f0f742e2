------------------------- MODULE CallCommandsProofs -------------------------
(***************************************************************************)
(* Facts about what the agent sends, for every setting and every text.     *)
(***************************************************************************)
EXTENDS CallCommands, WellFoundedInduction, TLAPS

(***************************************************************************)
(* What the carrier is known to take: a known engine with one of its       *)
(* models or with none, a short language code (telnyx.py:257-259), interim *)
(* transcripts only from an engine that has them, and the parameters of    *)
(* turn detection only for the model flux of Deepgram and in their ranges. *)
(***************************************************************************)
Short(language) == language.region = {}

Takes(payload) ==
    /\ Known(payload.transcription_engine)
    /\ payload.transcription_model \subseteq SttEngines[payload.transcription_engine].models
    /\ Short(payload.language)
    /\ payload.interim_results => SttEngines[payload.transcription_engine].interim
    /\ payload.eot_threshold \cup payload.eot_timeout_ms # {} =>
          /\ payload.transcription_engine = "Deepgram"
          /\ payload.transcription_model = {"flux"}
    /\ payload.eot_threshold \subseteq EotThresholds
    /\ payload.eot_timeout_ms \subseteq EotTimeouts

\* Two settings decide whether the transcription_start of a process that started is
\* one that the carrier is known to take, the engine and the language: an engine
\* that the table does not know is trusted, and the language is not checked
\* (settings.py:129-153).  Everything else the start-up check and the payload rules
\* settle together, whichever settings are left over from another engine.
THEOREM OnlyEngineAndLanguageAreTrusted ==
    ASSUME NEW s \in Settings, CheckStt(s)
    PROVE  Takes(StartTranscription(s)) <=> Known(s.stt_engine) /\ Short(s.stt_language)
<1> DEFINE payload == StartTranscription(s)
<1>1. /\ payload.transcription_engine = s.stt_engine
      /\ payload.language = s.stt_language
  BY DEF StartTranscription
<1>2. payload.transcription_model = {s.stt_model} \ {""}
  BY DEF StartTranscription
<1>3. payload.interim_results = SttEmitsInterim(s.stt_engine)
  BY DEF StartTranscription
<1>4. \/ /\ s.stt_engine = "Deepgram"
         /\ s.stt_model = "flux"
         /\ payload.eot_threshold = s.stt_eot_threshold
         /\ payload.eot_timeout_ms = s.stt_eot_timeout_ms
      \/ payload.eot_threshold = {} /\ payload.eot_timeout_ms = {}
  BY DEF StartTranscription
<1> HIDE DEF payload
<1>5. ASSUME Known(s.stt_engine), Short(s.stt_language)
      PROVE  Takes(payload)
  <2>1. /\ Known(payload.transcription_engine)
        /\ payload.transcription_model \subseteq SttEngines[payload.transcription_engine].models
        /\ Short(payload.language)
        /\ payload.interim_results => SttEngines[payload.transcription_engine].interim
    BY <1>1, <1>2, <1>3, <1>5 DEF CheckStt, SttEmitsInterim
  <2>2. payload.eot_threshold \cup payload.eot_timeout_ms # {} =>
          /\ payload.transcription_engine = "Deepgram"
          /\ payload.transcription_model = {"flux"}
    BY <1>1, <1>2, <1>4
  <2>3. /\ payload.eot_threshold \subseteq EotThresholds
        /\ payload.eot_timeout_ms \subseteq EotTimeouts
    BY <1>4 DEF CheckStt
  <2> QED
    BY <2>1, <2>2, <2>3 DEF Takes
<1>6. Takes(payload) => Known(s.stt_engine) /\ Short(s.stt_language)
  BY <1>1 DEF Takes
<1> QED
  BY <1>5, <1>6 DEF payload

-----------------------------------------------------------------------------
\* A set of numbers up to n that is not empty has a greatest one.
LEMMA LastIsIn ==
    ASSUME NEW n \in Nat, NEW S \in SUBSET (1..n), S # {}
    PROVE  LastOf(S) \in S
<1> DEFINE Distances == {d \in 0..n : n - d \in S}
<1>1. Distances \subseteq Nat /\ Distances # {}
  <2>1. PICK p \in S : TRUE
    OBVIOUS
  <2>2. n - p \in 0..n /\ n - (n - p) = p
    BY <2>1
  <2>3. n - p \in Distances
    BY <2>1, <2>2
  <2>4. Distances # {}
    BY <2>3, Zenon
  <2> QED
    BY <2>4
<1>2. PICK d \in Distances : \A e \in Distances : <<e, d>> \notin OpToRel(<, Nat)
  BY <1>1, NatLessThanWellFounded, WFMin, Zenon
<1>3. \A e \in Distances : d <= e
  <2>1. \A e \in Distances : ~ (e < d)
    BY <1>1, <1>2, Zenon DEF OpToRel
  <2> QED
    BY <1>1, <2>1
<1>4. n - d \in S /\ \A q \in S : q <= n - d
  <2>1. ASSUME NEW q \in S
        PROVE  q <= n - d
    <3>1. n - q \in 0..n /\ n - (n - q) = q
      OBVIOUS
    <3>2. d <= n - q
      BY <1>3, <3>1
    <3> QED
      BY <3>2
  <2> QED
    BY <2>1
<1> QED
  BY <1>4 DEF LastOf

\* A text of max characters is cut at its end, or behind a sentence in its second half.
LEMMA CutIsAnEnd ==
    ASSUME NEW Char, NEW head \in Seq(Char), NEW max \in Nat \ {0}, Len(head) = max
    PROVE  \/ Cut(head, max) = max
           \/ /\ Cut(head, max) \in 1..(max - 1)
              /\ Cut(head, max) > max \div 2
              /\ head[Cut(head, max)] \in {"period", "exclamation", "question"}
              /\ head[Cut(head, max) + 1] = "space"
<1>1. CASE FirstMark(head, max) = {}
  BY <1>1 DEF Cut
<1>2. CASE FirstMark(head, max) # {}
  <2> DEFINE S == UNION {SentenceEnds(head, Marks[k], max) : k \in FirstMark(head, max)}
  <2>1. \A mark : SentenceEnds(head, mark, max) \in SUBSET (1..(max - 1))
    BY DEF SentenceEnds
  <2>2. S \in SUBSET (1..(max - 1))
    BY <2>1
  <2>3. S # {}
    BY <1>2 DEF FirstMark
  <2>4. LastOf(S) \in S
    <3>1. max - 1 \in Nat
      OBVIOUS
    <3> HIDE DEF S
    <3> QED
      BY <2>2, <2>3, <3>1, LastIsIn
  <2>5. Cut(head, max) = LastOf(S)
    BY <1>2 DEF Cut
  <2>6. Cut(head, max) \in S
    BY <2>4, <2>5
  <2>7. PICK k \in FirstMark(head, max) : Cut(head, max) \in SentenceEnds(head, Marks[k], max)
    BY <2>6
  <2>8. Marks[k] \in {"period", "exclamation", "question"}
    BY DEF FirstMark, Marks
  <2> HIDE DEF S
  <2>9. /\ Cut(head, max) \in 1..(max - 1)
        /\ head[Cut(head, max)] = Marks[k]
        /\ head[Cut(head, max) + 1] = "space"
        /\ Cut(head, max) - 1 > max \div 2
    BY <2>7 DEF SentenceEnds
  <2>10. Cut(head, max) > max \div 2
    BY <2>9
  <2> QED
    BY <2>8, <2>9, <2>10
<1> QED
  BY <1>1, <1>2

\* A text that is too long is spoken up to the limit or to the end of a sentence
\* before it, and more than half of what may be spoken is spoken; a text that is
\* not too long is spoken as it is (telnyx.py:32-35, 54-63).
THEOREM CapKeepsMost ==
    ASSUME NEW Char, NEW text \in Seq(Char), NEW max \in Nat \ {0}
    PROVE  LET spoken == Capped(text, max)
           IN  /\ Len(spoken) <= max
               /\ spoken = SubSeq(text, 1, Len(spoken))
               /\ Len(text) <= max => spoken = text
               /\ Len(text) > max =>
                    \/ Len(spoken) = max
                    \/ /\ Len(spoken) > max \div 2
                       /\ spoken[Len(spoken)] \in {"period", "exclamation", "question"}
                       /\ text[Len(spoken) + 1] = "space"
<1>1. ASSUME Len(text) <= max
      PROVE  Capped(text, max) = text
  BY <1>1 DEF Capped
<1>2. ASSUME Len(text) > max
      PROVE  LET spoken == Capped(text, max)
             IN  /\ Len(spoken) <= max
                 /\ spoken = SubSeq(text, 1, Len(spoken))
                 /\ \/ Len(spoken) = max
                    \/ /\ Len(spoken) > max \div 2
                       /\ spoken[Len(spoken)] \in {"period", "exclamation", "question"}
                       /\ text[Len(spoken) + 1] = "space"
  <2> DEFINE head == SubSeq(text, 1, max)
             cut == Cut(head, max)
  <2>1. /\ head \in Seq(Char)
        /\ Len(head) = max
        /\ \A i \in 1..max : head[i] = text[i]
    BY <1>2
  <2>2. Capped(text, max) = SubSeq(text, 1, cut)
    <3>1. ~ (Len(text) <= max)
      BY <1>2
    <3> QED
      BY <3>1, Zenon DEF Capped
  <2>3. \/ cut = max
        \/ /\ cut \in 1..(max - 1)
           /\ cut > max \div 2
           /\ head[cut] \in {"period", "exclamation", "question"}
           /\ head[cut + 1] = "space"
    BY <2>1, CutIsAnEnd
  <2> HIDE DEF head, cut
  <2>4. cut \in 1..max
    BY <2>3
  <2>5. Len(SubSeq(text, 1, cut)) = cut /\ SubSeq(text, 1, cut)[cut] = text[cut]
    BY <1>2, <2>4
  <2>6. \/ cut = max
        \/ /\ cut > max \div 2
           /\ text[cut] \in {"period", "exclamation", "question"}
           /\ text[cut + 1] = "space"
    BY <2>1, <2>3
  <2> QED
    BY <2>2, <2>4, <2>5, <2>6
<1>3. text = SubSeq(text, 1, Len(text))
  OBVIOUS
<1>4. Len(text) <= max \/ Len(text) > max
  OBVIOUS
<1>5. ~ (Len(text) <= max /\ Len(text) > max)
  OBVIOUS
<1> QED
  BY <1>1, <1>2, <1>3, <1>4, <1>5, Zenon

=============================================================================

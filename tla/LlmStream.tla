------------------------------ MODULE LlmStream ------------------------------
(***************************************************************************)
(* One request to the LLM: TelnyxLLM.stream_response (telnyx.py), retried  *)
(* by retry_stream (retry.py), up to the events that the caller of         *)
(* retry_stream gets.                                                      *)
(*                                                                         *)
(* A text and the arguments of a tool call are the sequences of the pieces *)
(* that they arrived in; an id or a name that is missing is "".  Chunks    *)
(* without a choice are skipped by the code and are left out.              *)
(***************************************************************************)
EXTENDS Integers, SequencesExt

CONSTANTS
    MaxRetries,    \* Settings.stream_max_retries
    Chunks,        \* the chunks that the LLM may send
    MaxChunks      \* bound: chunks of one attempt

\* An id or a name, "" if it is missing.
Label == STRING \cup {""}

Delta == [index : Nat, id : Label, name : Label, arguments : Seq(STRING)]

Chunk == [text : Seq(STRING), deltas : Seq(Delta)]

ToolCall == [id : Label, name : Label, arguments : Seq(STRING)]

ASSUME LlmStreamAssumption ==
    /\ MaxRetries \in Nat
    /\ Chunks \subseteq Chunk
    /\ MaxChunks \in Nat

VARIABLE stream    \* the request, see Request

NoCalls == [index \in {} |-> <<>>]

\* A request that makes its first attempt.
Request ==
    [at |-> "open",            \* open, read, backoff, ended, failed, or idle
     attempt |-> 0,
     yielded |-> FALSE,        \* the attempt has passed an event on
     accumulators |-> NoCalls, \* tool_call_accumulators of the attempt
     text |-> <<>>,            \* the text passed on by all attempts
     calls |-> <<>>,           \* the tool calls passed on
     received |-> <<>>]        \* the chunks of the attempt, to compare with

NoRequest == [Request EXCEPT !.at = "idle"]

StreamInit == stream = Request

-----------------------------------------------------------------------------
(***************************************************************************)
(* The tool calls, which arrive in fragments.                              *)
(***************************************************************************)

NewCall == [id |-> "", name |-> "", arguments |-> <<>>]

\* Mutant: a fragment without id or name clears them.
MergeOverwrites(accumulators, delta) ==
    LET known == delta.index \in DOMAIN accumulators
        call == IF known THEN accumulators[delta.index] ELSE NewCall
        merged == [id |-> delta.id, name |-> delta.name,
                   arguments |-> call.arguments \o delta.arguments]
    IN  [index \in DOMAIN accumulators \cup {delta.index} |->
            IF index = delta.index THEN merged ELSE accumulators[index]]

\* An id or a name replaces the one before, arguments are added to those before.
Merge(accumulators, delta) ==
    LET known == delta.index \in DOMAIN accumulators
        call == IF known THEN accumulators[delta.index] ELSE NewCall
        merged == [id |-> IF delta.id # "" THEN delta.id ELSE call.id,
                   name |-> IF delta.name # "" THEN delta.name ELSE call.name,
                   arguments |-> call.arguments \o delta.arguments]
    IN  [index \in DOMAIN accumulators \cup {delta.index} |->
            IF index = delta.index THEN merged ELSE accumulators[index]]

\* The place of an index among others.
Place(indexes, index) == Cardinality({i \in indexes : i <= index})

\* The accumulated calls in the order of their indexes.
Flushed(accumulators) ==
    LET indexes == DOMAIN accumulators
        Nth(k) == CHOOSE index \in indexes : Place(indexes, index) = k
    IN  [k \in 1..Cardinality(indexes) |-> accumulators[Nth(k)]]

-----------------------------------------------------------------------------
\* The server accepts the request.
StreamOpens ==
    /\ stream.at = "open"
    /\ stream' = [stream EXCEPT !.at = "read"]

\* A chunk arrives: its text is passed on at once, its fragments are kept.
ChunkArrives ==
    /\ stream.at = "read"
    /\ Len(stream.received) < MaxChunks
    /\ \E chunk \in Chunks :
          stream' = [stream EXCEPT
              !.yielded = @ \/ chunk.text # <<>>,
              !.accumulators = FoldLeft(Merge, @, chunk.deltas),
              !.text = @ \o chunk.text,
              !.received = Append(@, chunk)]

\* The stream ends, and the accumulated calls are passed on.
StreamEnds ==
    /\ stream.at = "read"
    /\ stream' = [stream EXCEPT !.at = "ended",
                                !.yielded = @ \/ DOMAIN stream.accumulators # {},
                                !.calls = Flushed(stream.accumulators)]

\* Mutant: a stream is retried although it has passed something on.
StreamBreaksRetriesAlways ==
    /\ stream.at \in {"open", "read"}
    /\ stream' = [stream EXCEPT !.at = IF stream.attempt >= MaxRetries
                                       THEN "failed" ELSE "backoff"]

\* Mutant: one attempt too many.
StreamBreaksOffByOne ==
    /\ stream.at \in {"open", "read"}
    /\ stream' = [stream EXCEPT !.at = IF stream.yielded \/ stream.attempt > MaxRetries
                                       THEN "failed" ELSE "backoff"]

\* The request is refused, or its stream breaks.  It is tried again if there are
\* attempts left and this one has passed nothing on.
StreamBreaks ==
    /\ stream.at \in {"open", "read"}
    /\ stream' = [stream EXCEPT !.at = IF stream.yielded \/ stream.attempt >= MaxRetries
                                       THEN "failed" ELSE "backoff"]

\* The next attempt calls stream_response anew.
BackoffEnds ==
    /\ stream.at = "backoff"
    /\ stream' = [stream EXCEPT !.at = "open", !.attempt = @ + 1, !.yielded = FALSE,
                                !.accumulators = NoCalls, !.received = <<>>]

StreamStep ==
    \/ StreamOpens
    \/ ChunkArrives
    \/ StreamEnds
    \/ StreamBreaks
    \/ BackoffEnds

\* The request is over.
RequestOver ==
    /\ stream.at \in {"ended", "failed"}
    /\ UNCHANGED stream

StreamNext == StreamStep \/ RequestOver

StreamSpec == StreamInit /\ [][StreamNext]_stream

-----------------------------------------------------------------------------
(***************************************************************************)
(* Properties.                                                             *)
(***************************************************************************)

\* The type invariant; its bound on the attempts says that a request is retried
\* at most max_retries times (retry.py:33-34).
StreamTypeOK ==
    /\ DOMAIN stream = DOMAIN Request
    /\ stream.at \in {"idle", "open", "read", "backoff", "ended", "failed"}
    /\ stream.attempt \in 0..MaxRetries
    /\ stream.yielded \in BOOLEAN
    /\ DOMAIN stream.accumulators \subseteq Nat
    /\ \A index \in DOMAIN stream.accumulators : stream.accumulators[index] \in ToolCall
    /\ stream.text \in Seq(STRING)
    /\ stream.calls \in Seq(ToolCall)
    /\ stream.received \in Seq(Chunk)

\* A request is tried again only while its caller has got nothing of it, and then
\* there is an attempt left to do it (retry.py:31-34).
RetriesAreSilent ==
    /\ stream.at \in {"open", "backoff"} => stream.text = <<>> /\ stream.calls = <<>>
    /\ stream.at = "backoff" => stream.attempt < MaxRetries

\* The caller hears the text of one attempt, in order and once, whatever was
\* retried before it (retry.py:3-6 "can never duplicate caller-facing audio").
TextIsNotRepeated ==
    stream.text = FlattenSeq([i \in 1..Len(stream.received) |-> stream.received[i].text])

\* The fragments that chunks carry.
Fragments(chunks) == FlattenSeq([i \in 1..Len(chunks) |-> chunks[i].deltas])

\* The last id or name that the fragments with an index give.
LastGiven(deltas, index, field) ==
    LET given == {i \in 1..Len(deltas) : deltas[i].index = index /\ deltas[i][field] # ""}
    IN  IF given = {} THEN "" ELSE deltas[Max(given)][field]

\* The pieces of arguments that the fragments with an index bring.
PiecesOf(deltas, index) ==
    [i \in 1..Len(deltas) |->
        IF deltas[i].index = index THEN deltas[i].arguments ELSE <<>>]

\* The tool call that the fragments with an index make up.
CallMeant(deltas, index) ==
    [id |-> LastGiven(deltas, index, "id"),
     name |-> LastGiven(deltas, index, "name"),
     arguments |-> FlattenSeq(PiecesOf(deltas, index))]

\* Tool calls are passed on at the normal end of a stream only, one for each
\* index and in their order, each with its fragments of this attempt in the order
\* in which they came: none of a broken attempt, none dropped and none mixed with
\* those of another call (telnyx.py:194-231).
CallsAreWhole ==
    LET deltas == Fragments(stream.received)
        indexes == {delta.index : delta \in Range(deltas)}
    IN  IF stream.at = "ended"
        THEN /\ Len(stream.calls) = Cardinality(indexes)
             /\ \A index \in indexes : stream.calls[Place(indexes, index)] = CallMeant(deltas, index)
        ELSE stream.calls = <<>>

=============================================================================

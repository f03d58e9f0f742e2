----------------------------- MODULE MCLlmStream -----------------------------
(***************************************************************************)
(* Constants for the model checking of LlmStream.                          *)
(***************************************************************************)
EXTENDS LlmStream

Part(index, id, name, arguments) ==
    [index |-> index, id |-> id, name |-> name, arguments |-> arguments]

\* Text, the beginnings and the further fragments of two calls, whose order on
\* the stream is not that of their indexes, and a chunk with text and two fragments.
MixedChunks ==
    {[text |-> <<"yes">>, deltas |-> <<>>],
     [text |-> <<>>, deltas |-> <<Part(0, "a", "check", <<>>)>>],
     [text |-> <<>>, deltas |-> <<Part(1, "b", "reserve", <<"{">>)>>],
     [text |-> <<>>, deltas |-> <<Part(0, "", "", <<"{">>)>>],
     [text |-> <<>>, deltas |-> <<Part(1, "", "", <<"}">>)>>],
     [text |-> <<"no">>, deltas |-> <<Part(1, "", "", <<"}">>), Part(0, "", "", <<"}">>)>>]}

=============================================================================

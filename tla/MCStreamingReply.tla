-------------------------- MODULE MCStreamingReply --------------------------
\* A prompt's text, and an answer in two texts with a tool call and reasoning.
EXTENDS StreamingReply

MCMessageOf ==
    [p \in Parts |-> IF p = "prompt text" THEN "prompt" ELSE "answer"]

MCMaxText == [p \in Parts |-> IF p = "text 1" THEN 2 ELSE 1]
=============================================================================

----------------------- MODULE MCOpenCodeConversation -----------------------
(* Instances of OpenCodeConversation for TLC: symmetric sets.               *)
EXTENDS OpenCodeConversation, TLC

\* Messages, commands and ids are interchangeable (never used with liveness).
Symmetry == Permutations(Prompts) \cup Permutations(Resets) \cup Permutations(Sessions)
=============================================================================

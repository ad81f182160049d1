------------------------- MODULE MCSessionTreeReset -------------------------
(* Instances of SessionTreeReset for TLC, and a statement of the source     *)
(* that the code does not keep.                                             *)
EXTENDS SessionTreeReset, TLC

Symmetry == Permutations(Sessions \ {Root})

(***************************************************************************)
(* bot/client.go 1197 and 1200, "Reset failed. Please try again." and      *)
(* "Session reset. Starting fresh.": once a reset, the first or a repeated *)
(* one, was answered so, nothing of the tree is left that could be seen.   *)
(***************************************************************************)
TryingAgainHelps ==
    phase = "idle" /\ answers # <<>> /\ answers[Len(answers)] = "fresh" => live \subseteq late
=============================================================================

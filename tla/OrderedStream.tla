---------------------------- MODULE OrderedStream ----------------------------
(***************************************************************************)
(* What a pipeline of goroutines and channels promises to the reader at    *)
(* its end: everything that was put in comes out once and in order, and    *)
(* the end is told only when nothing is left inside.                       *)
(***************************************************************************)
EXTENDS Naturals, Sequences

CONSTANT Items

VARIABLES
    input,      \* what was put in so far
    output,     \* what came out so far
    ended       \* was the reader told that nothing follows?

streamVars == <<input, output, ended>>

StreamInit == input = <<>> /\ output = <<>> /\ ended = FALSE

Put(item) ==
    /\ ~ended
    /\ input' = Append(input, item)
    /\ UNCHANGED <<output, ended>>

Take ==
    /\ Len(output) < Len(input)
    /\ output' = Append(output, input[Len(output) + 1])
    /\ UNCHANGED <<input, ended>>

End ==
    /\ ~ended /\ output = input
    /\ ended' = TRUE
    /\ UNCHANGED <<input, output>>

StreamNext == Take \/ End \/ \E item \in Items : Put(item)

StreamSpec == StreamInit /\ [][StreamNext]_streamVars
=============================================================================

-------------------------- MODULE SessionTreeReset --------------------------
(***************************************************************************)
(* What "!rb reset" does to the sessions on the OpenCode server            *)
(* (ResetSession and abortAndDeleteSessionTree of                          *)
(* bot/opencode_generator.go): the conversation's session is the root of a *)
(* tree, for a session that runs may start sub-sessions.  The reset lists  *)
(* the tree, aborts every session of the list, waits a while for the root  *)
(* to stop and deletes the list from its end.  The server ends a run some  *)
(* time after it has accepted its abort, or not before the deletion: the   *)
(* reset polls the root only, gives that up after two seconds and deletes  *)
(* then all the same.  Every call may fail with or without effect (the     *)
(* deadline of twelve seconds is one way to fail).                         *)
(*                                                                         *)
(* OpenCodeConversation has the reset's race with the conversation's       *)
(* prompts and one delete for the whole tree.  A second reset that runs at *)
(* the same time would have to read the session id before the first one    *)
(* clears it, a few instructions later; it is not modelled.                *)
(***************************************************************************)
EXTENDS Naturals, Sequences, FiniteSets, Functions

CONSTANTS
    Sessions,       \* ids the server may give out
    Root,           \* the conversation's session
    MaxAttempts,    \* bound: "!rb reset" commands
    MaxPrompts      \* bound: prompts that were under way when the reset began

ASSUME TreeAssumption ==
    /\ IsFiniteSet(Sessions) /\ Root \in Sessions
    /\ MaxAttempts \in Nat /\ MaxPrompts \in Nat

VARIABLES
    \* the server
    born,           \* sessions it has created
    live,           \* and not deleted
    running,        \* sessions with a run
    stopping,       \* of them, those whose run was told to stop
    parent,
    prompts,
    \* the generator
    known,          \* does the conversation remember the session?
    phase,          \* of the reset
    todo,           \* sessions to visit, the next one first
    ids,            \* sessions visited
    i,              \* position in ids of the next call
    errors,         \* did a call fail?
    answers,        \* what the commands were answered so far
    \* what happened, for the properties
    late,           \* sessions started below a session already listed
    stubborn,       \* sessions whose abort failed
    gaveUp,         \* did the wait for the root end without seeing it idle?
    resumed,        \* did the root get a prompt after its abort?
    undeleted       \* sessions whose deletion failed

server == <<born, live, running, stopping, parent, prompts>>
reset == <<known, phase, todo, ids, i, errors, answers>>
history == <<late, stubborn, gaveUp, resumed, undeleted>>
vars == <<server, reset, history>>

TreeTypeOK ==
    /\ live \subseteq born /\ born \subseteq Sessions
    /\ stopping \subseteq running /\ running \subseteq live
    /\ parent \in [Sessions -> Sessions]
    /\ prompts \in 0..MaxPrompts
    /\ known \in BOOLEAN /\ errors \in BOOLEAN
    /\ phase \in {"idle", "list", "abort", "wait", "delete"}
    /\ todo \in Seq(Sessions) /\ ids \in Seq(Sessions)
    /\ i \in 0..Len(ids) + 1
    /\ answers \in Seq({"fresh", "failed"}) /\ Len(answers) <= MaxAttempts
    /\ late \subseteq born /\ stubborn \subseteq Sessions /\ undeleted \subseteq Sessions
    /\ gaveUp \in BOOLEAN /\ resumed \in BOOLEAN

Init ==
    /\ born = {Root} /\ live = {Root} /\ running \in SUBSET {Root} /\ stopping = {}
    /\ parent = [s \in Sessions |-> s]
    /\ prompts = 0
    /\ known = TRUE /\ phase = "idle"
    /\ todo = <<>> /\ ids = <<>> /\ i = 0 /\ errors = FALSE /\ answers = <<>>
    /\ late = {} /\ stubborn = {} /\ undeleted = {} /\ gaveUp = FALSE /\ resumed = FALSE

Listed == {ids[k] : k \in DOMAIN ids}

\* Has the reset made its abort call for session s?
Asked(s) ==
    \E k \in DOMAIN ids :
        ids[k] = s /\ (phase \in {"wait", "delete"} \/ (phase = "abort" /\ k < i))

\* A call that is answered 2xx or 404, refused, or made and its answer lost.
Outcomes == {"ok", "refused", "lost"}

-----------------------------------------------------------------------------
(* The server.                                                             *)

Spawn(s, child) ==
    /\ s \in running /\ child \notin born
    /\ born' = born \cup {child} /\ live' = live \cup {child}
    /\ running' = running \cup {child}
    /\ parent' = [parent EXCEPT ![child] = s]
    /\ late' = IF s \in Listed \cup late THEN late \cup {child} ELSE late
    /\ UNCHANGED <<stopping, prompts, reset, stubborn, gaveUp, resumed, undeleted>>

Finish(s) ==
    /\ s \in running
    /\ running' = running \ {s} /\ stopping' = stopping \ {s}
    /\ UNCHANGED <<born, live, parent, prompts, reset, history>>

\* A message that had read the session's id posts its prompt: a run that the
\* abort said nothing about.
Prompt ==
    /\ prompts < MaxPrompts /\ Root \in live
    /\ prompts' = prompts + 1
    /\ running' = running \cup {Root} /\ stopping' = stopping \ {Root}
    /\ resumed' = (resumed \/ Asked(Root))
    /\ UNCHANGED <<born, live, parent, reset, late, stubborn, gaveUp, undeleted>>

-----------------------------------------------------------------------------
(* ResetSession.                                                           *)

\* The answer of handleBotCommand, and the end of the reset.
Reply(success) ==
    /\ answers' = Append(answers, IF success THEN "fresh" ELSE "failed")
    /\ phase' = "idle"

Begin ==
    /\ phase = "idle" /\ known /\ Len(answers) < MaxAttempts
    /\ known' = FALSE
    /\ phase' = "list"
    /\ todo' = <<Root>>
    /\ UNCHANGED <<server, ids, i, errors, answers, history>>

\* There is no session to reset.
NothingToReset ==
    /\ phase = "idle" /\ ~known /\ Len(answers) < MaxAttempts
    /\ Reply(TRUE)
    /\ UNCHANGED <<server, known, todo, ids, i, errors, history>>

-----------------------------------------------------------------------------
(* collectSessionTreeIDs.                                                  *)

\* listChildSessions: in any order, and none of a session that is gone.
Children(s) ==
    IF s \in live THEN {c \in live \ {s} : parent[c] = s} ELSE {}
Orders(S) == Bijection(1..Cardinality(S), S)

\* A session met again is skipped (in a tree none is).
Visit ==
    /\ phase = "list" /\ todo # <<>>
    /\ IF Head(todo) \in Listed
       THEN todo' = Tail(todo) /\ UNCHANGED ids
       ELSE /\ ids' = Append(ids, Head(todo))
            /\ \E order \in Orders(Children(Head(todo))) : todo' = order \o Tail(todo)
    /\ UNCHANGED <<server, known, phase, i, errors, answers, history>>

\* MUTANT: a listing that fails counts as one without children.
ListFailsIgnored ==
    /\ phase = "list" /\ todo # <<>> /\ Head(todo) \notin Listed
    /\ ids' = Append(ids, Head(todo)) /\ todo' = Tail(todo)
    /\ UNCHANGED <<server, known, phase, i, errors, answers, history>>

\* Nothing is aborted and nothing deleted.
ListFails ==
    /\ phase = "list" /\ todo # <<>> /\ Head(todo) \notin Listed
    /\ Reply(FALSE)
    /\ UNCHANGED <<server, known, todo, ids, i, errors, history>>

AllListed ==
    /\ phase = "list" /\ todo = <<>>
    /\ phase' = "abort" /\ i' = 1
    /\ UNCHANGED <<server, known, todo, ids, errors, answers, history>>

-----------------------------------------------------------------------------
(* abortAndDeleteSessionTree.                                              *)

\* Accepted, the abort only asks the run to end: Finish is when it does.
Abort(outcome) ==
    /\ phase = "abort" /\ i <= Len(ids)
    /\ stopping' = IF outcome = "refused" THEN stopping
                   ELSE stopping \cup (running \cap {ids[i]})
    /\ stubborn' = IF outcome = "refused" THEN stubborn \cup {ids[i]} ELSE stubborn
    /\ errors' = (errors \/ outcome # "ok")
    /\ i' = i + 1
    /\ UNCHANGED <<born, live, running, parent, prompts, known, phase, todo, ids, answers,
                   late, gaveUp, resumed, undeleted>>

\* MUTANT: the loop over the sessions stops one short.
AllButLastAborted ==
    /\ phase = "abort" /\ i >= Len(ids)
    /\ phase' = "wait"
    /\ UNCHANGED <<server, known, todo, ids, i, errors, answers, history>>

\* MUTANT: nobody waits for the root.
AllAbortedDontWait ==
    /\ phase = "abort" /\ i > Len(ids)
    /\ phase' = "delete" /\ i' = Len(ids)
    /\ UNCHANGED <<server, known, todo, ids, errors, answers, history>>

AllAborted ==
    /\ phase = "abort" /\ i > Len(ids)
    /\ phase' = "wait"
    /\ UNCHANGED <<server, known, todo, ids, i, errors, answers, history>>

\* waitForSessionNotBusy looks at the root only.
EndWait(seenIdle, failed) ==
    /\ phase = "wait"
    /\ gaveUp' = ~seenIdle
    /\ errors' = (errors \/ failed)
    /\ phase' = "delete" /\ i' = Len(ids)
    /\ UNCHANGED <<server, known, todo, ids, answers, late, stubborn, resumed, undeleted>>

RootIsIdle == Root \notin running /\ EndWait(TRUE, FALSE)

\* Two seconds without success, or a status that does not name the root, are
\* no error; ...
WaitTimesOut == Root \in running /\ EndWait(FALSE, FALSE)

\* ... a poll that fails is one.
WaitFails == EndWait(FALSE, TRUE)

\* MUTANT: the sessions are deleted in the order of the list.
DeleteFromTheStart(outcome) ==
    LET s == ids[Len(ids) + 1 - i] IN
    /\ phase = "delete" /\ i > 0
    /\ live' = IF outcome = "refused" THEN live ELSE live \ {s}
    /\ running' = IF outcome = "refused" THEN running ELSE running \ {s}
    /\ stopping' = stopping \cap running'
    /\ undeleted' = IF outcome = "refused" THEN undeleted \cup {s} ELSE undeleted
    /\ errors' = (errors \/ outcome # "ok")
    /\ i' = i - 1
    /\ UNCHANGED <<born, parent, prompts, known, phase, todo, ids, answers, late, stubborn,
                   gaveUp, resumed>>

Delete(outcome) ==
    /\ phase = "delete" /\ i > 0
    /\ live' = IF outcome = "refused" THEN live ELSE live \ {ids[i]}
    /\ running' = IF outcome = "refused" THEN running ELSE running \ {ids[i]}
    /\ stopping' = stopping \cap running'
    /\ undeleted' = IF outcome = "refused" THEN undeleted \cup {ids[i]} ELSE undeleted
    /\ errors' = (errors \/ outcome # "ok")
    /\ i' = i - 1
    /\ UNCHANGED <<born, parent, prompts, known, phase, todo, ids, answers, late, stubborn,
                   gaveUp, resumed>>

AllDeleted ==
    /\ phase = "delete" /\ i = 0
    /\ Reply(~errors)
    /\ UNCHANGED <<server, known, todo, ids, i, errors, history>>

-----------------------------------------------------------------------------
ResetStep ==
    \/ Begin \/ NothingToReset \/ Visit \/ ListFails \/ AllListed
    \/ (\E outcome \in Outcomes : Abort(outcome)) \/ AllAborted
    \/ RootIsIdle \/ WaitTimesOut \/ WaitFails
    \/ (\E outcome \in Outcomes : Delete(outcome)) \/ AllDeleted

Next ==
    \/ ResetStep \/ Prompt
    \/ \E s \in Sessions : Finish(s) \/ \E child \in Sessions : Spawn(s, child)

Spec == Init /\ [][Next]_vars

-----------------------------------------------------------------------------
(***************************************************************************)
(* A first reset that succeeds leaves nothing of the tree it could see:    *)
(* whatever lives on was started below a session that was listed already.  *)
(* (Such sessions are possible: the tree is listed while it runs.)         *)
(***************************************************************************)
LeftoversAreLate == Len(answers) = 1 /\ answers[1] = "fresh" => live \subseteq late

(***************************************************************************)
(* A session of the list does not outlive its parent, unless the server    *)
(* refused to delete it: at every moment, also when the reset is cut off   *)
(* half-way, what is left can be reached from what is left above it.       *)
(***************************************************************************)
NoOrphans ==
    \A s \in Listed \cap live :
        s = Root \/ parent[s] \in live \/ s \in undeleted

(***************************************************************************)
(* No session is deleted under a run that nobody asked to stop: the run    *)
(* was told to and has not ended yet, or the server refused to tell it, or *)
(* it is the root's and began with a prompt after the abort.  And the root *)
(* is deleted under a run that was told to stop only when the wait for it  *)
(* was given up.  (A sub-session is never waited for.)                     *)
(***************************************************************************)
AskedBeforeDeleted ==
    [][\A s \in running \ live' :
         \/ s \in stubborn
         \/ s \in stopping /\ (s = Root => gaveUp)
         \/ s = Root /\ resumed]_vars
=============================================================================

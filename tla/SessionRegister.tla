-------------------------- MODULE SessionRegister --------------------------
(***************************************************************************)
(* What openCodeConversation.sessionID promises, whoever writes it: a      *)
(* session id names the conversation's session for at most one interval    *)
(* of time.  An id is installed when it is new, dropped (by a reset or     *)
(* because the server no longer knows it) or replaced by a newer one, and  *)
(* once it is no longer current it never becomes current again.            *)
(***************************************************************************)
CONSTANTS
    Sessions,       \* every id the OpenCode server can hand out
    Nil             \* no session ("" in the code)

VARIABLES
    current,        \* the conversation's session id, or Nil
    used            \* ids that were installed once, or can no longer be

vars == <<current, used>>

TypeOK ==
    /\ current \in Sessions \cup {Nil}
    /\ used \subseteq Sessions

Init ==
    /\ current = Nil
    /\ used = {}

\* A new id becomes the conversation's session.
Install(s) ==
    /\ s \notin used
    /\ current' = s
    /\ used' = used \cup {s}

\* The conversation forgets its session.
Drop ==
    /\ current # Nil
    /\ current' = Nil
    /\ UNCHANGED used

\* The server created a session whose id never reached the bot.
Waste(s) ==
    /\ s \notin used
    /\ used' = used \cup {s}
    /\ UNCHANGED current

Next == Drop \/ \E s \in Sessions : Install(s) \/ Waste(s)

Spec == Init /\ [][Next]_vars

\* The current session is among the used ones.
CurrentIsUsed == current \in used \cup {Nil}

(***************************************************************************)
(* A session that is no longer the conversation's never comes back: what a *)
(* reset has dropped, no late goroutine re-installs.                       *)
(***************************************************************************)
NeverReturns == [][\A s \in used : current # s => current' # s]_vars
=============================================================================

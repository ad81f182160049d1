---------------------------- MODULE BotLifecycle ----------------------------
(***************************************************************************)
(* What Client.Run is to its caller once it is initialized: it goes on     *)
(* until it is told to stop, and then it comes to an end.  Stop may be     *)
(* answered with an error of its own, the end of the context never is.     *)
(***************************************************************************)
VARIABLES
    stopped,    \* was Stop called?
    cancelled,  \* is the context done?
    phase       \* "running", "returned", "stopError" or "crashed"

lifeVars == <<stopped, cancelled, phase>>

LifeInit == stopped = FALSE /\ cancelled = FALSE /\ phase = "running"

Tell ==
    /\ \/ stopped' = TRUE /\ UNCHANGED cancelled
       \/ cancelled' = TRUE /\ UNCHANGED stopped
    /\ UNCHANGED phase

\* Run returns nil or the context's error, ...
Return ==
    /\ phase = "running" /\ (stopped \/ cancelled)
    /\ phase' = "returned"
    /\ UNCHANGED <<stopped, cancelled>>

\* ... errStopRequested, ...
ReturnError ==
    /\ phase = "running" /\ stopped
    /\ phase' = "stopError"
    /\ UNCHANGED <<stopped, cancelled>>

\* ... or not at all.
Crash ==
    /\ phase = "running" /\ (stopped \/ cancelled)
    /\ phase' = "crashed"
    /\ UNCHANGED <<stopped, cancelled>>

End == Return \/ ReturnError \/ Crash

LifeSafety == LifeInit /\ [][Tell \/ End]_lifeVars

LifeSpec == LifeSafety /\ WF_lifeVars(End)
=============================================================================

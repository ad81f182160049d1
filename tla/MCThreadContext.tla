--------------------------- MODULE MCThreadContext ---------------------------
(* The rooms TLC tries: each policy of a channel, a direct room, and one   *)
(* the bot is not to speak in.                                              *)
EXTENDS ThreadContext, TLC

Room(trigger, threadDefault) ==
    [dm |-> FALSE, enabled |-> TRUE, threadDefault |-> threadDefault, activeThreadTrigger |-> trigger]

MCPolicies ==
    {Room("auto", TRUE), Room("mention_only", TRUE), Room("mention_only", FALSE),
     [Room("auto", FALSE) EXCEPT !.dm = TRUE], [Room("auto", FALSE) EXCEPT !.enabled = FALSE]}
=============================================================================

------------------------------ MODULE MCProgram ------------------------------
(* Instances of Program for TLC: environments of up to two bots, most of    *)
(* them with one mistake; and a statement of the source's comments that the *)
(* code does not keep.                                                      *)
EXTENDS Program, TLC

Webhook == [url |-> TRUE, account |-> TRUE, slug |-> "alerts", generatorType |-> "",
            webhook |-> TRUE, webhookAuth |-> TRUE, parserType |-> "n8n",
            opencode |-> FALSE, permissionMode |-> "", modes |-> TRUE,
            policies |-> "unset", rooms |-> {}, apiToken |-> "t1"]
OpenCode == [Webhook EXCEPT !.slug = "my-bot-1", !.generatorType = "opencode", !.webhook = FALSE,
                            !.webhookAuth = FALSE, !.parserType = "", !.apiToken = "t2"]

Rooms(overrides, enabled) ==
    [OpenCode EXCEPT !.policies = "json",
                     !.rooms = {[named |-> TRUE, enabled |-> enabled, overrides |-> overrides]}]

Good == {Webhook, OpenCode, [OpenCode EXCEPT !.apiToken = ""]}

Bad == {[Webhook EXCEPT !.url = FALSE], [Webhook EXCEPT !.account = FALSE],
        [Webhook EXCEPT !.slug = "My Bot"], [OpenCode EXCEPT !.slug = "alerts"],
        [Webhook EXCEPT !.parserType = "sse"], [Webhook EXCEPT !.webhook = FALSE],
        [Webhook EXCEPT !.opencode = TRUE], [OpenCode EXCEPT !.generatorType = "other"],
        [OpenCode EXCEPT !.permissionMode = "ask"], [OpenCode EXCEPT !.webhook = TRUE],
        [OpenCode EXCEPT !.modes = FALSE], [OpenCode EXCEPT !.policies = "malformed"],
        [OpenCode EXCEPT !.policies = "json"], Rooms("nothing", TRUE), Rooms("unknown", TRUE)}

GoodRooms == {Rooms("known", TRUE), Rooms("blank", TRUE), Rooms("nothing", FALSE)}

MCEnvironments == {<<>>} \cup {<<s>> : s \in Good \cup GoodRooms \cup Bad}
                    \cup {<<s, t>> : s \in Good, t \in Good \cup Bad}

MCBody(kind, name) == [readable |-> TRUE, text |-> TRUE, target |-> Target(kind, name)]
MCBodies == {MCBody("username", "alice"), MCBody("channel", "general"), MCBody("channel", "ops"),
             MCBody("channel", "nowhere"), MCBody("roomId", "r1"), MCBody("several", ""),
             [MCBody("none", "") EXCEPT !.readable = FALSE],
             [MCBody("roomId", "r1") EXCEPT !.text = FALSE]}

MCTwoBots == {<<Webhook, OpenCode>>}

(***************************************************************************)
(* bot/client.go 589, "Stop gracefully stops the bot": once every bot has  *)
(* been created, the program gives up only for a bot that failed by        *)
(* itself, not for one that main is stopping.  (It does when the loop asks *)
(* checkForStop after Stop: the error it gets is returned as it is.)       *)
(***************************************************************************)
StopIsNoFailure ==
    pc = "exited" /\ exitStatus = 1 /\ created > 0 => \E k \in 1..created : run[k] = "failed"
=============================================================================

---------------------------- MODULE Configuration ----------------------------
(***************************************************************************)
(* Which configurations the program starts with (config/config.go) and     *)
(* what it makes of one bot's (createBot and newGenerator of               *)
(* cmd/rocketbot/main.go).  An environment gives settings to the numbers   *)
(* 1, 2, ...; a setting is what the checks tell apart of its variable.     *)
(***************************************************************************)
EXTENDS Naturals, Sequences

\* A room of ROOM_POLICIES_JSON; what it overrides: nothing, one setting whose
\* value is blank, or values that are known or not.
RoomPolicies == [named : BOOLEAN, enabled : BOOLEAN,
                 overrides : {"nothing", "blank", "known", "unknown"}]

\* The variables of one bot.
Settings == [
    url : BOOLEAN,              \* is BOTn_URL set?
    account : BOOLEAN,          \* USER_ID and TOKEN
    slug : STRING,
    generatorType : STRING,
    webhook : BOOLEAN,          \* WEBHOOK_URL
    webhookAuth : BOOLEAN,
    parserType : STRING,
    opencode : BOOLEAN,         \* one of OPENCODE_BASE_URL, _AUTH, _SESSION_DIR
    permissionMode : STRING,
    modes : BOOLEAN,            \* RENDER_MODE and ACTIVE_THREAD_TRIGGER unset or known
    policies : {"unset", "malformed", "json"},
    rooms : SUBSET RoomPolicies,
    apiToken : STRING]

SlugPattern == {"alerts", "my-bot-1"}

\* strings.TrimSpace, of what a policy overrides.
Trimmed(overrides) == IF overrides = "blank" THEN "nothing" ELSE overrides

-----------------------------------------------------------------------------
(* config.Load: the bots before the first number without a URL.  Whichever *)
(* check fails, Load returns an error and the program ends.                *)

Bots(env) == {k \in DOMAIN env : \A j \in 1..k : env[j].url}

SlugAccepted(env, k) ==
    /\ env[k].slug \in SlugPattern
    /\ \A j \in 1..(k - 1) : env[j].slug # env[k].slug

GeneratorType(s) == IF s.generatorType = "" THEN "webhook" ELSE s.generatorType

\* MUTANT: only that there is a parser type is checked.
AnyParserAccepted(s) ==
    \/ /\ GeneratorType(s) = "webhook"
       /\ ~s.opencode /\ s.permissionMode = ""
       /\ s.webhook /\ s.parserType # ""
    \/ /\ GeneratorType(s) = "opencode"
       /\ s.permissionMode \in {"", "allow", "deny"}
       /\ s.parserType = "" /\ ~s.webhook /\ ~s.webhookAuth

GeneratorAccepted(s) ==
    \/ /\ GeneratorType(s) = "webhook"
       /\ ~s.opencode /\ s.permissionMode = ""
       /\ s.webhook /\ s.parserType = "n8n"
    \/ /\ GeneratorType(s) = "opencode"
       /\ s.permissionMode \in {"", "allow", "deny"}
       /\ s.parserType = "" /\ ~s.webhook /\ ~s.webhookAuth

\* parseRoomPoliciesJSON looks for an override before it trims them.
PoliciesAccepted(s) ==
    \/ s.policies = "unset"
    \/ /\ s.policies = "json" /\ s.rooms # {}
       /\ \A policy \in s.rooms :
            /\ policy.named
            /\ policy.enabled =>
                 policy.overrides # "nothing" /\ Trimmed(policy.overrides) # "unknown"

Accepted(env) ==
    /\ Bots(env) # {}
    /\ \A k \in Bots(env) :
         /\ SlugAccepted(env, k) /\ env[k].account
         /\ GeneratorAccepted(env[k]) /\ env[k].modes /\ PoliciesAccepted(env[k])

-----------------------------------------------------------------------------
\* createBot fails when newGenerator does.
CanBeCreated(s) ==
    \/ GeneratorType(s) = "webhook" /\ s.parserType = "n8n"
    \/ GeneratorType(s) = "opencode"
=============================================================================

------------------------------- MODULE Program -------------------------------
(***************************************************************************)
(* The program from its start to its end (main of cmd/rocketbot/main.go):  *)
(* the configuration, the bots with one goroutine each, the HTTP API that  *)
(* lets others post as a bot (internal/httpapi/server.go), and the end on  *)
(* a signal or on a failure.  Of Client.Run it has initialize in full; the *)
(* loop after it is what WebSocketSession shows it to be, a BotLifecycle:  *)
(* it goes on until it is told to stop, and then returns, with or without  *)
(* an error, or crashes.                                                   *)
(***************************************************************************)
EXTENDS Configuration, FiniteSets

CONSTANTS
    Environments,   \* what the environment may hold
    Requests,       \* requests to the HTTP API
    Slugs, Tokens, Bodies,          \* what a request may carry
    PublicChannels, PrivateGroups   \* names on the server

VARIABLES
    \* main
    env, pc, created, apiUp, exitStatus,
    signalled,      \* was the signal, and with it ctx's end, delivered?
    stopped,        \* of how many bots Stop was called
    \* the goroutines of the bots
    run,
    \* the HTTP API
    handler, request, room, status,
    \* Rocket.Chat
    posts           \* what each request had posted: by which bot, where

mainVars == <<env, pc, created, apiUp, exitStatus, signalled, stopped>>
http == <<handler, request, room, status, posts>>
vars == <<mainVars, run, http>>

Kinds == {"username", "channel", "roomId", "none", "several"}
Target(kind, name) == [kind |-> kind, name |-> name]

\* A body passes the decoder and has a text, or not.
Body == [readable : BOOLEAN, text : BOOLEAN, target : [kind : Kinds, name : STRING]]
Request == [slug : Slugs, token : Tokens, body : Bodies]

ASSUME EnvironmentsAssumption == \A e \in Environments : e \in Seq(Settings)
ASSUME RequestsAssumption ==
    Slugs \subseteq STRING /\ Tokens \subseteq STRING /\ Bodies \subseteq Body

\* Rocket.Chat's room for a name (a direct room is one bot's with that user).
NoRoom == <<>>
RoomOf(k, target) ==
    <<target.kind, target.name, IF target.kind = "username" THEN k ELSE 0>>

Init ==
    /\ env \in Environments
    /\ pc = "load" /\ created = 0 /\ apiUp = FALSE /\ exitStatus = 0
    /\ signalled = FALSE /\ stopped = 0
    /\ run = [k \in DOMAIN env |-> "none"]
    /\ handler = [r \in Requests |-> "none"]
    /\ request = [r \in Requests |-> [slug |-> "", token |-> ""]]
    /\ room = [r \in Requests |-> NoRoom]
    /\ status = [r \in Requests |-> 0]
    /\ posts = [r \in Requests |-> <<>>]

-----------------------------------------------------------------------------
(* main.                                                                   *)

Exit(code) == pc' = "exited" /\ exitStatus' = code

Load ==
    /\ pc = "load"
    /\ IF Accepted(env) THEN pc' = "create" /\ UNCHANGED exitStatus ELSE Exit(1)
    /\ UNCHANGED <<env, created, apiUp, signalled, stopped, run, http>>

CreateBot ==
    /\ pc = "create" /\ created + 1 \in Bots(env)
    /\ IF CanBeCreated(env[created + 1])
       THEN /\ created' = created + 1
            /\ run' = [run EXCEPT ![created + 1] = "username"]
            /\ UNCHANGED <<pc, exitStatus>>
       ELSE Exit(1) /\ UNCHANGED <<created, run>>
    /\ UNCHANGED <<env, apiUp, signalled, stopped, http>>

\* API_ADDR is set or not, and a listener that fails is only logged.
Exposed(k) == env[k].apiToken # ""

StartAPI ==
    /\ pc = "create" /\ created + 1 \notin Bots(env)
    /\ pc' = "wait"
    /\ apiUp' \in IF \E k \in Bots(env) : Exposed(k) THEN BOOLEAN ELSE {FALSE}
    /\ UNCHANGED <<env, created, exitStatus, signalled, stopped, run, http>>

Signal ==
    /\ pc # "exited" /\ ~signalled
    /\ signalled' = TRUE
    /\ UNCHANGED <<env, pc, created, apiUp, exitStatus, stopped, run, http>>

\* Stop of one bot after the other: its stopChan is closed.
StopBot ==
    /\ pc = "wait" /\ signalled /\ stopped < created
    /\ stopped' = stopped + 1
    /\ UNCHANGED <<env, pc, created, apiUp, exitStatus, signalled, run, http>>

\* MUTANT: a goroutine that failed counts for the WaitGroup as well.
JoinFailed ==
    /\ pc = "wait" /\ signalled /\ stopped = created
    /\ \A k \in 1..created : run[k] \in {"returned", "stopError", "failed"}
    /\ Exit(0)
    /\ UNCHANGED <<env, created, apiUp, signalled, stopped, run, http>>

\* The end of main, past wg.Wait.
Join ==
    /\ pc = "wait" /\ signalled /\ stopped = created
    /\ \A k \in 1..created : run[k] = "returned"
    /\ Exit(0)
    /\ UNCHANGED <<env, created, apiUp, signalled, stopped, run, http>>

-----------------------------------------------------------------------------
(* The goroutine of a bot: Client.Run.                                     *)

\* initialize: FetchUsername, SetStatusOnline, GetSubscriptions.  They know no
\* context: a signal does not cut them short.
AfterCall(phase) ==
    CASE phase = "username" -> "status"
      [] phase = "status" -> "subscriptions"
      [] phase = "subscriptions" -> "loop"

Initialize(k) ==
    /\ pc # "exited" /\ run[k] \in {"username", "status", "subscriptions"}
    /\ run' = [run EXCEPT ![k] = AfterCall(@)]
    /\ UNCHANGED <<mainVars, http>>

InitializeFails(k) ==
    /\ pc # "exited" /\ run[k] \in {"username", "status", "subscriptions"}
    /\ run' = [run EXCEPT ![k] = "failed"]
    /\ UNCHANGED <<mainVars, http>>

\* MUTANT: a bot that failed is logged only.
ExitOnErrorLogged(k) ==
    /\ pc # "exited" /\ run[k] \in {"failed", "stopError"}
    /\ UNCHANGED vars

\* "bot exited with error" is logged, then the program ends for all bots.
ExitOnError(k) ==
    /\ pc # "exited" /\ run[k] \in {"failed", "stopError"}
    /\ Exit(1)
    /\ UNCHANGED <<env, created, apiUp, signalled, stopped, run, http>>

\* The loop as a BotLifecycle whose context ends with the signal: Run returns
\* nil or the context's error; ...
Return(k) ==
    /\ pc # "exited" /\ run[k] = "loop" /\ signalled
    /\ run' = [run EXCEPT ![k] = "returned"]
    /\ UNCHANGED <<mainVars, http>>

\* ... once its stopChan is closed perhaps errStopRequested, which main takes
\* for a failure; ...
ReturnStopError(k) ==
    /\ pc # "exited" /\ run[k] = "loop" /\ k <= stopped
    /\ run' = [run EXCEPT ![k] = "stopError"]
    /\ UNCHANGED <<mainVars, http>>

\* ... or the panic that WebSocketSession's GracefulStop is about ends all.
Crash(k) ==
    /\ pc # "exited" /\ run[k] = "loop" /\ signalled
    /\ Exit(2)
    /\ UNCHANGED <<env, created, apiUp, signalled, stopped, run, http>>

-----------------------------------------------------------------------------
(* handleSend.  Nobody shuts the server down: what is under way when main  *)
(* ends is cut off.                                                        *)

Receive(r, q) ==
    /\ pc # "exited" /\ apiUp /\ handler[r] = "none"
    /\ handler' = [handler EXCEPT ![r] = "check"]
    /\ request' = [request EXCEPT ![r] = q]
    /\ UNCHANGED <<mainVars, run, room, status, posts>>

Answer(r, code) ==
    /\ handler' = [handler EXCEPT ![r] = "answered"]
    /\ status' = [status EXCEPT ![r] = code]

\* botMap and tokenMap: a later bot with the same slug replaces an earlier one.
Named(slug) == {k \in Bots(env) : Exposed(k) /\ env[k].slug = slug}
BotOf(slug) == CHOOSE k \in Named(slug) : \A j \in Named(slug) : j <= k

\* MUTANT: any exposed bot's token opens every bot.
AnyTokenFits(q) ==
    Named(q.slug) # {} /\ \E k \in Bots(env) : Exposed(k) /\ q.token = env[k].apiToken

TokenFits(q) == Named(q.slug) # {} /\ q.token = env[BotOf(q.slug)].apiToken

CheckFails(r) ==
    /\ pc # "exited" /\ handler[r] = "check"
    /\ \/ ~TokenFits(request[r]) /\ Answer(r, 401)
       \/ /\ TokenFits(request[r])
          /\ LET body == request[r].body IN
               ~body.readable \/ ~body.text \/ body.target.kind \in {"none", "several"}
          /\ Answer(r, 400)
    /\ UNCHANGED <<mainVars, run, request, room, posts>>

CheckPasses(r) ==
    /\ pc # "exited" /\ handler[r] = "check" /\ TokenFits(request[r])
    /\ request[r].body.readable /\ request[r].body.text
    /\ request[r].body.target.kind \notin {"none", "several"}
    /\ handler' = [handler EXCEPT ![r] = request[r].body.target.kind]
    /\ UNCHANGED <<mainVars, run, request, room, status, posts>>

Client(r) == BotOf(request[r].slug)
Asked(r) == request[r].body.target

Resolved(r) ==
    /\ room' = [room EXCEPT ![r] = RoomOf(Client(r), Asked(r))]
    /\ handler' = [handler EXCEPT ![r] = "post"]
    /\ UNCHANGED <<mainVars, run, request, status, posts>>

\* EnsureDMRoom, and a room that was given by its id.
ResolveDirect(r) ==
    /\ pc # "exited" /\ handler[r] \in {"username", "roomId"}
    /\ Resolved(r)

\* ResolveChannel: channels.info, then groups.info.
ResolveChannel(r) ==
    /\ pc # "exited"
    /\ \/ handler[r] = "channel" /\ Asked(r).name \in PublicChannels
       \/ handler[r] = "group" /\ Asked(r).name \in PrivateGroups
    /\ Resolved(r)

\* Not found, or refused for whatever reason.
NoChannel(r) ==
    /\ pc # "exited" /\ handler[r] = "channel"
    /\ handler' = [handler EXCEPT ![r] = "group"]
    /\ UNCHANGED <<mainVars, run, request, room, status, posts>>

ResolveFails(r) ==
    /\ pc # "exited" /\ handler[r] \in {"username", "channel", "group"}
    /\ Answer(r, 422)
    /\ UNCHANGED <<mainVars, run, request, room, posts>>

Posted(r) == posts' = [posts EXCEPT ![r] = Append(@, <<Client(r), room[r]>>)]

Post(r) ==
    /\ pc # "exited" /\ handler[r] = "post"
    /\ Posted(r)
    /\ Answer(r, 200)
    /\ UNCHANGED <<mainVars, run, request, room>>

\* Refused, or posted and the answer lost.
PostFails(r) ==
    /\ pc # "exited" /\ handler[r] = "post"
    /\ UNCHANGED posts \/ Posted(r)
    /\ Answer(r, 500)
    /\ UNCHANGED <<mainVars, run, request, room>>

-----------------------------------------------------------------------------
MainStep == Load \/ CreateBot \/ StartAPI \/ StopBot \/ Join
BotStep(k) ==
    \/ Initialize(k) \/ InitializeFails(k) \/ ExitOnError(k)
    \/ Return(k) \/ ReturnStopError(k) \/ Crash(k)
HandlerStep(r) ==
    \/ CheckFails(r) \/ CheckPasses(r) \/ ResolveDirect(r) \/ ResolveChannel(r)
    \/ NoChannel(r) \/ ResolveFails(r) \/ Post(r) \/ PostFails(r)

Next ==
    \/ MainStep \/ Signal
    \/ \E k \in DOMAIN env : BotStep(k)
    \/ \E r \in Requests : HandlerStep(r) \/ \E q \in Request : Receive(r, q)

Spec == Init /\ [][Next]_vars

(***************************************************************************)
(* Fairness: the goroutines run, Rocket.Chat answers each call of          *)
(* initialize (the HTTP client has no timeout), and a bot that is told to  *)
(* stop does, which WebSocketSession shows.                                *)
(***************************************************************************)
FairSpec ==
    /\ Spec /\ WF_vars(MainStep)
    /\ \A k \in UNION {DOMAIN e : e \in Environments} : WF_vars(k \in DOMAIN env /\ BotStep(k))

-----------------------------------------------------------------------------
(***************************************************************************)
(* The exit status tells what happened.  0: the program was told to end    *)
(* and every bot has returned; a bot that failed while the others were     *)
(* ending is not lost.  1, once a bot was created: a bot failed in         *)
(* initialize, or main had told it to stop and it reported that as an      *)
(* error, never a signal by itself.  2: a bot was still at work when the   *)
(* signal came.  (What Load accepts can be created: no bot has begun to    *)
(* work when the program gives up because of another one's settings.)      *)
(***************************************************************************)
ToldByMain(k) == signalled /\ k <= stopped /\ Bots(env) \subseteq 1..created

StatusTellsTheTruth ==
    pc = "exited" =>
        /\ exitStatus = 0 => signalled /\ \A k \in Bots(env) : run[k] = "returned"
        /\ exitStatus = 1 /\ created > 0 =>
             \E k \in 1..created : run[k] = "failed" \/ (run[k] = "stopError" /\ ToldByMain(k))
        /\ exitStatus = 2 => signalled /\ \E k \in 1..created : run[k] = "loop"

(***************************************************************************)
(* What a request is answered is what happened: 200 for one message, as    *)
(* the bot whose slug and token it gave, where it said; 401, 400 and 422   *)
(* for none; 401 only when no bot has that slug and token.  Only after 500 *)
(* (or when the program ended) it is open whether it was posted.           *)
(***************************************************************************)
AsAsked(r, post) ==
    /\ env[post[1]].slug = request[r].slug /\ env[post[1]].apiToken = request[r].token
    /\ post[2] = RoomOf(post[1], Asked(r))

AnswerTellsTheTruth ==
    \A r \in Requests :
        /\ status[r] = 200 => Len(posts[r]) = 1
        /\ status[r] \in {400, 401, 422} => posts[r] = <<>>
        /\ Len(posts[r]) <= 1
        /\ \A i \in DOMAIN posts[r] : AsAsked(r, posts[r][i])
        /\ status[r] = 401 =>
             \A k \in Bots(env) :
                 Exposed(k) => env[k].slug # request[r].slug \/ env[k].apiToken # request[r].token

(***************************************************************************)
(* A signal ends the program, whenever it comes: before the bots are       *)
(* created, while they initialize or run, and with requests under way.  So *)
(* does a bot that cannot initialize.                                      *)
(***************************************************************************)
EndsWhenToldOrFailed ==
    (signalled \/ \E k \in DOMAIN env : run[k] = "failed") ~> pc = "exited"
=============================================================================

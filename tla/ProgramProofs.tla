---------------------------- MODULE ProgramProofs ----------------------------
(* Theorems about Program, for any environments, requests and bodies, and   *)
(* any number of bots.                                                      *)
EXTENDS Program, TLAPS

RunPhases == {"none", "username", "status", "subscriptions", "loop", "failed", "returned",
              "stopError"}
Targeted == {"username", "channel", "group", "roomId", "post"}

\* What main has checked, which bots it has created, and which it has stopped.
Starting ==
    /\ env \in Environments
    /\ pc \in {"load", "create", "wait", "exited"}
    /\ created \in Nat /\ 1..created \subseteq Bots(env)
    /\ run \in [DOMAIN env -> RunPhases]
    /\ \A k \in DOMAIN env : run[k] # "none" => k \in 1..created
    /\ pc = "load" => created = 0
    /\ pc \notin {"load", "exited"} \/ apiUp => Accepted(env)
    /\ pc = "wait" => Bots(env) \subseteq 1..created
    /\ stopped \in Nat
    /\ stopped > 0 => signalled /\ Bots(env) \subseteq 1..created
    /\ \A k \in DOMAIN env : run[k] = "stopError" => ToldByMain(k)

\* In environment e, bot k is the one that request q has the slug and token of.
Speaks(e, k, q) ==
    /\ k \in Bots(e) /\ e[k].apiToken # ""
    /\ e[k].slug = q.slug /\ e[k].apiToken = q.token

\* Where a request is, what it has been found to be, and what it has posted.
ServingOf(r) ==
    /\ handler[r] # "none" => Accepted(env) /\ request[r].body.target.kind \in Kinds
    /\ handler[r] # "answered" => status[r] = 0 /\ posts[r] = <<>>
    /\ handler[r] \in Targeted => \E k : Speaks(env, k, request[r])
    /\ handler[r] = "post" =>
         \E k : Speaks(env, k, request[r]) /\ room[r] = RoomOf(k, request[r].body.target)
    /\ \/ posts[r] = <<>>
       \/ \E k : /\ Speaks(env, k, request[r])
                /\ posts[r] = <<<<k, RoomOf(k, request[r].body.target)>>>>
    /\ status[r] = 200 => posts[r] # <<>>
    /\ status[r] \in {400, 401, 422} => posts[r] = <<>>
    /\ status[r] = 401 => ~\E k : Speaks(env, k, request[r])

Serving ==
    /\ DOMAIN handler = Requests /\ DOMAIN request = Requests /\ DOMAIN room = Requests
    /\ DOMAIN status = Requests /\ DOMAIN posts = Requests
    /\ \A r \in Requests : ServingOf(r)

IInv == Starting /\ StatusTellsTheTruth /\ Serving

-----------------------------------------------------------------------------
(* What an accepted configuration guarantees.                              *)

LEMMA AcceptedCanBeCreated ==
  ASSUME Accepted(env), NEW k \in Bots(env) PROVE CanBeCreated(env[k])
  BY DEF Accepted, GeneratorAccepted, CanBeCreated

LEMMA BotsAreAPrefix ==
  ASSUME env \in Environments, NEW k \in Bots(env), NEW c \in Nat, c + 1 \notin Bots(env),
         1..c \subseteq Bots(env)
  PROVE  k \in 1..c
<1>1. env \in Seq(Settings) /\ k \in DOMAIN env /\ k \in Nat \ {0}
  BY EnvironmentsAssumption DEF Bots
<1>2. CASE k > c
  <2>1. c + 1 \in DOMAIN env
    BY <1>1, <1>2
  <2>2. \A j \in 1..(c + 1) : env[j].url
    BY <1>1, <1>2 DEF Bots
  <2> QED BY <2>1, <2>2 DEF Bots
<1> QED BY <1>1, <1>2

\* Slugs are unique, so a slug names one bot.
LEMMA OneBotPerSlug ==
  ASSUME env \in Environments, Accepted(env), NEW slug, NEW k \in Named(slug)
  PROVE  BotOf(slug) = k
<1>1. \A j \in Bots(env) : j \in Nat \ {0}
  BY EnvironmentsAssumption DEF Bots
<1>2. \A i, j \in Bots(env) : env[i].slug = env[j].slug => i = j
  <2> SUFFICES ASSUME NEW i \in Bots(env), NEW j \in Bots(env), i < j PROVE env[i].slug # env[j].slug
    BY <1>1
  <2>1. i \in 1..(j - 1)
    BY <1>1
  <2> QED BY <2>1 DEF Accepted, SlugAccepted
<1>3. Named(slug) = {k}
  BY <1>2 DEF Named
<1>4. k <= k
  BY <1>1 DEF Named
<1> QED BY <1>3, <1>4 DEF BotOf

LEMMA TokenFitsOneBot ==
  ASSUME env \in Environments, Accepted(env), NEW q
  PROVE  /\ TokenFits(q) <=> \E k : Speaks(env, k, q)
         /\ \A k : Speaks(env, k, q) => BotOf(q.slug) = k
<1>1. \A k : Speaks(env, k, q) => k \in Named(q.slug)
  BY DEF Speaks, Named, Exposed
<1>2. \A k \in Named(q.slug) : BotOf(q.slug) = k
  BY OneBotPerSlug
<1>3. ASSUME TokenFits(q) PROVE \E k : Speaks(env, k, q)
  <2>1. PICK k \in Named(q.slug) : TRUE
    BY <1>3 DEF TokenFits
  <2>2. q.token = env[k].apiToken
    BY <1>2, <1>3, <2>1 DEF TokenFits
  <2>3. k \in Bots(env) /\ env[k].apiToken # "" /\ env[k].slug = q.slug
    BY <2>1 DEF Named, Exposed
  <2> QED BY <2>2, <2>3 DEF Speaks
<1>4. ASSUME NEW k, Speaks(env, k, q) PROVE TokenFits(q)
  <2>1. Named(q.slug) # {} /\ BotOf(q.slug) = k
    BY <1>1, <1>2, <1>4
  <2> QED BY <1>4, <2>1 DEF TokenFits, Speaks
<1> QED BY <1>1, <1>2, <1>3, <1>4

-----------------------------------------------------------------------------
(* The invariant is inductive.                                             *)

LEMMA Initially == Init => IInv
<1> SUFFICES ASSUME Init PROVE IInv
  OBVIOUS
<1>1. Starting
  <2>0. created = 0 /\ pc = "load" /\ apiUp = FALSE /\ stopped = 0 /\ env \in Environments
    BY DEF Init
  <2>1. 1..created = {}
    BY <2>0
  <2>2. run \in [DOMAIN env -> RunPhases] /\ \A k \in DOMAIN env : run[k] = "none"
    BY DEF Init, RunPhases
  <2> QED BY <2>0, <2>1, <2>2 DEF Starting
<1>2. StatusTellsTheTruth
  BY DEF Init, StatusTellsTheTruth
<1>3. Serving
  <2>1. /\ DOMAIN handler = Requests /\ DOMAIN request = Requests /\ DOMAIN room = Requests
        /\ DOMAIN status = Requests /\ DOMAIN posts = Requests
    BY DEF Init
  <2>2. \A r \in Requests : handler[r] = "none" /\ status[r] = 0 /\ posts[r] = <<>>
    BY DEF Init
  <2> QED BY <2>1, <2>2 DEF Serving, ServingOf, Targeted
<1> QED BY <1>1, <1>2, <1>3 DEF IInv

\* main and the bots leave the requests alone.
LEMMA RequestsLeftAlone ==
  ASSUME Serving, UNCHANGED <<http, env>> PROVE Serving'
  BY DEF Serving, ServingOf, http

\* The requests leave main and the bots alone.
LEMMA ProgramLeftAlone ==
  ASSUME Starting, StatusTellsTheTruth, UNCHANGED <<mainVars, run>>
  PROVE  Starting' /\ StatusTellsTheTruth'
  BY DEF Starting, StatusTellsTheTruth, ToldByMain, mainVars, Bots, Accepted, SlugAccepted

LEMMA MainKeeps ==
  ASSUME IInv, MainStep \/ Signal PROVE IInv'
<1> USE DEF IInv, mainVars
<1>1. Serving'
  BY RequestsLeftAlone DEF MainStep, Load, CreateBot, StartAPI, StopBot, Join, Signal
<1>2. CASE Load
  BY <1>1, <1>2 DEF Load, Exit, Starting, StatusTellsTheTruth, ToldByMain, Bots
<1>3. CASE CreateBot
  <2>1. /\ pc = "create" /\ created \in Nat /\ created + 1 \in Bots(env) /\ Accepted(env)
        /\ UNCHANGED <<env, apiUp, signalled, stopped>>
    BY <1>3 DEF CreateBot, Starting
  <2>2. CanBeCreated(env[created + 1])
    BY <2>1, AcceptedCanBeCreated
  <2>3. /\ created' = created + 1 /\ run' = [run EXCEPT ![created + 1] = "username"]
        /\ UNCHANGED <<pc, exitStatus>>
    BY <1>3, <2>2 DEF CreateBot
  <2>4. 1..created' = 1..created \cup {created + 1}
    BY <2>1, <2>3
  <2>5. run' \in [DOMAIN env -> RunPhases]
    BY <2>3 DEF Starting, RunPhases
  <2>6. \A k \in DOMAIN env : run'[k] # "none" => k \in 1..created'
    BY <2>3, <2>4 DEF Starting
  <2>7. \A k \in DOMAIN env : run'[k] = "stopError" => ToldByMain(k)'
    BY <2>1, <2>3, <2>4 DEF Starting, ToldByMain, Bots
  <2>8. stopped > 0 => Bots(env) \subseteq 1..created'
    BY <2>4 DEF Starting
  <2>9. Starting'
    BY <2>1, <2>3, <2>4, <2>5, <2>6, <2>7, <2>8 DEF Starting, Bots
  <2> QED BY <1>1, <2>1, <2>3, <2>9 DEF StatusTellsTheTruth
<1>4. CASE StartAPI
  <2>1. \A k \in Bots(env) : k \in 1..created
    BY <1>4, BotsAreAPrefix DEF StartAPI, Starting
  <2>2. /\ pc = "create" /\ pc' = "wait" /\ Accepted(env)
        /\ UNCHANGED <<env, created, exitStatus, signalled, stopped, run>>
    BY <1>4 DEF StartAPI, Starting
  <2>3. Starting'
    BY <2>1, <2>2 DEF Starting, ToldByMain, Bots
  <2> QED BY <1>1, <2>2, <2>3 DEF StatusTellsTheTruth
<1>5. CASE Signal
  BY <1>1, <1>5 DEF Signal, Starting, StatusTellsTheTruth, ToldByMain, Bots
<1>6. CASE Join
  BY <1>1, <1>6 DEF Join, Exit, Starting, StatusTellsTheTruth, ToldByMain, Bots
<1>7. CASE StopBot
  <2>1. /\ pc = "wait" /\ signalled /\ Bots(env) \subseteq 1..created
        /\ stopped \in Nat /\ stopped' = stopped + 1
        /\ UNCHANGED <<env, pc, created, apiUp, exitStatus, signalled, run>>
    BY <1>7 DEF StopBot, Starting
  <2>2. DOMAIN env \subseteq Nat
    BY EnvironmentsAssumption DEF Starting
  <2>3. \A k \in DOMAIN env : ToldByMain(k) => ToldByMain(k)'
    BY <2>1, <2>2 DEF ToldByMain, Bots
  <2>4. Starting'
    BY <2>1, <2>3 DEF Starting, Bots
  <2> QED BY <1>1, <2>1, <2>4 DEF StatusTellsTheTruth
<1> QED BY <1>2, <1>3, <1>4, <1>5, <1>6, <1>7 DEF MainStep

LEMMA BotKeeps ==
  ASSUME IInv, NEW k \in DOMAIN env, BotStep(k) PROVE IInv'
<1> USE DEF IInv, mainVars
<1>1. Serving'
  BY RequestsLeftAlone DEF BotStep, Initialize, InitializeFails, ExitOnError, Return,
     ReturnStopError, Crash
<1>2. CASE Initialize(k)
  <2>1. AfterCall(run[k]) \in RunPhases \ {"none", "stopError"}
    BY <1>2 DEF Initialize, AfterCall, RunPhases
  <2> QED BY <1>1, <1>2, <2>1 DEF Initialize, Starting, StatusTellsTheTruth, ToldByMain, Bots
<1>3. CASE InitializeFails(k) \/ Return(k)
  BY <1>1, <1>3 DEF InitializeFails, Return, Starting, StatusTellsTheTruth, RunPhases, ToldByMain, Bots
<1>4. CASE ExitOnError(k)
  <2>1. k \in 1..created /\ (run[k] = "stopError" => ToldByMain(k))
    BY <1>4 DEF ExitOnError, Starting
  <2>2. /\ pc' = "exited" /\ exitStatus' = 1 /\ run[k] \in {"failed", "stopError"}
        /\ UNCHANGED <<env, created, apiUp, signalled, stopped, run>>
    BY <1>4 DEF ExitOnError, Exit
  <2>3. StatusTellsTheTruth'
    BY <2>1, <2>2 DEF StatusTellsTheTruth, ToldByMain, Bots
  <2> QED BY <1>1, <2>2, <2>3 DEF Starting, ToldByMain, Bots
<1>5. CASE Crash(k)
  BY <1>1, <1>5 DEF Crash, Exit, Starting, StatusTellsTheTruth, ToldByMain, Bots
<1>6. CASE ReturnStopError(k)
  <2>1. /\ pc # "exited" /\ run[k] = "loop" /\ k <= stopped /\ k \in Nat \ {0}
        /\ run' = [run EXCEPT ![k] = "stopError"] /\ UNCHANGED mainVars
    BY <1>6, EnvironmentsAssumption DEF ReturnStopError, Starting
  <2>2. k \in 1..created /\ stopped > 0
    BY <2>1 DEF Starting
  <2>3. ToldByMain(k)'
    BY <2>1, <2>2 DEF Starting, ToldByMain, Bots
  <2>4. Starting'
    BY <2>1, <2>2, <2>3 DEF Starting, RunPhases, ToldByMain, Bots
  <2> QED BY <1>1, <2>1, <2>4 DEF StatusTellsTheTruth
<1> QED BY <1>2, <1>3, <1>4, <1>5, <1>6 DEF BotStep

LEMMA OthersLeftAlone ==
  ASSUME Serving, NEW r \in Requests, UNCHANGED env,
         NEW q \in Requests \ {r},
         handler'[q] = handler[q], request'[q] = request[q], room'[q] = room[q],
         status'[q] = status[q], posts'[q] = posts[q]
  PROVE  ServingOf(q)'
  BY DEF Serving, ServingOf

LEMMA HandlerKeeps ==
  ASSUME IInv, NEW r \in Requests, HandlerStep(r) \/ \E q \in Request : Receive(r, q) PROVE IInv'
<1> USE DEF IInv, mainVars
<1>1. UNCHANGED <<mainVars, run>>
  BY DEF HandlerStep, CheckFails, CheckPasses, ResolveDirect, ResolveChannel, NoChannel,
     ResolveFails, Post, PostFails, Receive, Resolved
<1>2. Starting' /\ StatusTellsTheTruth'
  BY <1>1, ProgramLeftAlone
<1>3. /\ DOMAIN handler' = Requests /\ DOMAIN request' = Requests /\ DOMAIN room' = Requests
      /\ DOMAIN status' = Requests /\ DOMAIN posts' = Requests
      /\ \A q \in Requests \ {r} :
           /\ handler'[q] = handler[q] /\ request'[q] = request[q] /\ room'[q] = room[q]
           /\ status'[q] = status[q] /\ posts'[q] = posts[q]
  BY DEF HandlerStep, CheckFails, CheckPasses, ResolveDirect, ResolveChannel, NoChannel,
     ResolveFails, Post, PostFails, Receive, Resolved, Answer, Posted, Serving
<1>4. \A q \in Requests \ {r} : ServingOf(q)'
  BY <1>1, <1>3, OthersLeftAlone
<1>5. ServingOf(r)'
  <2>0. /\ env' = env /\ env \in Environments /\ ServingOf(r)
        /\ DOMAIN handler = Requests /\ DOMAIN request = Requests /\ DOMAIN room = Requests
        /\ DOMAIN status = Requests /\ DOMAIN posts = Requests
    BY <1>1 DEF Serving, Starting
  <2>1. CASE \E q \in Request : Receive(r, q)
    <3>1. /\ handler[r] = "none" /\ handler'[r] = "check" /\ Accepted(env)
          /\ status'[r] = status[r] /\ posts'[r] = posts[r]
      BY <2>0, <2>1 DEF Receive, Starting
    <3>2. status'[r] = 0 /\ posts'[r] = <<>>
      BY <2>0, <3>1 DEF ServingOf
    <3>3. request'[r].body.target.kind \in Kinds
      BY <2>0, <2>1, RequestsAssumption DEF Receive, Request, Body
    <3> QED BY <2>0, <3>1, <3>2, <3>3 DEF ServingOf, Targeted
  <2>2. CASE CheckFails(r)
    <3>1. /\ handler[r] = "check" /\ handler'[r] = "answered"
          /\ \/ ~TokenFits(request[r]) /\ status'[r] = 401
             \/ status'[r] = 400
          /\ UNCHANGED <<request, room, posts>>
      BY <2>0, <2>2 DEF CheckFails, Answer
    <3>2. Accepted(env) /\ posts[r] = <<>>
      BY <2>0, <3>1 DEF ServingOf
    <3>3. TokenFits(request[r]) <=> \E k : Speaks(env, k, request[r])
      BY <2>0, <3>2, TokenFitsOneBot
    <3>4. /\ handler'[r] # "none" /\ handler'[r] \notin Targeted /\ handler'[r] # "post"
          /\ status'[r] # 200 /\ (status'[r] = 401 => ~TokenFits(request[r]))
      BY <3>1 DEF Targeted
    <3> QED BY <2>0, <3>1, <3>2, <3>3, <3>4 DEF ServingOf
  <2>3. CASE CheckPasses(r)
    <3>1. /\ handler[r] = "check" /\ handler'[r] # "post" /\ handler'[r] # "answered"
          /\ TokenFits(request[r]) /\ UNCHANGED <<request, room, status, posts>>
      BY <2>0, <2>3 DEF CheckPasses, ServingOf, Request, Body, Kinds
    <3>2. Accepted(env) /\ posts[r] = <<>> /\ status[r] = 0
      BY <2>0, <3>1 DEF ServingOf
    <3>3. \E k : Speaks(env, k, request[r])
      BY <2>0, <3>1, <3>2, TokenFitsOneBot
    <3> QED BY <2>0, <3>1, <3>2, <3>3 DEF ServingOf
  <2>4. CASE ResolveDirect(r) \/ ResolveChannel(r)
    <3>1. /\ handler[r] \in {"username", "roomId", "channel", "group"} /\ handler'[r] = "post"
          /\ room'[r] = RoomOf(Client(r), request[r].body.target)
          /\ UNCHANGED <<request, status, posts>>
      BY <2>0, <2>4 DEF ResolveDirect, ResolveChannel, Resolved, Asked
    <3>2. Accepted(env) /\ posts[r] = <<>> /\ status[r] = 0
      BY <2>0, <3>1 DEF ServingOf
    <3>3. PICK k : Speaks(env, k, request[r])
      BY <2>0, <3>1 DEF ServingOf, Targeted
    <3>4. Client(r) = k
      BY <2>0, <3>2, <3>3, TokenFitsOneBot DEF Client
    <3>5. room'[r] = RoomOf(k, request[r].body.target)
      BY <3>1, <3>4
    <3> QED BY <2>0, <3>1, <3>2, <3>3, <3>5 DEF ServingOf
  <2>5. CASE NoChannel(r)
    <3>1. /\ handler[r] = "channel" /\ handler'[r] = "group"
          /\ UNCHANGED <<request, room, status, posts>>
      BY <2>0, <2>5 DEF NoChannel
    <3> QED BY <2>0, <3>1 DEF ServingOf, Targeted
  <2>6. CASE ResolveFails(r)
    <3>1. /\ handler[r] \in {"username", "channel", "group"} /\ handler'[r] = "answered"
          /\ status'[r] = 422 /\ UNCHANGED <<request, room, posts>>
      BY <2>0, <2>6 DEF ResolveFails, Answer
    <3>2. Accepted(env) /\ posts[r] = <<>>
      BY <2>0, <3>1 DEF ServingOf
    <3> QED BY <2>0, <3>1, <3>2 DEF ServingOf, Targeted
  <2>7. CASE Post(r) \/ PostFails(r)
    <3>1. /\ handler[r] = "post" /\ handler'[r] = "answered" /\ UNCHANGED <<request, room>>
          /\ \/ status'[r] = 200 /\ posts'[r] = Append(posts[r], <<Client(r), room[r]>>)
             \/ /\ status'[r] = 500
                /\ posts'[r] \in {posts[r], Append(posts[r], <<Client(r), room[r]>>)}
      BY <2>0, <2>7 DEF Post, PostFails, Posted, Answer
    <3>2. Accepted(env) /\ posts[r] = <<>>
      BY <2>0, <3>1 DEF ServingOf
    <3>3. PICK k : Speaks(env, k, request[r]) /\ room[r] = RoomOf(k, request[r].body.target)
      BY <2>0, <3>1 DEF ServingOf
    <3>4. Client(r) = k
      BY <2>0, <3>2, <3>3, TokenFitsOneBot DEF Client
    <3>5. Append(posts[r], <<Client(r), room[r]>>) = <<<<k, RoomOf(k, request[r].body.target)>>>>
      BY <3>2, <3>3, <3>4
    <3>6. <<<<k, RoomOf(k, request[r].body.target)>>>> # <<>>
      OBVIOUS
    <3>7. handler'[r] # "none" /\ handler'[r] \notin Targeted /\ handler'[r] # "post"
      BY <3>1 DEF Targeted
    <3>8. status'[r] \notin {400, 401, 422}
      BY <3>1
    <3>9. /\ posts'[r] \in {<<>>, <<<<k, RoomOf(k, request[r].body.target)>>>>}
          /\ status'[r] = 200 => posts'[r] # <<>>
      <4> DEFINE message == <<Client(r), room[r]>>
      <4>1. \/ status'[r] = 200 /\ posts'[r] = Append(posts[r], message)
            \/ status'[r] = 500 /\ posts'[r] \in {posts[r], Append(posts[r], message)}
        BY <3>1
      <4> HIDE DEF message
      <4>2. \/ posts'[r] = Append(posts[r], message)
            \/ status'[r] = 500 /\ posts'[r] = <<>>
        BY <3>2, <4>1
      <4> DEFINE posted == <<<<k, RoomOf(k, request[r].body.target)>>>>
      <4>3. Append(posts[r], message) = posted /\ posted # <<>>
        BY <3>5, <3>6 DEF message
      <4> HIDE DEF posted
      <4>4. posts'[r] \in {<<>>, posted} /\ (status'[r] = 200 => posts'[r] # <<>>)
        BY <4>2, <4>3
      <4> QED BY <4>4 DEF posted
    <3>10. /\ Speaks(env', k, request'[r]) /\ Accepted(env')
           /\ posts'[r] \in {<<>>, <<<<k, RoomOf(k, request'[r].body.target)>>>>}
      BY <2>0, <3>1, <3>2, <3>3, <3>9
    <3>11. request'[r].body.target.kind \in Kinds
      BY <2>0, <3>1 DEF ServingOf
    <3>12. handler'[r] = "answered"
      BY <3>1
    <3> QED BY ONLY <3>7, <3>8, <3>9, <3>10, <3>11, <3>12 DEF ServingOf
  <2> QED BY <2>1, <2>2, <2>3, <2>4, <2>5, <2>6, <2>7 DEF HandlerStep
<1> QED BY <1>2, <1>3, <1>4, <1>5 DEF Serving

LEMMA Step == IInv /\ [Next]_vars => IInv'
<1> SUFFICES ASSUME IInv, [Next]_vars PROVE IInv'
  OBVIOUS
<1>1. CASE UNCHANGED vars
  BY <1>1, RequestsLeftAlone, ProgramLeftAlone DEF IInv, vars, mainVars
<1> QED BY <1>1, MainKeeps, BotKeeps, HandlerKeeps DEF Next

THEOREM Invariance == Spec => []IInv
BY Initially, Step, PTL DEF Spec

(***************************************************************************)
(* For any number of bots and any environment: the exit status is 0 only   *)
(* when the program was told to end and every bot has returned; 1 only     *)
(* when none had begun, one failed in initialize, or one that main itself  *)
(* had stopped, after the signal and with every bot created, reported that *)
(* as an error; and 2 only when a bot was still at work after a signal.    *)
(***************************************************************************)
THEOREM StatusIsTrue == Spec => []StatusTellsTheTruth
<1>1. IInv => StatusTellsTheTruth
  BY DEF IInv
<1> QED BY <1>1, Invariance, PTL

(***************************************************************************)
(* For any requests: what the HTTP API answers agrees with what was posted,*)
(* by which bot, and where.                                                *)
(***************************************************************************)
THEOREM AnswerIsTrue == Spec => []AnswerTellsTheTruth
<1>1. IInv => AnswerTellsTheTruth
  <2> SUFFICES ASSUME IInv, NEW r \in Requests
               PROVE  /\ status[r] = 200 => Len(posts[r]) = 1
                      /\ status[r] \in {400, 401, 422} => posts[r] = <<>>
                      /\ Len(posts[r]) <= 1
                      /\ \A i \in DOMAIN posts[r] : AsAsked(r, posts[r][i])
                      /\ status[r] = 401 =>
                           \A k \in Bots(env) :
                               Exposed(k) => \/ env[k].slug # request[r].slug
                                             \/ env[k].apiToken # request[r].token
    BY DEF AnswerTellsTheTruth
  <2>1. ServingOf(r)
    BY DEF IInv, Serving
  <2>2. CASE posts[r] = <<>>
    <3>1. Len(posts[r]) = 0 /\ DOMAIN posts[r] = {}
      BY <2>2
    <3>2. status[r] # 200 /\ (status[r] = 401 => ~\E k : Speaks(env, k, request[r]))
      BY <2>1, <2>2 DEF ServingOf
    <3>3. ASSUME status[r] = 401, NEW k \in Bots(env), Exposed(k)
          PROVE  env[k].slug # request[r].slug \/ env[k].apiToken # request[r].token
      <4> SUFFICES ASSUME env[k].slug = request[r].slug, env[k].apiToken = request[r].token
                   PROVE  FALSE
        OBVIOUS
      <4>1. Speaks(env, k, request[r])
        BY <3>3 DEF Speaks, Exposed
      <4> QED BY <3>2, <3>3, <4>1
    <3> QED BY <2>2, <3>1, <3>2, <3>3
  <2>3. ASSUME NEW k, Speaks(env, k, request[r]),
               posts[r] = <<<<k, RoomOf(k, request[r].body.target)>>>>
        PROVE  /\ status[r] = 200 => Len(posts[r]) = 1
               /\ status[r] \in {400, 401, 422} => posts[r] = <<>>
               /\ Len(posts[r]) <= 1
               /\ \A i \in DOMAIN posts[r] : AsAsked(r, posts[r][i])
               /\ status[r] # 401
    <3>1. /\ Len(posts[r]) = 1 /\ DOMAIN posts[r] = {1}
          /\ posts[r][1] = <<k, RoomOf(k, request[r].body.target)>>
      BY <2>3
    <3>2. posts[r][1][1] = k /\ posts[r][1][2] = RoomOf(k, Asked(r))
      BY <3>1 DEF Asked
    <3>3. env[k].slug = request[r].slug /\ env[k].apiToken = request[r].token
      BY <2>3 DEF Speaks
    <3>4. AsAsked(r, posts[r][1])
      BY <3>2, <3>3 DEF AsAsked
    <3> QED BY <2>1, <2>3, <3>1, <3>4 DEF ServingOf
  <2> QED BY <2>1, <2>2, <2>3 DEF ServingOf
<1> QED BY <1>1, Invariance, PTL
=============================================================================

----------------------- MODULE WebSocketSessionProofs -----------------------
(* Theorems about WebSocketSession, for any number of sessions, rooms and   *)
(* responders.                                                              *)
EXTENDS WebSocketSession, TLAPS

\* The types of what decides about sockets.
SocketTypes ==
    /\ ws \in Sessions \cup {NoSocket}
    /\ open \subseteq Sessions
    /\ cancelled \subseteq Sessions
    /\ n \in Sessions \cup {0}
    /\ main \notin {"check", "dial", "backoff", "returned", "stopError"} => n \in Sessions
    /\ main \in MainPCs
    /\ outcome \in {"stop", "canceled", "other"}
    /\ stopChan \in BOOLEAN /\ ctxDone \in BOOLEAN
    /\ watcher \in [Sessions -> {"none", "waiting", "gone"}]

\* Whoever cleared it, c.ws is nil from a session's end to the next SetWebSocket.
NilBetweenSessions ==
    main \in {"check", "dial", "set", "backoff", "returned", "stopError"} => ws = NoSocket

\* A session ends with errStopRequested or context.Canceled for a reason.
EndIsJustified ==
    /\ main = "returned" => Stopping
    /\ main = "stopError" => stopChan
    /\ main \in {"cancel", "close"} /\ outcome # "other" => Stopping

SocketInv == SocketTypes /\ SocketIsReachable /\ NilBetweenSessions /\ EndIsJustified

-----------------------------------------------------------------------------
(* The socket invariant is inductive.                                      *)

LEMMA SocketInit == Init => SocketInv
  BY BoundsAssumption DEF Init, SocketInv, SocketTypes, SocketIsReachable, NilBetweenSessions,
     EndIsJustified, MainPCs, Sessions, NoSocket

\* Clearing c.ws never hurts.
LEMMA CloseKeepsSocketInv ==
  ASSUME SocketInv, CloseWebSocket,
         UNCHANGED <<cancelled, n, main, outcome>>,
         stopChan' \in BOOLEAN, ctxDone' \in BOOLEAN, stopChan => stopChan', Stopping => Stopping',
         watcher' \in [Sessions -> {"none", "waiting", "gone"}]
  PROVE SocketInv'
  BY DEF SocketInv, SocketTypes, SocketIsReachable, NilBetweenSessions, EndIsJustified,
     CloseWebSocket, NoSocket

\* Nor does a step that leaves the goroutine of Run and the sockets alone.
LEMMA FrameKeepsSocketInv ==
  ASSUME SocketInv, UNCHANGED <<ws, open, cancelled, n, main, outcome, watcher>>,
         stopChan' \in BOOLEAN, ctxDone' \in BOOLEAN, stopChan => stopChan', Stopping => Stopping'
  PROVE SocketInv'
  BY DEF SocketInv, SocketTypes, SocketIsReachable, NilBetweenSessions, EndIsJustified

\* Handling a message changes nothing of it but the control point.
LEMMA HandlingKeepsSocketInv ==
  ASSUME SocketInv, main = "handle", main' = "read",
         UNCHANGED <<ws, open, cancelled, n, outcome, watcher, stopChan, ctxDone>>
  PROVE SocketInv'
  BY DEF SocketInv, SocketTypes, SocketIsReachable, NilBetweenSessions, EndIsJustified,
     Stopping, MainPCs

LEMMA SocketMain ==
  ASSUME SocketInv, MainStep PROVE SocketInv'
<1> USE DEF SocketInv, SocketTypes, SocketIsReachable, NilBetweenSessions, EndIsJustified,
            Stopping, MainPCs, client, others, peer
<1>1. CASE CheckForStop
  BY <1>1 DEF CheckForStop
<1>2. CASE Dial
  BY <1>2, BoundsAssumption DEF Dial, Sessions
<1>3. CASE DialFails
  BY <1>3 DEF DialFails
<1>4. CASE SetWebSocket
  <2>1. n \in Sessions \cup {NoSocket}
    BY DEF NoSocket
  <2>2. open \subseteq {n}
    <3>1. open \subseteq {NoSocket, n} /\ NoSocket \notin Sessions
      BY <1>4 DEF SetWebSocket, Sessions, NoSocket
    <3> QED BY <3>1
  <2> QED BY <1>4, <2>1, <2>2 DEF SetWebSocket
<1>5. CASE ResetPending
  BY <1>5 DEF ResetPending
<1>6. CASE SendConnect
  BY <1>6 DEF SendConnect
<1>7. CASE SendConnectFails
  BY <1>7 DEF SendConnectFails
<1>8. CASE SpawnWatcher
  BY <1>8 DEF SpawnWatcher
<1>9. CASE EvaluateWebSocket
  BY <1>9 DEF EvaluateWebSocket
<1>10. CASE ReadMessage
  BY <1>10 DEF ReadMessage
<1>11. CASE ReadFails
  BY <1>11 DEF ReadFails
<1>12. CASE CancelSession
  <2>1. cancelled' \subseteq Sessions
    BY <1>12 DEF CancelSession
  <2> QED BY <1>12, <2>1 DEF CancelSession
<1>13. CASE CloseSession
  BY <1>13 DEF CloseSession, CloseWebSocket, NoSocket
<1>14. CASE BackoffEnds
  BY <1>14 DEF BackoffEnds
<1>15. CASE BackoffStopped
  BY <1>15 DEF BackoffStopped
<1>16. CASE HandleConnected
  BY <1>16, HandlingKeepsSocketInv DEF HandleConnected
<1>17. CASE HandleLogin
  BY <1>17, HandlingKeepsSocketInv DEF HandleLogin
<1>18. CASE HandleResult
  BY <1>18, HandlingKeepsSocketInv DEF HandleResult
<1>19. CASE HandleMembership
  BY <1>19, HandlingKeepsSocketInv DEF HandleMembership
<1>20. CASE HandleRoomMessage
  BY <1>20, HandlingKeepsSocketInv DEF HandleRoomMessage
<1> QED
  BY <1>1, <1>2, <1>3, <1>4, <1>5, <1>6, <1>7, <1>8, <1>9, <1>10, <1>11, <1>12, <1>13,
     <1>14, <1>15, <1>16, <1>17, <1>18, <1>19, <1>20 DEF MainStep

LEMMA SocketNext == SocketInv /\ [Next]_vars => SocketInv'
<1> SUFFICES ASSUME SocketInv, [Next]_vars PROVE SocketInv'
  OBVIOUS
<1> USE DEF client, run, others, peer
<1>0. stopChan \in BOOLEAN /\ ctxDone \in BOOLEAN
      /\ watcher \in [Sessions -> {"none", "waiting", "gone"}]
  BY DEF SocketInv, SocketTypes
<1>1. CASE MainStep
  BY <1>1, SocketMain
<1>2. CASE Stop
  BY <1>0, <1>2, FrameKeepsSocketInv DEF Stop, Stopping
<1>3. CASE StopCloses
  BY <1>0, <1>3, CloseKeepsSocketInv DEF StopCloses, Stopping
<1>4. CASE CancelContext
  BY <1>0, <1>4, FrameKeepsSocketInv DEF CancelContext, Stopping
<1>5. ASSUME NEW k \in Sessions, WatcherCloses(k) PROVE SocketInv'
  BY <1>0, <1>5, CloseKeepsSocketInv DEF WatcherCloses, Stopping
<1>6. ASSUME NEW k \in Sessions, ServerStep(k) PROVE SocketInv'
  BY <1>0, <1>6, FrameKeepsSocketInv
     DEF ServerStep, ConnectionBreaks, RoomHasMessage, MembershipChanges, ServerSends, Stopping
<1>7. ASSUME NEW r \in Responders, Typing(r) PROVE SocketInv'
  BY <1>0, <1>7, FrameKeepsSocketInv
     DEF Typing, TypingRegister, TypingSend, TypingSendFails, TypingUndo, Stopping
<1>8. CASE UNCHANGED vars
  BY <1>0, <1>8, FrameKeepsSocketInv DEF vars, Stopping
<1> QED BY <1>1, <1>2, <1>3, <1>4, <1>5, <1>6, <1>7, <1>8 DEF Next

LEMMA SocketInvariant == Spec => []SocketInv
  BY SocketInit, SocketNext, PTL DEF Spec

(***************************************************************************)
(* An open connection is in c.ws or about to be put there, however slow    *)
(* watchers are (runSession, closeWebSocket, Stop).                        *)
(***************************************************************************)
THEOREM SocketReachable == Spec => []SocketIsReachable
<1>1. SocketInv => SocketIsReachable
  BY DEF SocketInv
<1> QED BY SocketInvariant, <1>1, PTL

(***************************************************************************)
(* Run returns only after Stop or a cancelled context, and then every      *)
(* connection is closed (runWithReconnect and runSession's deferred calls).*)
(***************************************************************************)
THEOREM CleanReturn == Spec => []ReturnsClean
<1>1. SocketInv => ReturnsClean
  <2> SUFFICES ASSUME SocketInv, main \in {"returned", "stopError"} PROVE Stopping /\ open = {}
    BY DEF ReturnsClean, SocketInv, EndIsJustified
  <2>1. Stopping /\ ws = NoSocket
    BY DEF SocketInv, EndIsJustified, NilBetweenSessions, Stopping
  <2>2. open \subseteq {NoSocket} /\ open \subseteq Sessions
    BY <2>1 DEF SocketInv, SocketTypes, SocketIsReachable
  <2>3. NoSocket \notin Sessions
    BY DEF Sessions, NoSocket
  <2> QED BY <2>1, <2>2, <2>3
<1> QED BY SocketInvariant, <1>1, PTL

-----------------------------------------------------------------------------
(* Why the loop finds its socket.                                          *)

\* Where runSession has set c.ws and not yet left the loop.
Connecting == {"reset", "connect", "spawn"}
Looping == {"read", "reading", "handle", "cancel"}

\* A watcher still waits for its own running session, or was woken by the end
\* of it, and then the next one has not begun.
WatcherKnowsItsSession(k) ==
    watcher[k] = "waiting" =>
        \/ k = n /\ k \notin cancelled /\ main \in Looping
        \/ k \in cancelled /\ main \in {"close", "backoff"}

\* As long as nobody stops the bot.
LoopInv ==
    ~Stopping =>
        /\ stopper # "closing"
        /\ main # "crashed"
        /\ main \in Connecting \cup Looping => ws = n /\ n \in Sessions
        /\ main = "set" => n \in Sessions
        /\ \A k \in cancelled : k <= n
        /\ main \in {"set"} \cup Connecting \cup Looping => n \notin cancelled
        /\ \A k \in Sessions : WatcherKnowsItsSession(k)

LEMMA LoopInit == Init => LoopInv
  BY DEF Init, LoopInv, Connecting, Looping, WatcherKnowsItsSession

LEMMA LoopHandling ==
  ASSUME LoopInv, main = "handle", main' = "read",
         UNCHANGED <<ws, cancelled, n, watcher, stopper, stopChan, ctxDone>>
  PROVE LoopInv'
  BY DEF LoopInv, Stopping, Connecting, Looping, WatcherKnowsItsSession

LEMMA LoopFrame ==
  ASSUME LoopInv, UNCHANGED <<ws, cancelled, n, main, watcher, stopper, stopChan, ctxDone>>
  PROVE LoopInv'
  BY DEF LoopInv, Stopping, WatcherKnowsItsSession

LEMMA LoopMain ==
  ASSUME ~WatcherLags, SocketInv, LoopInv, MainStep PROVE LoopInv'
<1> SUFFICES ASSUME ~Stopping' PROVE LoopInv'
  BY DEF LoopInv
<1> USE DEF LoopInv, Connecting, Looping, WatcherKnowsItsSession, client, others, peer
<1>0. SocketTypes /\ NilBetweenSessions /\ EndIsJustified
  BY DEF SocketInv
<1>n. n \in Nat /\ cancelled \subseteq Sessions /\ \A k \in Sessions : k \in Nat /\ k # 0
  BY <1>0, BoundsAssumption DEF SocketTypes, Sessions
<1>s. ASSUME UNCHANGED <<stopChan, ctxDone>> PROVE ~Stopping
  BY <1>s DEF Stopping
<1>1. CASE CheckForStop
  BY <1>1, <1>s DEF CheckForStop
<1>2. CASE Dial
  <2>1. ~Stopping /\ n' = n + 1 /\ n' \in Sessions
    BY <1>2, <1>s, <1>n, BoundsAssumption DEF Dial, Sessions
  <2>2. \A k \in cancelled : k <= n' /\ k # n'
    BY <2>1, <1>n
  <2> QED BY <1>2, <2>1, <2>2 DEF Dial
<1>3. CASE DialFails
  BY <1>3, <1>s DEF DialFails
<1>4. CASE SetWebSocket
  BY <1>4, <1>s DEF SetWebSocket
<1>5. CASE ResetPending
  BY <1>5, <1>s DEF ResetPending
<1>6. CASE SendConnect
  BY <1>6, <1>s DEF SendConnect
<1>7. CASE SendConnectFails
  BY <1>7, <1>s DEF SendConnectFails
<1>8. CASE SpawnWatcher
  <2>1. \A k \in Sessions : watcher'[k] = "waiting" => k = n /\ k \notin cancelled
    BY <1>8, <1>s, <1>0 DEF SpawnWatcher, SocketTypes
  <2> QED BY <1>8, <1>s, <2>1 DEF SpawnWatcher
<1>9. CASE EvaluateWebSocket
  <2>1. ws # NoSocket
    BY <1>9, <1>s, <1>n DEF EvaluateWebSocket, NoSocket
  <2> QED BY <1>9, <1>s, <2>1 DEF EvaluateWebSocket
<1>10. CASE ReadMessage
  BY <1>10, <1>s DEF ReadMessage
<1>11. CASE ReadFails
  BY <1>11, <1>s DEF ReadFails
<1>12. CASE CancelSession
  <2>1. ~Stopping /\ main = "cancel" /\ n \in Sessions
    BY <1>12, <1>s DEF CancelSession
  <2>2. \A k \in cancelled' : k <= n'
    BY <1>12, <2>1, <1>n DEF CancelSession
  <2>3. \A k \in Sessions : watcher[k] = "waiting" => k \in cancelled'
    BY <1>12, <2>1 DEF CancelSession
  <2> QED BY <1>12, <2>1, <2>2, <2>3 DEF CancelSession
<1>13. CASE CloseSession
  <2>1. ~Stopping /\ outcome = "other"
    BY <1>13, <1>s, <1>0 DEF CloseSession, EndIsJustified
  <2> QED BY <1>13, <2>1 DEF CloseSession
<1>14. CASE BackoffEnds
  <2>1. \A k \in Sessions : watcher[k] # "waiting"
    BY <1>14, <1>s DEF BackoffEnds, WatchersThrough
  <2> QED BY <1>14, <1>s, <2>1 DEF BackoffEnds
<1>15. CASE BackoffStopped
  BY <1>15, <1>s DEF BackoffStopped
<1>16. CASE HandleConnected
  BY <1>16, LoopHandling DEF HandleConnected
<1>17. CASE HandleLogin
  BY <1>17, LoopHandling DEF HandleLogin
<1>18. CASE HandleResult
  BY <1>18, LoopHandling DEF HandleResult
<1>19. CASE HandleMembership
  BY <1>19, LoopHandling DEF HandleMembership
<1>20. CASE HandleRoomMessage
  BY <1>20, LoopHandling DEF HandleRoomMessage
<1> QED
  BY <1>1, <1>2, <1>3, <1>4, <1>5, <1>6, <1>7, <1>8, <1>9, <1>10, <1>11, <1>12, <1>13,
     <1>14, <1>15, <1>16, <1>17, <1>18, <1>19, <1>20 DEF MainStep

LEMMA LoopNext == ~WatcherLags /\ SocketInv /\ LoopInv /\ [Next]_vars => LoopInv'
<1> SUFFICES ASSUME ~WatcherLags, SocketInv, LoopInv, [Next]_vars, ~Stopping' PROVE LoopInv'
  BY DEF LoopInv
<1> USE DEF client, run, others, peer
<1>1. CASE MainStep
  BY <1>1, LoopMain
<1>2. CASE Stop \/ StopCloses \/ CancelContext
  BY <1>2 DEF Stop, StopCloses, CancelContext, LoopInv, Stopping
<1>3. ASSUME NEW k \in Sessions, WatcherCloses(k) PROVE LoopInv'
  <2>1. ~Stopping
    BY <1>3 DEF WatcherCloses, Stopping
  <2>2. k \in cancelled /\ main \in {"close", "backoff"}
    BY <1>3, <2>1 DEF WatcherCloses, LoopInv, WatcherKnowsItsSession
  <2>3. \A i \in Sessions : watcher'[i] = "waiting" => watcher[i] = "waiting"
    BY <1>3 DEF WatcherCloses, SocketInv, SocketTypes
  <2> QED
    BY <1>3, <2>1, <2>2, <2>3
       DEF WatcherCloses, LoopInv, Connecting, Looping, WatcherKnowsItsSession
<1>4. ASSUME NEW k \in Sessions, ServerStep(k) PROVE LoopInv'
  BY <1>4, LoopFrame
     DEF ServerStep, ConnectionBreaks, RoomHasMessage, MembershipChanges, ServerSends
<1>5. ASSUME NEW r \in Responders, Typing(r) PROVE LoopInv'
  BY <1>5, LoopFrame DEF Typing, TypingRegister, TypingSend, TypingSendFails, TypingUndo
<1>6. CASE UNCHANGED vars
  BY <1>6, LoopFrame DEF vars
<1> QED BY <1>1, <1>2, <1>3, <1>4, <1>5, <1>6 DEF Next

LEMMA LoopInvariant ==
  ASSUME ~WatcherLags PROVE Spec => [](SocketInv /\ LoopInv)
<1>1. Init => SocketInv /\ LoopInv
  BY SocketInit, LoopInit
<1>2. SocketInv /\ LoopInv /\ [Next]_vars => (SocketInv /\ LoopInv)'
  BY SocketNext, LoopNext
<1> QED BY <1>1, <1>2, PTL DEF Spec

(***************************************************************************)
(* If no watcher sleeps through a whole backoff, handleMessages finds c.ws *)
(* cleared only when the bot is being stopped.                             *)
(***************************************************************************)
THEOREM LoopFindsSocket ==
  ASSUME ~WatcherLags PROVE Spec => []NoCrashWhileRunning
<1>1. LoopInv => NoCrashWhileRunning
  BY DEF LoopInv, NoCrashWhileRunning
<1> QED BY <1>1, LoopInvariant, PTL

-----------------------------------------------------------------------------
(* Run, its watchers, Stop and the responders together step as a            *)
(* BotLifecycle.                                                            *)

\* What leaves the goroutine of Run and the signals alone is a stutter.
LEMMA LifeStutters ==
  ASSUME UNCHANGED <<main, stopChan, ctxDone>>
  PROVE  [Lifecycle!Tell \/ Lifecycle!End]_(Lifecycle!lifeVars)
  BY DEF Lifecycle!lifeVars, Phase

LEMMA LifeStep ==
  ASSUME SocketInv, LoopInv, [Next]_vars
  PROVE  [Lifecycle!Tell \/ Lifecycle!End]_(Lifecycle!lifeVars)
<1> USE DEF client, run, others, peer
<1>1. CASE MainStep
  <2>1. UNCHANGED <<stopChan, ctxDone>> /\ main \notin {"returned", "stopError", "crashed"}
    BY <1>1 DEF MainStep, CheckForStop, Dial, DialFails, SetWebSocket, ResetPending, SendConnect,
       SendConnectFails, SpawnWatcher, EvaluateWebSocket, ReadMessage, ReadFails, CancelSession,
       CloseSession, CloseWebSocket, BackoffEnds, BackoffStopped, HandleConnected, HandleLogin,
       HandleResult, HandleMembership, HandleRoomMessage
  <2>2. main' = "returned" => Stopping
    <3>1. main' = "returned" => CheckForStop \/ CloseSession \/ BackoffStopped
      BY <1>1 DEF MainStep, Dial, DialFails, SetWebSocket, ResetPending, SendConnect,
         SendConnectFails, SpawnWatcher, EvaluateWebSocket, ReadMessage, ReadFails, CancelSession,
         BackoffEnds, HandleConnected, HandleLogin, HandleResult, HandleMembership,
         HandleRoomMessage
    <3> QED
      BY <3>1 DEF CheckForStop, CloseSession, BackoffStopped, SocketInv, EndIsJustified, Stopping
  <2>3. main' = "crashed" => Stopping
    <3>1. main' = "crashed" => EvaluateWebSocket /\ ws = NoSocket
      BY <1>1 DEF MainStep, CheckForStop, Dial, DialFails, SetWebSocket, ResetPending, SendConnect,
         SendConnectFails, SpawnWatcher, EvaluateWebSocket, ReadMessage, ReadFails,
         CancelSession, CloseSession, BackoffEnds, BackoffStopped, HandleConnected,
         HandleLogin, HandleResult, HandleMembership, HandleRoomMessage
    <3>2. main' = "crashed" => main = "read" /\ ws \notin Sessions
      BY <3>1 DEF EvaluateWebSocket, Sessions, NoSocket
    <3> QED BY <3>2 DEF LoopInv, Looping
  <2>4. main' = "stopError" => stopChan
    <3>1. main' = "stopError" => CheckForStop
      BY <1>1, <2>1 DEF MainStep, Dial, DialFails, SetWebSocket, ResetPending, SendConnect,
         SendConnectFails, SpawnWatcher, EvaluateWebSocket, ReadMessage, ReadFails, CancelSession,
         CloseSession, BackoffEnds, BackoffStopped, HandleConnected, HandleLogin,
         HandleResult, HandleMembership, HandleRoomMessage
    <3> QED BY <3>1 DEF CheckForStop
  <2>5. Phase = "running" /\ UNCHANGED <<stopChan, ctxDone>>
    BY <2>1 DEF Phase
  <2>6. CASE main' \in {"returned", "stopError", "crashed"}
    <3>1. Phase' = main'
      BY <2>6 DEF Phase
    <3> QED
      BY <2>2, <2>3, <2>4, <2>5, <2>6, <3>1
         DEF Lifecycle!End, Lifecycle!Return, Lifecycle!ReturnError, Lifecycle!Crash, Stopping
  <2>7. CASE main' \notin {"returned", "stopError", "crashed"}
    BY <2>5, <2>7 DEF Lifecycle!lifeVars, Phase
  <2> QED BY <2>6, <2>7
<1>2. CASE Stop
  BY <1>2 DEF Stop, Lifecycle!Tell, Phase
<1>3. CASE CancelContext
  BY <1>3 DEF CancelContext, Lifecycle!Tell, Phase
<1>4. CASE StopCloses
  BY <1>4, LifeStutters DEF StopCloses
<1>5. ASSUME NEW k \in Sessions, WatcherCloses(k) \/ ServerStep(k)
      PROVE  [Lifecycle!Tell \/ Lifecycle!End]_(Lifecycle!lifeVars)
  BY <1>5, LifeStutters
     DEF WatcherCloses, ServerStep, ConnectionBreaks, RoomHasMessage, MembershipChanges, ServerSends
<1>6. ASSUME NEW r \in Responders, Typing(r)
      PROVE  [Lifecycle!Tell \/ Lifecycle!End]_(Lifecycle!lifeVars)
  BY <1>6, LifeStutters DEF Typing, TypingRegister, TypingSend, TypingSendFails, TypingUndo
<1>7. CASE UNCHANGED vars
  BY <1>7, LifeStutters DEF vars
<1> QED BY <1>1, <1>2, <1>3, <1>4, <1>5, <1>6, <1>7 DEF Next

(***************************************************************************)
(* If no watcher sleeps through a whole backoff, everything the bot does   *)
(* on its connections is a step of BotLifecycle: whatever breaks, Run      *)
(* comes to an end once, and only after Stop or a cancelled context, with  *)
(* errStopRequested only after Stop.  (That it then does end is liveness.) *)
(***************************************************************************)
THEOREM RunIsALifecycle ==
  ASSUME ~WatcherLags PROVE Spec => Lifecycle!LifeSafety
<1>1. Init => Lifecycle!LifeInit
  BY DEF Init, Lifecycle!LifeInit, Phase
<1>2. SocketInv /\ LoopInv /\ [Next]_vars => [Lifecycle!Tell \/ Lifecycle!End]_(Lifecycle!lifeVars)
  BY LifeStep
<1> QED BY <1>1, <1>2, LoopInvariant, PTL DEF Spec, Lifecycle!LifeSafety

-----------------------------------------------------------------------------
(* The other variables' types.                                             *)

RestTypes ==
    /\ pending \subseteq IDs
    /\ rooms \subseteq AllRooms
    /\ item \in Messages
    /\ stopper \in {"idle", "closing", "done"}
    /\ responder \in [Responders -> {"idle", "register", "send", "undo", "done"}]
    /\ up \subseteq Sessions
    /\ inbox \in [Sessions -> Seq(Messages)]
    /\ greeted \subseteq Sessions
    /\ subs \in [Sessions -> [AllRooms -> Nat]]
    /\ notified \subseteq Sessions

LEMMA MessagesAreTyped ==
  /\ Connected \in Messages /\ RoomMessage \in Messages
  /\ \A id \in IDs : Result(id) \in Messages
  /\ \A rid \in AllRooms \cup {NoRoom} : Membership(rid) \in Messages
  /\ \A k \in Sessions : LoginID(k) \in IDs /\ PresenceID(k) \in IDs
  /\ \A r \in Responders : TypingID(r) \in IDs
  BY DEF Messages, IDs

LEMMA RestInit == Init => RestTypes
<1> SUFFICES ASSUME Init PROVE RestTypes
  OBVIOUS
<1> USE DEF Init, RestTypes
<1>1. inbox \in [Sessions -> Seq(Messages)]
  OBVIOUS
<1>2. subs \in [Sessions -> [AllRooms -> Nat]]
  OBVIOUS
<1> QED BY <1>1, <1>2, MessagesAreTyped DEF AllRooms

LEMMA AnswerIsTyped ==
  ASSUME RestTypes, NEW k \in Sessions \cup {NoSocket}, NEW id \in IDs, Answer(k, <<Result(id)>>)
  PROVE  inbox' \in [Sessions -> Seq(Messages)]
<1>1. CASE k \in up \cap greeted
  <2>1. k \in Sessions /\ inbox[k] \in Seq(Messages) /\ <<Result(id)>> \in Seq(Messages)
    BY <1>1, MessagesAreTyped DEF RestTypes
  <2>2. inbox[k] \o <<Result(id)>> \in Seq(Messages)
    BY <2>1
  <2> QED BY <1>1, <2>1, <2>2 DEF Answer, RestTypes
<1>2. CASE k \notin up \cap greeted
  BY <1>2 DEF Answer, RestTypes
<1> QED BY <1>1, <1>2

LEMMA SubscribeIsTyped ==
  ASSUME RestTypes, NEW k \in Sessions \cup {NoSocket}, NEW rids, Subscribe(k, rids)
  PROVE  subs' \in [Sessions -> [AllRooms -> Nat]]
<1>1. CASE k \in up \cap greeted
  <2>1. k \in Sessions /\ subs[k] \in [AllRooms -> Nat]
    BY <1>1 DEF RestTypes
  <2>2. [rid \in AllRooms |-> IF rid \in rids THEN subs[k][rid] + 1 ELSE subs[k][rid]]
          \in [AllRooms -> Nat]
    BY <2>1
  <2> QED BY <1>1, <2>1, <2>2 DEF Subscribe, RestTypes
<1>2. CASE k \notin up \cap greeted
  BY <1>2 DEF Subscribe, RestTypes
<1> QED BY <1>1, <1>2

LEMMA RestMain ==
  ASSUME SocketTypes, RestTypes, MainStep PROVE RestTypes'
<1> USE DEF RestTypes, client, others, peer
<1>0. /\ ws \in Sessions \cup {NoSocket}
      /\ main \notin {"check", "dial", "backoff", "returned", "stopError"} => n \in Sessions
  BY DEF SocketTypes
<1>1. CASE CheckForStop \/ DialFails \/ SetWebSocket \/ ResetPending \/ SendConnectFails
  BY <1>1 DEF CheckForStop, DialFails, SetWebSocket, ResetPending, SendConnectFails
<1>2. CASE Dial
  BY <1>2, BoundsAssumption DEF Dial, Sessions, SocketTypes
<1>3. CASE SendConnect
  <2>1. CASE ws \in up
    <3>1. ws \in Sessions /\ Append(inbox[ws], Connected) \in Seq(Messages)
      BY <2>1, MessagesAreTyped
    <3> QED BY <1>3, <2>1, <3>1 DEF SendConnect
  <2>2. CASE ws \notin up
    BY <1>3, <2>2 DEF SendConnect
  <2> QED BY <2>1, <2>2
<1>4. CASE SpawnWatcher \/ EvaluateWebSocket \/ ReadFails \/ CancelSession
  BY <1>4 DEF SpawnWatcher, EvaluateWebSocket, ReadFails, CancelSession
<1>5. CASE ReadMessage
  <2>1. n \in Sessions /\ inbox[n] \in Seq(Messages) /\ inbox[n] # <<>>
    BY <1>0, <1>5 DEF ReadMessage
  <2>2. Head(inbox[n]) \in Messages /\ Tail(inbox[n]) \in Seq(Messages)
    BY <2>1
  <2> QED BY <1>5, <2>1, <2>2 DEF ReadMessage
<1>6. CASE CloseSession \/ BackoffEnds \/ BackoffStopped
  BY <1>6 DEF CloseSession, BackoffEnds, BackoffStopped
<1>7. CASE HandleConnected
  <2>1. LoginID(n) \in IDs
    BY <1>0, <1>7, MessagesAreTyped DEF HandleConnected
  <2>2. inbox' \in [Sessions -> Seq(Messages)]
    BY <1>0, <1>7, <2>1, AnswerIsTyped DEF HandleConnected
  <2> QED BY <1>7, <2>1, <2>2 DEF HandleConnected
<1>8. CASE HandleLogin
  <2>1. PresenceID(n) \in IDs
    BY <1>0, <1>8, MessagesAreTyped DEF HandleLogin
  <2>2. inbox' \in [Sessions -> Seq(Messages)]
    BY <1>0, <1>8, <2>1, AnswerIsTyped DEF HandleLogin
  <2>3. subs' \in [Sessions -> [AllRooms -> Nat]]
    BY <1>0, <1>8, SubscribeIsTyped DEF HandleLogin
  <2> QED BY <1>8, <2>1, <2>2, <2>3 DEF HandleLogin
<1>9. CASE HandleResult
  BY <1>9 DEF HandleResult
<1>10. CASE HandleMembership
  <2>1. item.room \in AllRooms \cup {NoRoom}
    BY <1>10 DEF HandleMembership, Messages, Connected, Result, RoomMessage, Membership
  <2>2. subs' \in [Sessions -> [AllRooms -> Nat]]
    BY <1>0, <1>10, SubscribeIsTyped DEF HandleMembership
  <2> QED BY <1>10, <2>1, <2>2 DEF HandleMembership
<1>11. CASE HandleRoomMessage
  BY <1>11 DEF HandleRoomMessage
<1> QED
  BY <1>1, <1>2, <1>3, <1>4, <1>5, <1>6, <1>7, <1>8, <1>9, <1>10, <1>11 DEF MainStep

LEMMA RestNext == SocketTypes /\ RestTypes /\ [Next]_vars => RestTypes'
<1> SUFFICES ASSUME SocketTypes, RestTypes, [Next]_vars PROVE RestTypes'
  OBVIOUS
<1> USE DEF client, run, others, peer
<1>1. CASE MainStep
  BY <1>1, RestMain
<1>2. CASE Stop \/ StopCloses \/ CancelContext
  BY <1>2 DEF RestTypes, Stop, StopCloses, CancelContext
<1>3. ASSUME NEW k \in Sessions, WatcherCloses(k) PROVE RestTypes'
  BY <1>3 DEF RestTypes, WatcherCloses
<1>4. ASSUME NEW k \in Sessions, ServerStep(k) PROVE RestTypes'
  <2>1. ASSUME NEW message \in Messages, ServerSends(k, message) PROVE RestTypes'
    <3>1. Append(inbox[k], message) \in Seq(Messages)
      BY DEF RestTypes
    <3> QED BY <2>1, <3>1 DEF RestTypes, ServerSends
  <2>2. CASE ConnectionBreaks(k)
    BY <2>2 DEF RestTypes, ConnectionBreaks
  <2> QED BY <1>4, <2>1, <2>2, MessagesAreTyped DEF ServerStep, RoomHasMessage, MembershipChanges
<1>5. ASSUME NEW r \in Responders, Typing(r) PROVE RestTypes'
  <2>1. TypingID(r) \in IDs
    BY MessagesAreTyped
  <2>2. CASE TypingSend(r)
    <3>1. inbox' \in [Sessions -> Seq(Messages)]
      BY <2>1, <2>2, AnswerIsTyped DEF TypingSend, SocketTypes
    <3> QED BY <2>2, <3>1 DEF RestTypes, TypingSend
  <2>3. CASE TypingRegister(r) \/ TypingSendFails(r) \/ TypingUndo(r)
    BY <2>1, <2>3 DEF RestTypes, TypingRegister, TypingSendFails, TypingUndo
  <2> QED BY <1>5, <2>2, <2>3 DEF Typing
<1>6. CASE UNCHANGED vars
  BY <1>6 DEF RestTypes, vars
<1> QED BY <1>1, <1>2, <1>3, <1>4, <1>5, <1>6 DEF Next

(***************************************************************************)
(* All variables have the types TypeOK gives them.                         *)
(***************************************************************************)
THEOREM TypeCorrect == Spec => []TypeOK
<1>1. Init => SocketInv /\ RestTypes
  BY SocketInit, RestInit
<1>2. SocketInv /\ RestTypes /\ [Next]_vars => (SocketInv /\ RestTypes)'
  BY SocketNext, RestNext DEF SocketInv
<1>3. SocketInv /\ RestTypes => TypeOK
  BY DEF SocketInv, SocketTypes, RestTypes, TypeOK
<1> QED BY <1>1, <1>2, <1>3, PTL DEF Spec

-----------------------------------------------------------------------------
(* The login.  A socket the bot has not greeted is silent, so a session     *)
(* begins with an empty inbox; what it then gets about its login is one     *)
(* message at a time, "connected" or the login's result.                    *)

GreetedFirst ==
    /\ ws \in {n, NoSocket}
    /\ up \subseteq 1..n /\ greeted \subseteq 1..n
    /\ main \in {"set", "reset", "connect"} => n \notin greeted
    /\ \A k \in Sessions \ greeted :
         inbox[k] = <<>> /\ k \notin notified /\ \A rid \in AllRooms : subs[k][rid] = 0

LEMMA GreetedInit == Init => GreetedFirst
  BY DEF Init, GreetedFirst, NoSocket, Sessions

\* A step that opens no socket, greets none, and adds only where greeted.
LEMMA GreetedFrame ==
  ASSUME GreetedFirst, UNCHANGED <<n, greeted>>, ws' \in {ws, NoSocket}, up' \subseteq up,
         main' \in {"set", "reset", "connect"} => main \in {"set", "reset", "connect"},
         \A k \in Sessions \ greeted : inbox'[k] = inbox[k] /\ subs'[k] = subs[k],
         notified' \subseteq notified \cup greeted
  PROVE  GreetedFirst'
  BY DEF GreetedFirst

LEMMA GreetedMain ==
  ASSUME SocketInv, RestTypes, GreetedFirst, MainStep PROVE GreetedFirst'
<1> USE DEF client, others, peer
<1>1. CASE CheckForStop \/ DialFails \/ ResetPending \/ SendConnectFails \/ SpawnWatcher
  BY <1>1, GreetedFrame DEF CheckForStop, DialFails, ResetPending, SendConnectFails, SpawnWatcher
<1>2. CASE Dial
  <2>1. /\ n \in Nat /\ n' = n + 1 /\ ws' = NoSocket /\ up' = up \cup {n + 1} /\ main' = "set"
        /\ UNCHANGED <<inbox, greeted, subs, notified>>
    BY <1>2 DEF Dial, SocketInv, SocketTypes, NilBetweenSessions, Sessions
  <2>2. greeted \subseteq 1..n /\ up \subseteq 1..n /\ n + 1 \notin 1..n /\ n + 1 \in 1..(n + 1)
    BY <2>1 DEF GreetedFirst
  <2>3. 1..n \subseteq 1..(n + 1)
    BY <2>1
  <2>4. up' \subseteq 1..n' /\ greeted' \subseteq 1..n'
    BY <2>1, <2>2, <2>3
  <2>5. n' \notin greeted'
    BY <2>1, <2>2
  <2>6. \A k \in Sessions \ greeted' :
          inbox'[k] = <<>> /\ k \notin notified' /\ \A rid \in AllRooms : subs'[k][rid] = 0
    BY <2>1 DEF GreetedFirst
  <2> QED BY <2>1, <2>4, <2>5, <2>6 DEF GreetedFirst
<1>3. CASE SetWebSocket
  BY <1>3 DEF SetWebSocket, GreetedFirst
<1>4. CASE SendConnect
  <2>1. CASE ws \in up
    <3>1. /\ ws = n /\ n \in Sessions /\ main' = "spawn" /\ greeted' = greeted \cup {n}
          /\ inbox' = [inbox EXCEPT ![n] = Append(@, Connected)]
          /\ UNCHANGED <<ws, n, up, subs, notified>>
      BY <1>4, <2>1 DEF SendConnect, GreetedFirst, SocketInv, SocketTypes
    <3>2. n \in 1..n
      BY <3>1 DEF Sessions
    <3>3. \A k \in Sessions \ greeted' : inbox'[k] = inbox[k]
      BY <3>1 DEF RestTypes
    <3> QED BY <3>1, <3>2, <3>3 DEF GreetedFirst
  <2>2. CASE ws \notin up
    BY <1>4, <2>2, GreetedFrame DEF SendConnect
  <2> QED BY <2>1, <2>2
<1>5. CASE EvaluateWebSocket \/ ReadFails \/ CancelSession \/ BackoffEnds \/ BackoffStopped
  BY <1>5, GreetedFrame
  DEF EvaluateWebSocket, ReadFails, CancelSession, BackoffEnds, BackoffStopped
<1>6. CASE ReadMessage
  <2>1. n \in Sessions /\ inbox[n] # <<>> /\ n \in greeted
    BY <1>6 DEF ReadMessage, SocketInv, SocketTypes, GreetedFirst
  <2>2. \A k \in Sessions \ greeted : inbox'[k] = inbox[k]
    BY <1>6, <2>1 DEF ReadMessage, RestTypes
  <2> QED BY <1>6, <2>2, GreetedFrame DEF ReadMessage
<1>7. CASE CloseSession
  BY <1>7, GreetedFrame DEF CloseSession, CloseWebSocket
<1>8. CASE HandleConnected
  <2>1. \A k \in Sessions \ greeted : inbox'[k] = inbox[k]
    BY <1>8 DEF HandleConnected, Answer, RestTypes
  <2> QED BY <1>8, <2>1, GreetedFrame DEF HandleConnected
<1>9. CASE HandleLogin
  <2>1. \A k \in Sessions \ greeted : inbox'[k] = inbox[k] /\ subs'[k] = subs[k]
    BY <1>9 DEF HandleLogin, Answer, Subscribe, RestTypes
  <2> QED BY <1>9, <2>1, GreetedFrame DEF HandleLogin
<1>10. CASE HandleResult \/ HandleRoomMessage
  BY <1>10, GreetedFrame DEF HandleResult, HandleRoomMessage
<1>11. CASE HandleMembership
  <2>1. \A k \in Sessions \ greeted : subs'[k] = subs[k]
    BY <1>11 DEF HandleMembership, Subscribe, RestTypes
  <2> QED BY <1>11, <2>1, GreetedFrame DEF HandleMembership
<1> QED
  BY <1>1, <1>2, <1>3, <1>4, <1>5, <1>6, <1>7, <1>8, <1>9, <1>10, <1>11 DEF MainStep

LEMMA GreetedNext ==
  SocketInv /\ RestTypes /\ GreetedFirst /\ [Next]_vars => GreetedFirst'
<1> SUFFICES ASSUME SocketInv, RestTypes, GreetedFirst, [Next]_vars PROVE GreetedFirst'
  OBVIOUS
<1> USE DEF client, run, others, peer
<1>1. CASE MainStep
  BY <1>1, GreetedMain
<1>2. CASE Stop \/ StopCloses \/ CancelContext
  BY <1>2, GreetedFrame DEF Stop, StopCloses, CancelContext, CloseWebSocket
<1>3. ASSUME NEW k \in Sessions, WatcherCloses(k) PROVE GreetedFirst'
  BY <1>3, GreetedFrame DEF WatcherCloses, CloseWebSocket
<1>4. ASSUME NEW k \in Sessions, ServerStep(k) PROVE GreetedFirst'
  <2>1. CASE ConnectionBreaks(k)
    BY <2>1, GreetedFrame DEF ConnectionBreaks
  <2>2. ASSUME NEW message, ServerSends(k, message), k \in greeted PROVE GreetedFirst'
    <3>1. \A j \in Sessions \ greeted : inbox'[j] = inbox[j]
      BY <2>2 DEF ServerSends, RestTypes
    <3> QED BY <2>2, <3>1, GreetedFrame DEF ServerSends
  <2>3. k \notin greeted => k \notin notified /\ \A rid \in AllRooms : ~(subs[k][rid] > 0)
    BY DEF GreetedFirst
  <2> QED BY <1>4, <2>1, <2>2, <2>3 DEF ServerStep, RoomHasMessage, MembershipChanges
<1>5. ASSUME NEW r \in Responders, Typing(r) PROVE GreetedFirst'
  <2>1. CASE TypingSend(r)
    <3>1. \A k \in Sessions \ greeted : inbox'[k] = inbox[k]
      BY <2>1 DEF TypingSend, Answer, RestTypes
    <3> QED BY <2>1, <3>1, GreetedFrame DEF TypingSend
  <2>2. CASE TypingRegister(r) \/ TypingSendFails(r) \/ TypingUndo(r)
    BY <2>2, GreetedFrame DEF TypingRegister, TypingSendFails, TypingUndo
  <2> QED BY <1>5, <2>1, <2>2 DEF Typing
<1>6. CASE UNCHANGED vars
  BY <1>6, GreetedFrame DEF vars
<1> QED BY <1>1, <1>2, <1>3, <1>4, <1>5, <1>6 DEF Next

-----------------------------------------------------------------------------
(* Of the two messages about the login there is never more than one on its  *)
(* way, in the inbox or being handled; a result on its way has its call in  *)
(* pending.                                                                 *)

About(m, k) == m = Connected \/ m = Result(LoginID(k))

LoginInv ==
    n \in Sessions =>
        /\ \A i, j \in DOMAIN inbox[n] : About(inbox[n][i], n) /\ About(inbox[n][j], n) => i = j
        /\ main = "handle" /\ About(item, n) => \A i \in DOMAIN inbox[n] : ~About(inbox[n][i], n)
        /\ \A i \in DOMAIN inbox[n] : inbox[n][i] = Result(LoginID(n)) => LoginID(n) \in pending

LEMMA OtherMessages ==
  ASSUME NEW k
  PROVE  /\ \A r : TypingID(r) # LoginID(k) /\ ~About(Result(TypingID(r)), k)
         /\ PresenceID(k) # LoginID(k) /\ ~About(Result(PresenceID(k)), k)
         /\ ~About(RoomMessage, k) /\ \A rid : ~About(Membership(rid), k)
  BY DEF TypingID, LoginID, PresenceID, About, Result, Connected, RoomMessage, Membership

LEMMA AnswerAppends ==
  ASSUME RestTypes, NEW k \in Sessions, NEW m \in Messages, Answer(k, <<m>>)
  PROVE  IF k \in up \cap greeted THEN inbox' = [inbox EXCEPT ![k] = Append(@, m)]
                                   ELSE inbox' = inbox
<1>1. inbox[k] \in Seq(Messages)
  BY DEF RestTypes
<1>2. inbox[k] \o <<m>> = Append(inbox[k], m)
  BY <1>1
<1> QED BY <1>2 DEF Answer

\* A step of the same session that takes nothing from its inbox and adds
\* nothing about the login.
LEMMA LoginFrame ==
  ASSUME RestTypes, LoginInv, n' = n, n \in Sessions,
         LoginID(n) \in pending => LoginID(n) \in pending',
         main' = "handle" => main = "handle" /\ item' = item,
         \/ inbox'[n] = inbox[n]
         \/ \E m \in Messages : ~About(m, n) /\ inbox'[n] = Append(inbox[n], m)
  PROVE  LoginInv'
<1>1. CASE inbox'[n] = inbox[n]
  BY <1>1 DEF LoginInv
<1>2. ASSUME NEW m \in Messages, ~About(m, n), inbox'[n] = Append(inbox[n], m)
      PROVE  LoginInv'
  <2>1. inbox[n] \in Seq(Messages)
    BY DEF RestTypes
  <2>2. /\ DOMAIN inbox'[n] = DOMAIN inbox[n] \cup {Len(inbox[n]) + 1}
        /\ inbox'[n][Len(inbox[n]) + 1] = m
        /\ \A i \in DOMAIN inbox[n] : inbox'[n][i] = inbox[n][i]
    BY <1>2, <2>1
  <2>3. m # Result(LoginID(n))
    BY <1>2 DEF About
  <2> QED BY <1>2, <2>2, <2>3 DEF LoginInv
<1> QED BY <1>1, <1>2

\* A frame written on c.ws whose answer is not about the login.
LEMMA LoginAnswer ==
  ASSUME RestTypes, GreetedFirst, LoginInv, n' = n, n \in Sessions, main' # "handle" \/ (main' = main /\ item' = item),
         NEW m \in Messages, ~About(m, n), Answer(ws, <<m>>),
         LoginID(n) \in pending => LoginID(n) \in pending'
  PROVE  LoginInv'
<1>1. CASE ws \in up \cap greeted
  <2>1. ws = n /\ ws \in Sessions
    BY <1>1 DEF GreetedFirst, NoSocket, Sessions
  <2>2. inbox' = [inbox EXCEPT ![n] = Append(@, m)]
    BY <1>1, <2>1, AnswerAppends
  <2>3. inbox'[n] = Append(inbox[n], m)
    BY <2>1, <2>2 DEF RestTypes
  <2> QED BY <2>3, LoginFrame
<1>2. CASE ws \notin up \cap greeted
  BY <1>2, LoginFrame DEF Answer
<1> QED BY <1>1, <1>2

LEMMA LoginMain ==
  ASSUME SocketInv, RestTypes, GreetedFirst, LoginInv, MainStep PROVE LoginInv'
<1> USE DEF client, others, peer
<1>0. main \notin {"check", "dial", "backoff", "returned", "stopError"} => n \in Sessions
  BY DEF SocketInv, SocketTypes
<1>1. CASE CheckForStop \/ DialFails \/ SetWebSocket \/ SendConnectFails \/ SpawnWatcher
  BY <1>1 DEF CheckForStop, DialFails, SetWebSocket, SendConnectFails, SpawnWatcher, LoginInv
<1>2. CASE Dial
  <2>1. /\ n \in Nat /\ n' = n + 1 /\ inbox' = inbox /\ n + 1 \in Sessions /\ main' = "set"
    BY <1>2, BoundsAssumption DEF Dial, SocketInv, SocketTypes, Sessions
  <2>2. n + 1 \notin greeted
    BY <2>1 DEF GreetedFirst
  <2>3. inbox'[n'] = <<>>
    BY <2>1, <2>2 DEF GreetedFirst
  <2> QED BY <2>1, <2>3 DEF LoginInv
<1>3. CASE ResetPending
  <2>1. inbox'[n'] = <<>> /\ main' = "connect"
    BY <1>0, <1>3 DEF ResetPending, GreetedFirst
  <2> QED BY <2>1 DEF LoginInv
<1>4. CASE SendConnect
  <2>1. CASE ws \in up
    <3>1. ws = n /\ n \in Sessions /\ n' = n /\ main' = "spawn" /\ inbox[n] = <<>>
          /\ inbox' = [inbox EXCEPT ![n] = Append(@, Connected)]
      BY <1>0, <1>4, <2>1 DEF SendConnect, GreetedFirst
    <3>2. inbox'[n] = <<Connected>>
      BY <3>1 DEF RestTypes
    <3>3. Connected # Result(LoginID(n))
      BY DEF Connected, Result
    <3>4. DOMAIN inbox'[n] = {1} /\ inbox'[n][1] = Connected
      BY <3>2
    <3> QED BY <3>1, <3>3, <3>4 DEF LoginInv
  <2>2. CASE ws \notin up
    BY <1>4, <2>2 DEF SendConnect, LoginInv
  <2> QED BY <2>1, <2>2
<1>5. CASE EvaluateWebSocket \/ ReadFails \/ CancelSession \/ BackoffEnds \/ BackoffStopped
  BY <1>5 DEF EvaluateWebSocket, ReadFails, CancelSession, BackoffEnds, BackoffStopped, LoginInv
<1>6. CASE ReadMessage
  <2>1. /\ n \in Sessions /\ n' = n /\ pending' = pending /\ inbox[n] # <<>>
        /\ inbox[n] \in Seq(Messages) /\ item' = Head(inbox[n]) /\ inbox'[n] = Tail(inbox[n])
    BY <1>0, <1>6 DEF ReadMessage, RestTypes
  <2>2. /\ 1 \in DOMAIN inbox[n] /\ item' = inbox[n][1]
        /\ \A i \in DOMAIN inbox'[n] : /\ i + 1 \in DOMAIN inbox[n] /\ inbox'[n][i] = inbox[n][i + 1]
                                       /\ i + 1 # 1 /\ i \in Nat
    BY <2>1
  <2>3. \A i, j \in DOMAIN inbox'[n] :
          About(inbox'[n][i], n) /\ About(inbox'[n][j], n) => i = j
    <3> SUFFICES ASSUME NEW i \in DOMAIN inbox'[n], NEW j \in DOMAIN inbox'[n],
                        About(inbox'[n][i], n), About(inbox'[n][j], n)
                 PROVE  i = j
      OBVIOUS
    <3>1. i + 1 = j + 1
      BY <2>1, <2>2 DEF LoginInv
    <3> QED BY <2>2, <3>1
  <2>4. About(item', n) => \A i \in DOMAIN inbox'[n] : ~About(inbox'[n][i], n)
    BY <2>1, <2>2 DEF LoginInv
  <2>5. \A i \in DOMAIN inbox'[n] : inbox'[n][i] = Result(LoginID(n)) => LoginID(n) \in pending
    BY <2>1, <2>2 DEF LoginInv
  <2> QED BY <2>1, <2>3, <2>4, <2>5 DEF LoginInv
<1>7. CASE CloseSession
  BY <1>7 DEF CloseSession, CloseWebSocket, LoginInv
<1>8. CASE HandleConnected
  <2>1. /\ n \in Sessions /\ n' = n /\ main = "handle" /\ main' = "read" /\ About(item, n)
        /\ Answer(ws, <<Result(LoginID(n))>>) /\ Result(LoginID(n)) \in Messages
    BY <1>0, <1>8, MessagesAreTyped DEF HandleConnected, About, Messages
  <2>2. \A i \in DOMAIN inbox[n] : ~About(inbox[n][i], n)
    BY <2>1 DEF LoginInv
  <2>3. CASE ws \in up \cap greeted
    <3>1. ws = n /\ ws # NoSocket
      BY <2>1, <2>3 DEF GreetedFirst, NoSocket, Sessions
    <3>2. LoginID(n) \in pending'
      BY <1>8, <2>3, <3>1 DEF HandleConnected, MaySend
    <3>3. inbox' = [inbox EXCEPT ![n] = Append(@, Result(LoginID(n)))]
      BY <2>1, <2>3, <3>1, AnswerAppends
    <3>4. inbox'[n] = Append(inbox[n], Result(LoginID(n))) /\ inbox[n] \in Seq(Messages)
      BY <2>1, <3>3 DEF RestTypes
    <3>5. /\ DOMAIN inbox'[n] = DOMAIN inbox[n] \cup {Len(inbox[n]) + 1}
          /\ \A i \in DOMAIN inbox[n] : inbox'[n][i] = inbox[n][i]
      BY <2>1, <3>4
    <3> QED BY <2>1, <2>2, <3>2, <3>5 DEF LoginInv
  <2>4. CASE ws \notin up \cap greeted
    <3>1. inbox' = inbox
      BY <2>1, <2>4 DEF Answer
    <3> QED BY <2>1, <2>2, <3>1 DEF LoginInv, About
  <2> QED BY <2>3, <2>4
<1>9. CASE HandleLogin
  <2>1. /\ n \in Sessions /\ n' = n /\ main = "handle" /\ main' = "read" /\ About(item, n)
        /\ Answer(ws, <<Result(PresenceID(n))>>) /\ Result(PresenceID(n)) \in Messages
    BY <1>0, <1>9, MessagesAreTyped DEF HandleLogin, About, Messages
  <2>2. \A i \in DOMAIN inbox[n] : ~About(inbox[n][i], n)
    BY <2>1 DEF LoginInv
  <2>3. \A i \in DOMAIN inbox'[n] : ~About(inbox'[n][i], n)
    <3>1. CASE ws \in up \cap greeted
      <4>1. ws = n
        BY <2>1, <3>1 DEF GreetedFirst, NoSocket, Sessions
      <4>2. inbox'[n] = Append(inbox[n], Result(PresenceID(n))) /\ inbox[n] \in Seq(Messages)
        BY <2>1, <3>1, <4>1, AnswerAppends DEF RestTypes
      <4>3. /\ DOMAIN inbox'[n] = DOMAIN inbox[n] \cup {Len(inbox[n]) + 1}
            /\ inbox'[n][Len(inbox[n]) + 1] = Result(PresenceID(n))
            /\ \A i \in DOMAIN inbox[n] : inbox'[n][i] = inbox[n][i]
        BY <2>1, <4>2
      <4> QED BY <2>2, <4>3, OtherMessages
    <3>2. CASE ws \notin up \cap greeted
      BY <2>1, <2>2, <3>2 DEF Answer
    <3> QED BY <3>1, <3>2
  <2> QED BY <2>1, <2>3 DEF LoginInv, About
<1>10. CASE HandleResult
  <2>1. LoginID(n) \in pending => LoginID(n) \in pending'
    BY <1>10 DEF HandleResult
  <2> QED BY <1>0, <1>10, <2>1, LoginFrame DEF HandleResult
<1>11. CASE HandleMembership \/ HandleRoomMessage
  BY <1>11 DEF HandleMembership, HandleRoomMessage, LoginInv
<1> QED
  BY <1>1, <1>2, <1>3, <1>4, <1>5, <1>6, <1>7, <1>8, <1>9, <1>10, <1>11 DEF MainStep

LEMMA LoginNext ==
  SocketInv /\ RestTypes /\ GreetedFirst /\ LoginInv /\ [Next]_vars => LoginInv'
<1> SUFFICES ASSUME SocketInv, RestTypes, GreetedFirst, LoginInv, [Next]_vars PROVE LoginInv'
  OBVIOUS
<1> USE DEF client, run, others, peer
<1>1. CASE MainStep
  BY <1>1, LoginMain
<1>2. CASE Stop \/ StopCloses \/ CancelContext
  BY <1>2 DEF Stop, StopCloses, CancelContext, CloseWebSocket, LoginInv
<1>3. ASSUME NEW k \in Sessions, WatcherCloses(k) PROVE LoginInv'
  BY <1>3 DEF WatcherCloses, CloseWebSocket, LoginInv
<1>4. ASSUME NEW k \in Sessions, ServerStep(k) PROVE LoginInv'
  <2>1. CASE ConnectionBreaks(k)
    BY <2>1 DEF ConnectionBreaks, LoginInv
  <2>2. ASSUME NEW message \in Messages, ~About(message, n), ServerSends(k, message) PROVE LoginInv'
    <3>1. n \in Sessions => inbox'[n] = inbox[n] \/ inbox'[n] = Append(inbox[n], message)
      BY <2>2 DEF ServerSends, RestTypes
    <3>2. UNCHANGED <<n, main, item, pending>>
      BY <2>2 DEF ServerSends
    <3>3. CASE n \in Sessions
      BY <2>2, <3>1, <3>2, <3>3, LoginFrame
    <3>4. CASE n \notin Sessions
      BY <3>2, <3>4 DEF LoginInv
    <3> QED BY <3>3, <3>4
  <2>3. RoomMessage \in Messages /\ \A rid \in AllRooms \cup {NoRoom} : Membership(rid) \in Messages
    BY DEF Messages
  <2> QED BY <1>4, <2>1, <2>2, <2>3, OtherMessages DEF ServerStep, RoomHasMessage, MembershipChanges
<1>5. ASSUME NEW r \in Responders, Typing(r) PROVE LoginInv'
  <2>1. CASE TypingSend(r)
    <3>1. UNCHANGED <<n, main, item, pending>> /\ Answer(ws, <<Result(TypingID(r))>>)
      BY <2>1 DEF TypingSend
    <3>2. Result(TypingID(r)) \in Messages /\ ~About(Result(TypingID(r)), n)
      BY MessagesAreTyped, OtherMessages DEF Messages
    <3>3. CASE n \in Sessions
      BY <3>1, <3>2, <3>3, LoginAnswer
    <3>4. CASE n \notin Sessions
      BY <3>1, <3>4 DEF LoginInv
    <3> QED BY <3>3, <3>4
  <2>2. CASE TypingRegister(r) \/ TypingSendFails(r) \/ TypingUndo(r)
    BY <2>2, OtherMessages DEF TypingRegister, TypingSendFails, TypingUndo, LoginInv
  <2> QED BY <1>5, <2>1, <2>2 DEF Typing
<1>6. CASE UNCHANGED vars
  BY <1>6 DEF vars, LoginInv
<1> QED BY <1>1, <1>2, <1>3, <1>4, <1>5, <1>6 DEF Next

(***************************************************************************)
(* However often the bot reconnects and whatever calls of responders fail  *)
(* meanwhile, the answer to the session's login is recognised.             *)
(***************************************************************************)
THEOREM LoginRecognised == Spec => []LoginIsExpected
<1> DEFINE IInv == SocketInv /\ RestTypes /\ GreetedFirst /\ LoginInv
<1>1. Init => IInv
  BY SocketInit, RestInit, GreetedInit DEF Init, LoginInv, Sessions
<1>2. IInv /\ [Next]_vars => IInv'
  BY SocketNext, RestNext, GreetedNext, LoginNext DEF SocketInv
<1>3. IInv => LoginIsExpected
  BY DEF SocketInv, SocketTypes, LoginInv, LoginIsExpected
<1> HIDE DEF IInv
<1> QED BY <1>1, <1>2, <1>3, PTL DEF Spec

-----------------------------------------------------------------------------
(* The subscriptions of a session.  Until its login was followed up there   *)
(* are none, and no news of memberships; from then on nothing about the     *)
(* login comes any more that could subscribe a second time.                 *)

SubInv ==
    n \in Sessions =>
        /\ n \in notified =>
             /\ \A i \in DOMAIN inbox[n] : ~About(inbox[n][i], n)
             /\ main = "handle" => ~About(item, n)
        /\ n \notin notified =>
             /\ \A rid \in AllRooms : subs[n][rid] = 0
             /\ \A i \in DOMAIN inbox[n] : inbox[n][i].msg # "membership"
             /\ main = "handle" => item.msg # "membership"
        /\ n \in up \cap notified /\ ws = n =>
             \A rid \in AllRooms : subs[n][rid] = IF rid \in rooms THEN 1 ELSE 0

\* A step of the same session that subscribes to nothing and adds at most a
\* message that may come now.
LEMMA SubFrame ==
  ASSUME RestTypes, SubInv, n' = n, n \in Sessions, UNCHANGED <<notified, rooms, subs>>,
         ws' \in {ws, NoSocket}, up' \subseteq up,
         main' = "handle" => main = "handle" /\ item' = item,
         \/ inbox'[n] = inbox[n]
         \/ \E m \in Messages : /\ inbox'[n] = Append(inbox[n], m)
                                /\ n \in notified => ~About(m, n)
                                /\ n \notin notified => m.msg # "membership"
  PROVE  SubInv'
<1>0. n # NoSocket
  BY DEF Sessions, NoSocket
<1>1. CASE inbox'[n] = inbox[n]
  BY <1>0, <1>1 DEF SubInv
<1>2. ASSUME NEW m \in Messages, inbox'[n] = Append(inbox[n], m),
             n \in notified => ~About(m, n), n \notin notified => m.msg # "membership"
      PROVE  SubInv'
  <2>1. inbox[n] \in Seq(Messages)
    BY DEF RestTypes
  <2>2. /\ DOMAIN inbox'[n] = DOMAIN inbox[n] \cup {Len(inbox[n]) + 1}
        /\ inbox'[n][Len(inbox[n]) + 1] = m
        /\ \A i \in DOMAIN inbox[n] : inbox'[n][i] = inbox[n][i]
    BY <1>2, <2>1
  <2>3. n \in notified => \A i \in DOMAIN inbox'[n] : ~About(inbox'[n][i], n)
    BY <1>2, <2>2 DEF SubInv
  <2>4. n \notin notified => \A i \in DOMAIN inbox'[n] : inbox'[n][i].msg # "membership"
    BY <1>2, <2>2 DEF SubInv
  <2>5. main' = "handle" => IF n \in notified THEN ~About(item', n) ELSE item'.msg # "membership"
    BY DEF SubInv
  <2>6. n \notin notified => \A rid \in AllRooms : subs[n][rid] = 0
    BY DEF SubInv
  <2>7. n \in up' \cap notified /\ ws' = n =>
          \A rid \in AllRooms : subs[n][rid] = IF rid \in rooms THEN 1 ELSE 0
    BY <1>0 DEF SubInv
  <2>8. n' = n /\ notified' = notified /\ rooms' = rooms /\ subs' = subs
    OBVIOUS
  <2> QED BY ONLY <2>3, <2>4, <2>5, <2>6, <2>7, <2>8 DEF SubInv
<1> QED BY <1>1, <1>2

\* A frame written on c.ws that makes the server send a message.
LEMMA SubAnswer ==
  ASSUME RestTypes, GreetedFirst, SubInv, n' = n, n \in Sessions,
         UNCHANGED <<ws, up, notified, rooms, subs>>,
         main' # "handle" \/ (main' = main /\ item' = item),
         NEW m \in Messages, Answer(ws, <<m>>),
         n \in notified => ~About(m, n), n \notin notified => m.msg # "membership"
  PROVE  SubInv'
<1>1. CASE ws \in up \cap greeted
  <2>1. ws = n /\ ws \in Sessions
    BY <1>1 DEF GreetedFirst, NoSocket, Sessions
  <2>2. inbox' = [inbox EXCEPT ![n] = Append(@, m)]
    BY <1>1, <2>1, AnswerAppends
  <2>3. inbox'[n] = Append(inbox[n], m)
    BY <2>1, <2>2 DEF RestTypes
  <2> QED BY <2>3, SubFrame
<1>2. CASE ws \notin up \cap greeted
  BY <1>2, SubFrame DEF Answer
<1> QED BY <1>1, <1>2

LEMMA SubMain ==
  ASSUME SocketInv, RestTypes, GreetedFirst, GreetedFirst', LoginInv, SubInv, MainStep PROVE SubInv'
<1> USE DEF client, others, peer
<1>0. main \notin {"check", "dial", "backoff", "returned", "stopError"} => n \in Sessions
  BY DEF SocketInv, SocketTypes
<1>1. CASE CheckForStop \/ DialFails \/ SendConnectFails \/ SpawnWatcher
  BY <1>1 DEF CheckForStop, DialFails, SendConnectFails, SpawnWatcher, SubInv
<1>2. CASE Dial \/ SetWebSocket \/ ResetPending
  <2>1. main' \in {"set", "reset", "connect"}
    BY <1>2 DEF Dial, SetWebSocket, ResetPending
  <2>2. n' \notin greeted' /\ main' # "handle"
    BY <2>1 DEF GreetedFirst
  <2>3. \A rid \in AllRooms : n' \in Sessions => subs'[n'][rid] = 0
    BY <2>2 DEF GreetedFirst
  <2>4. n' \in Sessions => inbox'[n'] = <<>> /\ n' \notin notified'
    BY <2>2 DEF GreetedFirst
  <2> QED BY <2>2, <2>3, <2>4 DEF SubInv
<1>3. CASE SendConnect
  <2>1. CASE ws \in up
    <3>1. /\ ws = n /\ n \in Sessions /\ n' = n /\ main' = "spawn" /\ inbox[n] = <<>>
          /\ inbox' = [inbox EXCEPT ![n] = Append(@, Connected)]
          /\ UNCHANGED <<ws, up, notified, rooms, subs>>
      BY <1>0, <1>3, <2>1 DEF SendConnect, GreetedFirst
    <3>2. inbox'[n] = Append(inbox[n], Connected)
      BY <3>1 DEF RestTypes
    <3>3. n \notin notified
      BY <1>3, <3>1 DEF SendConnect, GreetedFirst
    <3>4. Connected \in Messages /\ Connected.msg # "membership"
      BY DEF Connected, Messages
    <3> QED BY <3>1, <3>2, <3>3, <3>4, SubFrame
  <2>2. CASE ws \notin up
    BY <1>3, <2>2 DEF SendConnect, SubInv
  <2> QED BY <2>1, <2>2
<1>4. CASE EvaluateWebSocket \/ ReadFails \/ CancelSession \/ BackoffEnds \/ BackoffStopped
  BY <1>4 DEF EvaluateWebSocket, ReadFails, CancelSession, BackoffEnds, BackoffStopped, SubInv
<1>5. CASE ReadMessage
  <2>1. /\ n \in Sessions /\ n' = n /\ inbox[n] # <<>> /\ UNCHANGED <<ws, up, notified, rooms, subs>>
        /\ inbox[n] \in Seq(Messages) /\ item' = Head(inbox[n]) /\ inbox'[n] = Tail(inbox[n])
    BY <1>0, <1>5 DEF ReadMessage, RestTypes
  <2>2. /\ 1 \in DOMAIN inbox[n] /\ item' = inbox[n][1]
        /\ \A i \in DOMAIN inbox'[n] : i + 1 \in DOMAIN inbox[n] /\ inbox'[n][i] = inbox[n][i + 1]
    BY <2>1
  <2> QED BY <2>1, <2>2 DEF SubInv
<1>6. CASE CloseSession
  BY <1>0, <1>6 DEF CloseSession, CloseWebSocket, SubInv, NoSocket, Sessions
<1>7. CASE HandleConnected
  <2>1. /\ n \in Sessions /\ n' = n /\ main = "handle" /\ main' = "read" /\ About(item, n)
        /\ Answer(ws, <<Result(LoginID(n))>>) /\ Result(LoginID(n)) \in Messages
        /\ UNCHANGED <<ws, up, notified, rooms, subs>>
    BY <1>0, <1>7, MessagesAreTyped DEF HandleConnected, About
  <2>2. n \notin notified
    BY <2>1 DEF SubInv
  <2>3. Result(LoginID(n)).msg # "membership"
    BY DEF Result
  <2> QED BY <2>1, <2>2, <2>3, SubAnswer
<1>8. CASE HandleLogin
  <2>1. /\ n \in Sessions /\ n' = n /\ main = "handle" /\ main' = "read" /\ About(item, n)
        /\ Answer(ws, <<Result(PresenceID(n))>>) /\ Result(PresenceID(n)) \in Messages
        /\ Subscribe(ws, rooms) /\ notified' = notified \cup ({ws} \cap up \cap greeted)
        /\ UNCHANGED <<ws, up, rooms>>
    BY <1>0, <1>8, MessagesAreTyped DEF HandleLogin, About
  <2>2. /\ n \notin notified /\ \A rid \in AllRooms : subs[n][rid] = 0
        /\ \A i \in DOMAIN inbox[n] : inbox[n][i].msg # "membership"
        /\ \A i \in DOMAIN inbox[n] : ~About(inbox[n][i], n)
    BY <2>1 DEF SubInv, LoginInv
  <2>3. CASE ws \in up \cap greeted
    <3>1. ws = n
      BY <2>1, <2>3 DEF GreetedFirst, NoSocket, Sessions
    <3>2. inbox'[n] = Append(inbox[n], Result(PresenceID(n))) /\ inbox[n] \in Seq(Messages)
      BY <2>1, <2>3, <3>1, AnswerAppends DEF RestTypes
    <3>3. /\ DOMAIN inbox'[n] = DOMAIN inbox[n] \cup {Len(inbox[n]) + 1}
          /\ inbox'[n][Len(inbox[n]) + 1] = Result(PresenceID(n))
          /\ \A i \in DOMAIN inbox[n] : inbox'[n][i] = inbox[n][i]
      BY <2>1, <3>2
    <3>4. \A i \in DOMAIN inbox'[n] : ~About(inbox'[n][i], n)
      BY <2>2, <3>3, OtherMessages
    <3>5. \A rid \in AllRooms : subs'[n][rid] = IF rid \in rooms THEN 1 ELSE 0
      BY <2>1, <2>2, <2>3, <3>1 DEF Subscribe, RestTypes
    <3>6. n \in notified'
      BY <2>1, <2>3, <3>1
    <3> QED BY <2>1, <3>4, <3>5, <3>6 DEF SubInv
  <2>4. CASE ws \notin up \cap greeted
    <3>1. inbox' = inbox /\ subs' = subs /\ notified' = notified
      BY <2>1, <2>4 DEF Answer, Subscribe
    <3> QED BY <2>1, <2>2, <3>1 DEF SubInv
  <2> QED BY <2>3, <2>4
<1>9. CASE HandleResult \/ HandleRoomMessage
  BY <1>9 DEF HandleResult, HandleRoomMessage, SubInv
<1>10. CASE HandleMembership
  <2>1. /\ n \in Sessions /\ n' = n /\ main = "handle" /\ main' = "read" /\ item.msg = "membership"
        /\ UNCHANGED <<ws, up, notified, inbox>>
    BY <1>0, <1>10 DEF HandleMembership
  <2>2. n \in notified /\ \A i \in DOMAIN inbox[n] : ~About(inbox[n][i], n)
    BY <2>1 DEF SubInv
  <2>3. ASSUME n \in up, ws = n, NEW rid \in AllRooms
        PROVE  subs'[n][rid] = IF rid \in rooms' THEN 1 ELSE 0
    <3> DEFINE found == {item.room} \ ({NoRoom} \cup rooms)
    <3>1. rooms' = rooms \cup found /\ Subscribe(ws, found)
      BY <1>10 DEF HandleMembership
    <3>2. n \in greeted
      BY <2>1, <2>2 DEF GreetedFirst
    <3>3. subs'[n][rid] = IF rid \in found THEN subs[n][rid] + 1 ELSE subs[n][rid]
      BY <2>1, <2>3, <3>1, <3>2 DEF Subscribe, RestTypes
    <3>4. subs[n][rid] = IF rid \in rooms THEN 1 ELSE 0
      BY <2>1, <2>2, <2>3 DEF SubInv
    <3> QED BY <3>1, <3>3, <3>4
  <2> QED BY <2>1, <2>2, <2>3 DEF SubInv
<1> QED
  BY <1>1, <1>2, <1>3, <1>4, <1>5, <1>6, <1>7, <1>8, <1>9, <1>10 DEF MainStep

LEMMA SubNext ==
  ASSUME SocketInv, RestTypes, GreetedFirst, GreetedFirst', LoginInv, SubInv, [Next]_vars
  PROVE  SubInv'
<1> USE DEF client, run, others, peer
<1>1. CASE MainStep
  BY <1>1, SubMain
<1>2. CASE Stop \/ StopCloses \/ CancelContext
  BY <1>2 DEF Stop, StopCloses, CancelContext, CloseWebSocket, SubInv, NoSocket, Sessions
<1>3. ASSUME NEW k \in Sessions, WatcherCloses(k) PROVE SubInv'
  BY <1>3 DEF WatcherCloses, CloseWebSocket, SubInv, NoSocket, Sessions
<1>4. ASSUME NEW k \in Sessions, ServerStep(k) PROVE SubInv'
  <2>1. CASE ConnectionBreaks(k)
    BY <2>1 DEF ConnectionBreaks, SubInv
  <2>2. ASSUME NEW message \in Messages, ~About(message, n), ServerSends(k, message),
               k = n /\ n \notin notified => message.msg # "membership"
        PROVE  SubInv'
    <3>1. n \in Sessions => \/ inbox'[n] = inbox[n]
                            \/ k = n /\ inbox'[n] = Append(inbox[n], message)
      BY <2>2 DEF ServerSends, RestTypes
    <3>2. UNCHANGED <<n, main, item, ws, up, notified, rooms, subs>>
      BY <2>2 DEF ServerSends
    <3>3. CASE n \in Sessions
      BY <2>2, <3>1, <3>2, <3>3, SubFrame
    <3>4. CASE n \notin Sessions
      BY <3>2, <3>4 DEF SubInv
    <3> QED BY <3>3, <3>4
  <2>3. RoomMessage \in Messages /\ \A rid \in AllRooms \cup {NoRoom} : Membership(rid) \in Messages
    BY DEF Messages
  <2>4. RoomMessage.msg # "membership"
    BY DEF RoomMessage
  <2>5. CASE RoomHasMessage(k)
    BY <2>2, <2>3, <2>4, <2>5, OtherMessages DEF RoomHasMessage
  <2>6. ASSUME NEW rid \in AllRooms \cup {NoRoom}, MembershipChanges(k, rid) PROVE SubInv'
    BY <2>2, <2>3, <2>6, OtherMessages DEF MembershipChanges
  <2> QED BY <1>4, <2>1, <2>5, <2>6 DEF ServerStep
<1>5. ASSUME NEW r \in Responders, Typing(r) PROVE SubInv'
  <2>1. CASE TypingSend(r)
    <3>1. /\ UNCHANGED <<n, main, item, ws, up, notified, rooms, subs>>
          /\ Answer(ws, <<Result(TypingID(r))>>)
      BY <2>1 DEF TypingSend
    <3>2. /\ Result(TypingID(r)) \in Messages /\ ~About(Result(TypingID(r)), n)
          /\ Result(TypingID(r)).msg # "membership"
      BY MessagesAreTyped, OtherMessages DEF Result
    <3>3. CASE n \in Sessions
      BY <3>1, <3>2, <3>3, SubAnswer
    <3>4. CASE n \notin Sessions
      BY <3>1, <3>4 DEF SubInv
    <3> QED BY <3>3, <3>4
  <2>2. CASE TypingRegister(r) \/ TypingSendFails(r) \/ TypingUndo(r)
    BY <2>2 DEF TypingRegister, TypingSendFails, TypingUndo, SubInv
  <2> QED BY <1>5, <2>1, <2>2 DEF Typing
<1>6. CASE UNCHANGED vars
  BY <1>6 DEF vars, SubInv
<1> QED BY <1>1, <1>2, <1>3, <1>4, <1>5, <1>6 DEF Next

(***************************************************************************)
(* For any number of sessions and rooms: a logged-in session is subscribed *)
(* exactly once to each room the bot knows, in whichever session it        *)
(* learned of it.                                                          *)
(***************************************************************************)
THEOREM SubscribedOnce == Spec => []SubscribedOnceToKnownRooms
<1> DEFINE IInv == SocketInv /\ RestTypes /\ GreetedFirst /\ LoginInv /\ SubInv
<1>1. Init => IInv
  BY SocketInit, RestInit, GreetedInit DEF Init, LoginInv, SubInv, Sessions
<1>2. IInv /\ [Next]_vars => IInv'
  BY SocketNext, RestNext, GreetedNext, LoginNext, SubNext DEF SocketInv
<1>3. IInv => SubscribedOnceToKnownRooms
  <2> SUFFICES ASSUME IInv, ws # NoSocket, ws \in up \cap notified
               PROVE  \A rid \in AllRooms : subs[ws][rid] = IF rid \in rooms THEN 1 ELSE 0
    BY DEF SubscribedOnceToKnownRooms
  <2>1. ws = n /\ n \in Sessions
    BY DEF GreetedFirst, SocketInv, SocketTypes, NoSocket
  <2> QED BY <2>1 DEF SubInv
<1> HIDE DEF IInv
<1> QED BY <1>1, <1>2, <1>3, PTL DEF Spec
=============================================================================

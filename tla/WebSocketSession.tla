-------------------------- MODULE WebSocketSession --------------------------
(***************************************************************************)
(* The bot's WebSocket connection (bot/client.go): the goroutine of        *)
(* Client.Run with its reconnects, one watcher goroutine per session, Stop *)
(* and the cancellation of Run's context, and the responders that write    *)
(* typing notices on whatever connection there is.  Session k is the k-th  *)
(* call of runSession that got a connection; its socket has its number.    *)
(*                                                                         *)
(* wsMu and pendingMu make closeWebSocket, sendMessage and each access to  *)
(* the pending map one step.  handleMessages reads c.ws without wsMu.      *)
(***************************************************************************)
EXTENDS Naturals, Sequences, FiniteSets

CONSTANTS
    Rooms,          \* what GetSubscriptions returned when Run started
    NewRooms,       \* rooms the bot is added to later
    NoRoom,         \* "": what a notification without a room carries
    Responders,     \* responder goroutines (one typing call each)
    MaxSessions,    \* bound: connections that can be opened; the last one stays up
    MaxQueue,       \* bound: unsolicited messages the server has under way
    WatcherLags,    \* may a watcher sleep through the whole backoff?
    CanStop         \* may Stop be called and the context be cancelled?

ASSUME RoomsAssumption == NoRoom \notin Rooms \cup NewRooms
ASSUME BoundsAssumption == MaxSessions \in Nat \ {0} /\ MaxQueue \in Nat
ASSUME SwitchAssumption == WatcherLags \in BOOLEAN /\ CanStop \in BOOLEAN

Sessions == 1..MaxSessions
AllRooms == Rooms \cup NewRooms
NoSocket == 0

VARIABLES
    \* the Client
    ws,             \* c.ws: the socket's number or NoSocket
    pending,        \* ids of DDP method calls without an answer
    rooms,
    stopChan, ctxDone,
    \* the goroutine of Run
    main, n, item, outcome,
    \* the other goroutines
    cancelled,      \* sessions whose own context was cancelled
    watcher, stopper, responder,
    \* the sockets and the server's end of them
    open,           \* sockets the bot has not closed
    up,             \* sockets whose connection works
    inbox,          \* what the server sent and the bot has not read
    greeted,        \* sockets on which the server got "connect"
    subs,           \* how often a room was subscribed to, per socket
    notified        \* sockets with a subscription to membership changes

client == <<ws, pending, rooms, stopChan, ctxDone>>
run == <<main, n, item, outcome>>
others == <<cancelled, watcher, stopper, responder>>
peer == <<up, inbox, greeted, subs, notified>>
vars == <<client, run, others, open, peer>>

LoginID(k) == <<"login", k>>
PresenceID(k) == <<"presence", k>>
TypingID(r) == <<"typing", r>>
IDs == {LoginID(k) : k \in Sessions} \cup {PresenceID(k) : k \in Sessions}
         \cup {TypingID(r) : r \in Responders}

Connected == [msg |-> "connected"]
Result(id) == [msg |-> "result", id |-> id]
RoomMessage == [msg |-> "message"]
Membership(rid) == [msg |-> "membership", room |-> rid]
Messages == {Connected, RoomMessage} \cup {Result(id) : id \in IDs}
              \cup {Membership(rid) : rid \in AllRooms \cup {NoRoom}}

MainPCs == {"check", "dial", "set", "reset", "connect", "spawn", "read", "reading",
            "handle", "cancel", "close", "backoff", "returned", "stopError", "crashed"}

TypeOK ==
    /\ ws \in Sessions \cup {NoSocket}
    /\ pending \subseteq IDs
    /\ rooms \subseteq AllRooms
    /\ stopChan \in BOOLEAN /\ ctxDone \in BOOLEAN
    /\ main \in MainPCs
    /\ n \in Sessions \cup {0}
    /\ item \in Messages
    /\ outcome \in {"stop", "canceled", "other"}
    /\ cancelled \subseteq Sessions
    /\ watcher \in [Sessions -> {"none", "waiting", "gone"}]
    /\ stopper \in {"idle", "closing", "done"}
    /\ responder \in [Responders -> {"idle", "register", "send", "undo", "done"}]
    /\ open \subseteq Sessions
    /\ up \subseteq Sessions
    /\ inbox \in [Sessions -> Seq(Messages)]
    /\ greeted \subseteq Sessions
    /\ subs \in [Sessions -> [AllRooms -> Nat]]
    /\ notified \subseteq Sessions

Init ==
    /\ ws = NoSocket
    /\ pending = {}
    /\ rooms = Rooms
    /\ stopChan = FALSE /\ ctxDone = FALSE
    /\ main = "check" /\ n = 0 /\ item = Connected /\ outcome = "other"
    /\ cancelled = {}
    /\ watcher = [k \in Sessions |-> "none"]
    /\ stopper = "idle"
    /\ responder = [r \in Responders |-> "idle"]
    /\ open = {} /\ up = {} /\ greeted = {} /\ notified = {}
    /\ inbox = [k \in Sessions |-> <<>>]
    /\ subs = [k \in Sessions |-> [rid \in AllRooms |-> 0]]

-----------------------------------------------------------------------------
Stopping == stopChan \/ ctxDone

CloseWebSocket ==
    /\ open' = open \ {ws}
    /\ ws' = NoSocket

\* What a frame written on socket k makes the server send, if it arrives.
\* Meteor answers nothing on a socket that has not said "connect".
Answer(k, answers) ==
    inbox' = IF k \in up \cap greeted THEN [inbox EXCEPT ![k] = @ \o answers] ELSE inbox

\* May a frame written now count as sent?  On a broken connection the write
\* may fail or not.
MaySend(sent) == CASE ws = NoSocket -> ~sent
                   [] ws \in up -> sent
                   [] OTHER -> TRUE

\* The server takes a subscription to each of these rooms.
Subscribe(k, rids) ==
    subs' = IF k \in up \cap greeted
            THEN [subs EXCEPT ![k] = [rid \in AllRooms |->
                    IF rid \in rids THEN subs[k][rid] + 1 ELSE subs[k][rid]]]
            ELSE subs

-----------------------------------------------------------------------------
(* Client.Run, after initialize.                                           *)

\* The select takes any case that is ready.  What checkForStop reports Run
\* returns as it is: errStopRequested here, where the other ways of being
\* stopped (CloseSession, BackoffStopped) return nil.
CheckForStop ==
    /\ main = "check"
    /\ \/ ctxDone /\ main' = "returned"
       \/ stopChan /\ main' = "stopError"
       \/ ~Stopping /\ main' = "dial"
    /\ UNCHANGED <<client, n, item, outcome, others, open, peer>>

Dial ==
    /\ main = "dial"
    /\ n < MaxSessions
    /\ n' = n + 1
    /\ open' = open \cup {n + 1}
    /\ up' = up \cup {n + 1}
    /\ main' = "set"
    /\ UNCHANGED <<client, item, outcome, others, inbox, greeted, subs, notified>>

DialFails ==
    /\ main = "dial"
    /\ main' = "backoff"
    /\ UNCHANGED <<client, n, item, outcome, others, open, peer>>

SetWebSocket ==
    /\ main = "set"
    /\ ws' = n
    /\ main' = "reset"
    /\ UNCHANGED <<pending, rooms, stopChan, ctxDone, n, item, outcome, others, open, peer>>

ResetPending ==
    /\ main = "reset"
    /\ pending' = {}
    /\ main' = "connect"
    /\ UNCHANGED <<ws, rooms, stopChan, ctxDone, n, item, outcome, others, open, peer>>

SendConnect ==
    /\ main = "connect"
    /\ ws # NoSocket
    /\ IF ws \in up
       THEN /\ greeted' = greeted \cup {ws}
            /\ inbox' = [inbox EXCEPT ![ws] = Append(@, Connected)]
       ELSE UNCHANGED <<greeted, inbox>>
    /\ main' = "spawn"
    /\ UNCHANGED <<client, n, item, outcome, others, open, up, subs, notified>>

\* No socket any more, or the write fails: runSession returns before it has
\* made a context or a watcher.
SendConnectFails ==
    /\ main = "connect"
    /\ ws \notin up
    /\ main' = "close"
    /\ outcome' = "other"
    /\ UNCHANGED <<client, n, item, others, open, peer>>

SpawnWatcher ==
    /\ main = "spawn"
    /\ watcher' = [watcher EXCEPT ![n] = "waiting"]
    /\ main' = "read"
    /\ UNCHANGED <<client, n, item, outcome, cancelled, stopper, responder, open, peer>>

\* c.ws.ReadJSON: calling it on a nil c.ws ends the program.
EvaluateWebSocket ==
    /\ main = "read"
    /\ main' = IF ws = NoSocket THEN "crashed" ELSE "reading"
    /\ UNCHANGED <<client, n, item, outcome, others, open, peer>>

ReadMessage ==
    /\ main = "reading"
    /\ n \in open
    /\ inbox[n] # <<>>
    /\ item' = Head(inbox[n])
    /\ inbox' = [inbox EXCEPT ![n] = Tail(@)]
    /\ main' = "handle"
    /\ UNCHANGED <<client, n, outcome, others, open, up, greeted, subs, notified>>

\* Closed here, or the connection broke and everything it brought was read.
\* The select takes any case that is ready.
ReadFails ==
    /\ main = "reading"
    /\ n \notin open \/ (n \notin up /\ inbox[n] = <<>>)
    /\ \/ ctxDone /\ outcome' = "canceled"
       \/ stopChan /\ outcome' = "stop"
       \/ ~Stopping /\ outcome' = "other"
    /\ main' = "cancel"
    /\ UNCHANGED <<client, n, item, others, open, peer>>

\* The deferred calls of runSession: cancel, ...
CancelSession ==
    /\ main = "cancel"
    /\ cancelled' = cancelled \cup {n}
    /\ main' = "close"
    /\ UNCHANGED <<client, n, item, outcome, watcher, stopper, responder, open, peer>>

\* MUTANT: runSession leaves closing the socket to its watcher.
CloseSessionLeavesSocket ==
    /\ main = "close"
    /\ main' = IF outcome = "other" THEN "backoff" ELSE "returned"
    /\ UNCHANGED <<client, n, item, outcome, others, open, peer>>

\* MUTANT: any error ends the bot.
CloseSessionGivesUp ==
    /\ main = "close"
    /\ CloseWebSocket
    /\ main' = "returned"
    /\ UNCHANGED <<pending, rooms, stopChan, ctxDone, n, item, outcome, others, peer>>

\* ... closeWebSocket; and what runWithReconnect makes of the result.
CloseSession ==
    /\ main = "close"
    /\ CloseWebSocket
    /\ main' = IF outcome = "other" THEN "backoff" ELSE "returned"
    /\ UNCHANGED <<pending, rooms, stopChan, ctxDone, n, item, outcome, others, peer>>

\* The timer is not shorter than half a second: a watcher that was woken
\* before is through, unless it may lag.
WatchersThrough == \A k \in cancelled : watcher[k] # "waiting"

BackoffEnds ==
    /\ main = "backoff"
    /\ WatcherLags \/ WatchersThrough
    /\ main' = "check"
    /\ UNCHANGED <<client, n, item, outcome, others, open, peer>>

BackoffStopped ==
    /\ main = "backoff"
    /\ Stopping
    /\ main' = "returned"
    /\ UNCHANGED <<client, n, item, outcome, others, open, peer>>

-----------------------------------------------------------------------------
(* processMessage; whatever is sent goes to the socket c.ws is now.        *)

\* "connected": log in.  A call that cannot be sent is forgotten again.
HandleConnected ==
    /\ main = "handle"
    /\ item = Connected
    /\ \E sent \in BOOLEAN :
         /\ MaySend(sent)
         /\ pending' = pending \cup {id \in {LoginID(n)} : sent}
    /\ Answer(ws, <<Result(LoginID(n))>>)
    /\ main' = "read"
    /\ UNCHANGED <<ws, rooms, stopChan, ctxDone, n, item, outcome, others, open,
                   up, greeted, subs, notified>>

\* MUTANT: only the rooms known at the start are subscribed to.
HandleLoginOldRooms ==
    /\ main = "handle"
    /\ item = Result(LoginID(n))
    /\ LoginID(n) \in pending
    /\ \E sent \in BOOLEAN :
         /\ MaySend(sent)
         /\ pending' = (pending \ {LoginID(n)}) \cup {id \in {PresenceID(n)} : sent}
    /\ Answer(ws, <<Result(PresenceID(n))>>)
    /\ Subscribe(ws, Rooms)
    /\ notified' = notified \cup ({ws} \cap up \cap greeted)
    /\ main' = "read"
    /\ UNCHANGED <<ws, rooms, stopChan, ctxDone, n, item, outcome, others, open, up, greeted>>

\* MUTANT: membership changes are subscribed to in the first session only.
HandleLoginNotifiedOnce ==
    /\ main = "handle"
    /\ item = Result(LoginID(n))
    /\ LoginID(n) \in pending
    /\ \E sent \in BOOLEAN :
         /\ MaySend(sent)
         /\ pending' = (pending \ {LoginID(n)}) \cup {id \in {PresenceID(n)} : sent}
    /\ Answer(ws, <<Result(PresenceID(n))>>)
    /\ Subscribe(ws, rooms)
    /\ notified' = notified \cup ({ws} \cap up \cap greeted \cap {1})
    /\ main' = "read"
    /\ UNCHANGED <<ws, rooms, stopChan, ctxDone, n, item, outcome, others, open, up, greeted>>

\* The login's result: presence, every known room, membership changes.
HandleLogin ==
    /\ main = "handle"
    /\ item = Result(LoginID(n))
    /\ LoginID(n) \in pending
    /\ \E sent \in BOOLEAN :
         /\ MaySend(sent)
         /\ pending' = (pending \ {LoginID(n)}) \cup {id \in {PresenceID(n)} : sent}
    /\ Answer(ws, <<Result(PresenceID(n))>>)
    /\ Subscribe(ws, rooms)
    /\ notified' = notified \cup ({ws} \cap up \cap greeted)
    /\ main' = "read"
    /\ UNCHANGED <<ws, rooms, stopChan, ctxDone, n, item, outcome, others, open, up, greeted>>

\* Any other result, or one that nobody waits for.
HandleResult ==
    /\ main = "handle"
    /\ item.msg = "result"
    /\ item.id \notin pending \/ item.id # LoginID(n)
    /\ pending' = pending \ {item.id}
    /\ main' = "read"
    /\ UNCHANGED <<ws, rooms, stopChan, ctxDone, n, item, outcome, others, open, peer>>

\* A subscription was inserted or updated: a room not known yet is new.
\* (A removal, or an event without a room, changes nothing.)
HandleMembership ==
    /\ main = "handle"
    /\ item.msg = "membership"
    /\ LET found == {item.room} \ ({NoRoom} \cup rooms)
       IN /\ rooms' = rooms \cup found
          /\ Subscribe(ws, found)
    /\ main' = "read"
    /\ UNCHANGED <<ws, pending, stopChan, ctxDone, n, item, outcome, others, open,
                   up, inbox, greeted, notified>>

\* A room message the policy lets through starts a responder, others nothing
\* (a ping is answered by a pong, which changes nothing here).
HandleRoomMessage ==
    /\ main = "handle"
    /\ item = RoomMessage
    /\ \/ UNCHANGED responder
       \/ \E r \in Responders :
            /\ responder[r] = "idle"
            /\ responder' = [responder EXCEPT ![r] = "register"]
    /\ main' = "read"
    /\ UNCHANGED <<client, n, item, outcome, cancelled, watcher, stopper, open, peer>>

-----------------------------------------------------------------------------
(* The other goroutines.                                                   *)

\* MUTANT: the watcher waits for its context only.
WatcherIgnoresStop(k) ==
    /\ watcher[k] = "waiting"
    /\ k \in cancelled \/ ctxDone
    /\ CloseWebSocket
    /\ watcher' = [watcher EXCEPT ![k] = "gone"]
    /\ UNCHANGED <<pending, rooms, stopChan, ctxDone, run, cancelled, stopper, responder, peer>>

\* Woken by its session's end, by the context or by Stop, the watcher closes
\* whatever c.ws is by then.
WatcherCloses(k) ==
    /\ watcher[k] = "waiting"
    /\ k \in cancelled \/ Stopping
    /\ CloseWebSocket
    /\ watcher' = [watcher EXCEPT ![k] = "gone"]
    /\ UNCHANGED <<pending, rooms, stopChan, ctxDone, run, cancelled, stopper, responder, peer>>

\* Stop: close(stopChan), then closeWebSocket; further calls do nothing.
Stop ==
    /\ CanStop
    /\ stopper = "idle"
    /\ stopChan' = TRUE
    /\ stopper' = "closing"
    /\ UNCHANGED <<ws, pending, rooms, ctxDone, run, cancelled, watcher, responder, open, peer>>

StopCloses ==
    /\ stopper = "closing"
    /\ CloseWebSocket
    /\ stopper' = "done"
    /\ UNCHANGED <<pending, rooms, stopChan, ctxDone, run, cancelled, watcher, responder, peer>>

CancelContext ==
    /\ CanStop
    /\ ~ctxDone
    /\ ctxDone' = TRUE
    /\ UNCHANGED <<ws, pending, rooms, stopChan, run, others, open, peer>>

\* callMethod of a responder: register, send, and take back what was not sent.
TypingRegister(r) ==
    /\ responder[r] = "register"
    /\ pending' = pending \cup {TypingID(r)}
    /\ responder' = [responder EXCEPT ![r] = "send"]
    /\ UNCHANGED <<ws, rooms, stopChan, ctxDone, run, cancelled, watcher, stopper, open, peer>>

TypingSend(r) ==
    /\ responder[r] = "send"
    /\ ws # NoSocket
    /\ Answer(ws, <<Result(TypingID(r))>>)
    /\ responder' = [responder EXCEPT ![r] = "done"]
    /\ UNCHANGED <<client, run, cancelled, watcher, stopper, open, up, greeted, subs, notified>>

\* MUTANT: a write that fails closes the connection.
TypingSendFailsCloses(r) ==
    /\ responder[r] = "send"
    /\ ws \notin up
    /\ CloseWebSocket
    /\ responder' = [responder EXCEPT ![r] = "undo"]
    /\ UNCHANGED <<pending, rooms, stopChan, ctxDone, run, cancelled, watcher, stopper, peer>>

TypingSendFails(r) ==
    /\ responder[r] = "send"
    /\ ws \notin up
    /\ responder' = [responder EXCEPT ![r] = "undo"]
    /\ UNCHANGED <<client, run, cancelled, watcher, stopper, open, peer>>

\* MUTANT: a failed call throws all registered calls away.
TypingUndoAll(r) ==
    /\ responder[r] = "undo"
    /\ pending' = {}
    /\ responder' = [responder EXCEPT ![r] = "done"]
    /\ UNCHANGED <<ws, rooms, stopChan, ctxDone, run, cancelled, watcher, stopper, open, peer>>

TypingUndo(r) ==
    /\ responder[r] = "undo"
    /\ pending' = pending \ {TypingID(r)}
    /\ responder' = [responder EXCEPT ![r] = "done"]
    /\ UNCHANGED <<ws, rooms, stopChan, ctxDone, run, cancelled, watcher, stopper, open, peer>>

-----------------------------------------------------------------------------
(* The server.                                                             *)

ConnectionBreaks(k) ==
    /\ k \in up
    /\ k < MaxSessions
    /\ up' = up \ {k}
    /\ UNCHANGED <<client, run, others, open, inbox, greeted, subs, notified>>

ServerSends(k, message) ==
    /\ k \in up
    /\ Len(inbox[k]) < MaxQueue
    /\ inbox' = [inbox EXCEPT ![k] = Append(@, message)]
    /\ UNCHANGED <<client, run, others, open, up, greeted, subs, notified>>

MembershipChanges(k, rid) == k \in notified /\ ServerSends(k, Membership(rid))
RoomHasMessage(k) == (\E rid \in AllRooms : subs[k][rid] > 0) /\ ServerSends(k, RoomMessage)

-----------------------------------------------------------------------------
MainStep ==
    \/ CheckForStop \/ Dial \/ DialFails \/ SetWebSocket \/ ResetPending
    \/ SendConnect \/ SendConnectFails \/ SpawnWatcher \/ EvaluateWebSocket
    \/ ReadMessage \/ ReadFails \/ CancelSession \/ CloseSession
    \/ BackoffEnds \/ BackoffStopped
    \/ HandleConnected \/ HandleLogin \/ HandleResult \/ HandleMembership
    \/ HandleRoomMessage

Typing(r) == TypingRegister(r) \/ TypingSend(r) \/ TypingSendFails(r) \/ TypingUndo(r)

ServerStep(k) ==
    \/ ConnectionBreaks(k) \/ RoomHasMessage(k)
    \/ \E rid \in AllRooms \cup {NoRoom} : MembershipChanges(k, rid)

Next ==
    \/ MainStep \/ Stop \/ StopCloses \/ CancelContext
    \/ \E k \in Sessions : WatcherCloses(k) \/ ServerStep(k)
    \/ \E r \in Responders : Typing(r)

Spec == Init /\ [][Next]_vars

(***************************************************************************)
(* Fairness.  Every goroutine that can go on does; a read returns when it  *)
(* has something; a Rocket.Chat server that is asked again and again is    *)
(* reached in the end (strong fairness of Dial).                           *)
(***************************************************************************)
Fairness ==
    /\ WF_vars(MainStep) /\ SF_vars(Dial)
    /\ WF_vars(StopCloses)
    /\ \A k \in Sessions : WF_vars(WatcherCloses(k))
    /\ \A r \in Responders : WF_vars(Typing(r))

FairSpec == Spec /\ Fairness

-----------------------------------------------------------------------------
(***************************************************************************)
(* No connection is leaked: a socket the bot has not closed is the one in  *)
(* c.ws, where Stop and the watchers find it (or is about to be put there).*)
(***************************************************************************)
SocketIsReachable == open \subseteq {ws} \cup (IF main = "set" THEN {n} ELSE {})

(***************************************************************************)
(* Run returns only when it was told to, with errStopRequested only when   *)
(* this was by Stop, and leaves no connection open.                        *)
(***************************************************************************)
ReturnsClean ==
    /\ main \in {"returned", "stopError"} => Stopping /\ open = {}
    /\ main = "stopError" => stopChan

(***************************************************************************)
(* While nobody stops the bot, the message loop never finds c.ws cleared:  *)
(* every session ends by its own read error.                               *)
(***************************************************************************)
NoCrashWhileRunning == main = "crashed" => Stopping

(***************************************************************************)
(* A logged-in session is subscribed exactly once to every room the bot    *)
(* knows, learned in this session or an earlier one.  (A room subscribed   *)
(* to twice delivers each message twice, and the bot answers twice.)       *)
(***************************************************************************)
SubscribedOnceToKnownRooms ==
    ws # NoSocket /\ ws \in up \cap notified /\ main \in {"read", "reading"} =>
        \A rid \in AllRooms : subs[ws][rid] = IF rid \in rooms THEN 1 ELSE 0

(***************************************************************************)
(* The answer to the session's login is recognised when it comes: no reset *)
(* and no failing call of a responder has removed the login from pending.  *)
(***************************************************************************)
LoginIsExpected ==
    main \in {"read", "reading"} /\ ws # NoSocket =>
        \A i \in DOMAIN inbox[n] :
            inbox[n][i] = Result(LoginID(n)) => LoginID(n) \in pending

(***************************************************************************)
(* All the goroutines together are a BotLifecycle: Run goes on, whatever   *)
(* happens to its connections, until Stop or the context tells it to end,  *)
(* and then ends, at whatever moment it was told (by a return, with an     *)
(* error only after Stop, or by the crash GracefulStop is about).          *)
(***************************************************************************)
Phase == IF main \in {"returned", "stopError", "crashed"} THEN main ELSE "running"

Lifecycle == INSTANCE BotLifecycle
                 WITH stopped <- stopChan, cancelled <- ctxDone, phase <- Phase

IsBotLifecycle == Lifecycle!LifeSpec

\* The session is logged in and subscribed to everything.
Serving ==
    /\ main \in {"read", "reading", "handle"}
    /\ ws # NoSocket
    /\ ws \in up \cap notified

(***************************************************************************)
(* A bot that nobody stops is back in the end: whatever broke and however  *)
(* often connecting failed, it is logged in and subscribed for good once   *)
(* the connection holds.                                                   *)
(***************************************************************************)
ServesInTheEnd == <>[]Serving \/ <>Stopping
=============================================================================

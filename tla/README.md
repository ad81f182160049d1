# Verification of rocketbot

TLA+ models of rocketbot (a Rocket.Chat bot in Go that answers messages through a
webhook or an OpenCode server), TLC configurations that check them, and theorems
proved with TLAPS. Line numbers refer to the files under `src/`.

## 1. The system

| Component | State it keeps | Operations | What makes it hard |
|---|---|---|---|
| **OpenCode conversation** (`bot/opencode_generator.go` 41-475, 761-956; used from `bot/client.go` 904-1127) | per conversation: `sessionID`, `promptMu`, `activeCancel`, `activeCancelN`; per prompt: `unlockOnce`, locals; per stream: an SSE connection, a context, two channels | `HistoryLimit`, `GenerateRenderStream`, `ResetSession`, the stream goroutine | one lock taken by one goroutine and released by whichever of three comes first; retry after a stale session; reset concurrent with everything; answers of calls lost; a consumer that gives up |
| **WebSocket session** (`bot/client.go` 439-724, 805-853) | `ws`, `pending`, `rooms`, `dmRooms`, `stopChan`; per session a context and a watcher goroutine | `Run`, `runSession`, `Stop`, `closeWebSocket`, `sendMessage`, `callMethod`, `handleMessages` | reconnects; watchers of old sessions; Stop at any moment; responders that write on the socket |
| **Routing and policy** (`client.go` 230-332, 737-803) | room policies | `resolvePolicy`, `shouldRespondToRoomMessage`, `handleRoomMessage` | decides on a thread's state that responders change meanwhile |
| **Thread context** (`client.go` 172-214, 334-419, 856-989) | `activeRoomThreads` with `LastIngestedMessageID` | `markActiveRoomThread`, `prepareMessageForGenerator`, `handleResponse` | responders side by side in one thread; fetches that fail or are truncated; restarts |
| **Streaming replies** (`client.go` 1008-1127, 1203-1241, `message_renderer.go`, `tool_summary.go`) | last text sent, dirty flag, timers | update loop, `Apply`/`Render` | a ticker, a channel and failures of `UpdateMessage` |
| **OpenCode event reducer** (`opencode_generator.go` 899-1340) | assistant ids, texts, pending parts | `consumeRenderEvents` | events out of order: parts before their message's role is known |
| **Session tree reset** (`opencode_generator.go` 146-180, 448-724) | the list of a tree's sessions | list children, abort, wait, delete | the tree grows meanwhile; calls fail half-way |
| **Webhook generator, n8n parser** (`webhook_generator.go`, `n8n_parser.go`, `client.go` 1243-1351) | two bounded channels between three goroutines | `GenerateResponseStream`, `Parse`, `handleStreamingResponse` | truncated bodies, a ticker, edits whose answer is lost |
| **REST client** (`api_client.go`) | none | posts, edits, fetches, resolving rooms | calls that work and are answered too late |
| **HTTP API** (`internal/httpapi/server.go`) | bots and tokens by slug | `handleSend` | requests beside the bots' end |
| **Configuration** (`config/config.go`), **main** (`cmd/rocketbot/main.go`) | the bots, a WaitGroup, a signal | `Load`, `main` | one bot's failure ends the others; a signal at any time |

How they interact. The WebSocket loop receives a room message, asks the policy,
and starts one responder goroutine per message (`go c.handleResponse`, 802). The
responder asks the generator how much history it wants, fetches it over REST,
sets the typing indicator over the WebSocket, and calls the generator. The
OpenCode generator opens an SSE stream, whose goroutine sends events through a
32-element channel to the responder, which renders them and updates its reply
over REST. `!rb reset` runs in a responder goroutine of its own.

Beside them, the HTTP API posts messages as one of the bots. `main` creates the
bots from the configuration, runs each in a goroutine and ends with all of them.

## 2. Modules and plan

| Module | Models | Abstract specification | Theorems in |
|---|---|---|---|
| `OpenCodeConversation` | one conversation's lock, session id, prompts, streams, resets | `SessionRegister` | `OpenCodeConversationProofs` |
| `WebSocketSession` | `Client.Run`, its reconnects, watchers and `Stop` | `BotLifecycle` | `WebSocketSessionProofs` |
| `EventReducer`, `StreamingReply` (composed) | an OpenCode answer's events, and the reply made of them | - | `StreamingReplyProofs` (the reducer), `ReplyProofs` (the reply) |
| `ThreadContext` | which messages of a thread are answered and shown | - | `ThreadContextProofs` |
| `SessionTreeReset` | a reset's calls and a growing tree | - | `SessionTreeResetProofs` |
| `WebhookReply` | the webhook's answer, from its body to the room | `OrderedStream` | `WebhookReplyProofs` |
| `Program` with `Configuration` | `main`, the configuration, the HTTP API | takes `Client.Run` for a `BotLifecycle` | `ProgramProofs` |

Each `MC...` module gives the values a .cfg cannot write, and, where there is one,
the statement of the source that a finding is about. A definition marked
`\* MUTANT` is the operator after it with a plausible bug; nothing uses it, it
documents which bug breaks which property (`PROJECT.json`, "mutants").

Left of the plan: permission requests. Every safety property that a run checks is
also a theorem; section 10 lists what is not.

## 3. OpenCodeConversation

One conversation, with any number of messages (`Prompts`), reset commands
(`Resets`) and the server's ids (`Sessions`). Nothing of the state outlives the
process, so a crash needs no action.

| Code | Model |
|---|---|
| `openCodeConversation` | `sessionID`, `promptMu`, `activeCancel`, `activeCancelN`; `sessionMu` and `activeMu` make each accessor one step |
| responder: `handleResponse` 914-941, `GenerateRenderStream`, receiving loop | `pc[p]` and the locals `sid`, `attempt`, `fetched` (history was fetched), `includeHistory`, `unlocked` (`unlockOnce` has fired), `err` |
| stream goroutine of prompt p, attempt n | stream `<<p, n>>`: `phase`, `session`, `cancelled`, `seq`, `idle`; phases follow the deferred calls in LIFO order: `reading`/`blocked` -> `unlock` -> `clear` -> `done` |
| `ResetSession` | `rpc[r]`, `rsid[r]`: read the id, clear it, cancel the stream, abort, delete - five steps |
| OpenCode server (external) | `created`, `live`, `running` (accepted, unfinished prompts), `log` (what each session accepted, in order) |

Every action is one step between two points where another goroutine can be seen
or can interfere: an accessor under a mutex, an HTTP call, a channel operation.
The action of an HTTP call covers request and effect; where the effect can
happen and the answer be lost there is an action of its own (`PostAnswerLost`,
`CreateAnswerLost`). `Faults` says which of these failures an instance has.

A refused POST counts as stale (`PostStale`) or not (`PostRefused`).
`isStaleSessionPromptError` (761-792) goes by the status and by words in the body
(404, 410, or a 400 that speaks of a session and of "invalid", "unknown", "not found",
"does not exist"), and what the server says in which case is not in this repository.
So `ReadsAsStale` has two readings: a refusal reads so exactly when the session is
gone; or, with `"misread"` among the `Faults`, whenever the server pleases. In the
second reading the code drops a session that is still there and sends the message
again, into a new one and without the lock.

`OpenStream` joins `openEventStream` with `setActiveCancel`, between which only
events could arrive, and they stay in the connection's buffer.

A cancelled stream notices at its next line; a blocked send notices at once.
`StreamBlocks` needs more events than the 32 the channel holds, therefore a
running session and nobody receiving.

Abstractions: events other than `session.idle` (they are in `EventReducer`);
message texts (the log keeps who, whether in bootstrap form, whether with
history); there is history to fetch in the room; the session tree of a reset is
one session (the tree is in `SessionTreeReset`).

### Properties

* `LockOwnership`, `LockHasReleaser`, `OneAnswerAtATime`: the lock is unlocked
  once and by right, never forgotten, and two answers are listened to at once
  only in a retry after a stale session.
* `NewestIsCancellable`: the sequence number in `clearActiveCancel` is needed and
  suffices.
* `AcceptedAtMostOnce`, `BootstrappedAtMostOnce`: what is sent to the server twice
  when calls fail or lose their answers, or when a live session is taken for gone.
* `DroppedOnlyWhenGone`: without `"misread"`, that no session is dropped which the
  server still has, unless a reset does. With it this is false of the code, and what
  is left is that only the session a refusal was about is dropped (`ToldGone`), never
  the one another prompt has put in its place.
* `RegisterSpec`: `sessionID` implements `SessionRegister` under
  `used <- created \ Pending`; the ids that prompts hold but have not installed yet
  are not used. That a dropped session never returns follows
  (`SessionNeverReturns`).
* `AnswerIsComplete`: with undisturbed streams and no refusal misread a responder sees the end of its
  channel only after the server has finished its prompt.
* `EverythingEnds`: every message and every reset ends. The exception is part of
  the property (`StuckBehindAbandoned`): with streamed output a message may wait
  for ever behind a prompt whose responder gave up while its reader stands before a
  full channel with the lock in hand.

### Runs

| Run | Instance | Question |
|---|---|---|
| `prompts` | 2 prompts, 2 sessions, streamed, `createFail createLost openFail misread postLost sessionLost eof` | who holds and releases the lock; nothing sent or bootstrapped twice; what is dropped for a refusal |
| `answer` | 2 prompts, 1 reset, 2 sessions, streamed, `createFail refuse abortFail deleteFail` | complete answers; refinement of `SessionRegister`; everything ends |

Bounds. Two prompts, or two and a reset, give every pair of goroutines that share a
variable: retry against first attempt, retry against reset, late reader against
next prompt. Two sessions are the one that is lost, or taken for lost, and its
successor, which must survive the late verdict on the first; when ids run out,
`createFail` (the server refuses) lets the prompt end. A third session (the retry's
beside another message's), and a reset together with lost answers and misread
refusals, make the graph too large for a run; every safety property of this section
is proved for any number of them and all faults together.
`CHECK_DEADLOCK FALSE` is set with streamed output, where an abandoned stream
really stops the conversation. `activeCancelN` needs no bound: it counts streams,
two per prompt.

Fairness. Weak fairness of each goroutine's next step: the Go scheduler runs
what can run, `time.After` fires, an HTTP call returns or fails. Mutex: with
finitely many prompts, weak fairness of `AcquireLock` is enough (the lock is
free for good in the end); Go's starvation mode gives more. Stream: a connection
whose run ended or whose context was cancelled delivers another line or its end;
this is an assumption about the server and TCP (the HTTP client has no timeout,
main.go 234). Server: what it accepted it finishes, and says `session.idle`, also
when a reset aborts or deletes. No failure and no giving up is ever assumed.

### What the model shows beside its properties

A live session can be dropped for a refusal that only reads as stale (above).
Two statements of the documentation do not hold of every interleaving. They are
behaviour of the code, listed under "hazards" without a property:

* the retry after a stale session runs without the lock, and in this window
  another message can create a session of its own; both are used and one is
  forgotten (`README.md` 107: sessions are reused per conversation);
* `HistoryLimit` returns 0 for a session that turns out to be stale; the new
  session is bootstrapped without history (`generator.go` 97).

### Proofs (`OpenCodeConversationProofs`)

For all `Prompts`, `Resets`, `Sessions`, both output modes and every set of faults,
assuming only that `Nil` is none of the other values (`NilAssumption`):

* `TypeCorrect`.
* `LockIsOwned`, `LockIsReleased`, `OneAnswer` from the inductive invariant
  `LockInv`. Ownership alone is not inductive: a stream goroutine calls
  `unlockConv` for its prompt long after the responder went on, so the invariant
  says for each prompt that before its first stream it has unlocked nothing
  (`BeforeStream`), that after a failed POST the stream is cancelled and a retry
  has unlocked (`AfterPostFailure`), and how the first stream's phase and the
  lock go together (`StreamHoldsLock`).
* `NewestCancellable` from `SeqInv`: sequence numbers are distinct and never
  ahead of the counter.
* `ImplementsRegister`, `SessionNeverReturns` from `RegisterInv`: an id waiting for
  installation was created, is not current, and waits for one prompt only.
* `AcceptedOnce`, `BootstrappedOnce` from `LogInv`, on top of `RegisterInv`: a
  prompt in a log has its POST behind it and makes no other (`Posted`), in the
  session it is in; what it sent in bootstrap form went to the session it created
  (`EntryOf`), and no two prompts have created the same (`OneCreator`).
* `NoLiveSessionIsDropped` (the action property `DroppedOnlyWhenGone`, in both
  readings of a refusal) from `StaleInv`, on top of `LogInv`: a responder that was told
  "not found" and has not yet cleared the id (`ToldStale`) keeps that id, which is
  gone unless the refusal was misread. That it stays gone is where the log is needed: a
  session created meanwhile has an id nobody holds. That the server's "not found" is
  true is the content of `"misread" \notin Faults`, an assumption about the server and
  no fact of the code.
* `AnswersAreComplete` (`AnswerIsComplete`), as long as no connection, no session and
  no answer to a POST is lost and no refusal is misread (`Reliable`, a condition on
  `Faults`). Each of the four breaks the property: the stream ends early, the server
  works for a prompt its responder has given up, or a retry runs without the lock. From `AnswerInv`, on top of `LockInv`: until a reset
  cancels, no prompt retries, and one the server works for is listened to by its own
  first stream, which has not become idle (`Waits`). The lock then keeps any other
  prompt from its POST (`RunsExclude`), so the `session.idle` a stream sees, which
  names a session and no prompt, is about its own prompt. The invariant was checked
  with TLC for all the other faults before it was proved.

Liveness is model-checked only.

## 4. WebSocketSession

The bot's one connection to Rocket.Chat. Session k is the k-th call of
`runSession` that got a connection; its socket carries the same number.

| Code | Model |
|---|---|
| `Client.ws`, `pending`, `rooms`, `stopChan`, Run's context | `ws`, `pending`, `rooms`, `stopChan`, `ctxDone` |
| goroutine of `Run`: `runWithReconnect`, `runSession`, `handleMessages` | `main` (where it is), `n` (its session), `item` (message being handled), `outcome` (what ended the session) |
| watcher goroutine of a session | `watcher[k]`, woken by `cancelled`, the context or `stopChan`; it closes whatever `c.ws` is |
| `Stop` | `stopper`: close `stopChan`, then `closeWebSocket`, two steps |
| responders' `setTypingIndicator` -> `callMethod` | `responder[r]`: register, send, take back |
| sockets and the server (external) | `open`, `up`, `inbox`, `greeted` (it got "connect"), `subs`, `notified` |

`wsMu` makes `closeWebSocket` and `sendMessage` one step each, `pendingMu` each
access of the map. `c.ws` is read without the mutex before each `ReadJSON`, so
that read is a step of its own (`EvaluateWebSocket`). `HandleLogin` joins the
login's follow-up sends into one step: what can come between them is that the
socket is closed or breaks, and then nothing looks at it again. A write on a
broken connection may fail or seem to work (`MaySend`).
What `Run` returns depends on where it notices that it is to end. `runWithReconnect`
turns `errStopRequested` from a session into nil (500-502), and returns nil or the
context's error from a backoff (518-523); but what `checkForStop` (578-587) answers
before a dial it returns as it is (494-496). There `CheckForStop` ends in `returned`
when the context is done, in `stopError` when `stopChan` is closed, and in either
when both are: `select` takes any case that is ready.
Abstracted: ids are named after what they answer; the backoff's length; a room
message starts a responder or does not, as the policy says.

Properties:

* `SocketIsReachable`, `ReturnsClean`: no connection leaks; `Run` ends for a reason,
  and with `errStopRequested` only after `Stop`.
* `NoCrashWhileRunning`: unless the bot is being stopped, the loop never finds
  `c.ws` cleared by somebody else.
* `SubscribedOnceToKnownRooms`: rooms learned from events and rooms subscribed
  to after a login are neither doubled nor missed, over reconnects.
* `LoginIsExpected`: the id of the login under way is in `pending`, though the
  map is replaced on reconnect and responders delete their entries from it.
* `IsBotLifecycle`: all the goroutines together implement `BotLifecycle` under
  `stopped <- stopChan`, `cancelled <- ctxDone`, `phase <- Phase`: Run goes on until it
  is told to end, and then ends, at whatever moment it was told; with an error of its
  own only when told by `Stop`. `Program` builds on this.
* `ServesInTheEnd`: a bot that nobody stops is logged in and subscribed for good in
  the end.

| Run | Instance | Question |
|---|---|---|
| `session` | 2 sessions, a new room, a responder, Stop and cancellation | who owns a socket; what a session knows and expects; it ends when told and comes back when not |
| `graceful` | 2 sessions | the panic at `c.ws.ReadJSON` |

Bounds. `MaxSessions` limits the connections; the last one does not break, so
that "in the end" exists. Two sessions give the old watcher next to the new
socket, and the room that one session learned of to the next; the theorems are
for any number. `MaxQueue` limits
the unsolicited messages in an inbox; the answers to the bot's own calls come
on top. `CHECK_DEADLOCK FALSE` where Stop ends the program.

Timing. `WatcherLags = FALSE` assumes that a watcher woken by its session's end
runs before the backoff (half a second at least) is over; without it a late
watcher closes the next session's socket, and `NoCrashWhileRunning` fails. The
runs make the assumption; the proofs of `SocketReachable` and `CleanReturn` do not.

Fairness. Weak fairness of each goroutine's next step; a `Dial` that is tried for
ever succeeds for once (strong fairness), which is what "the server is back" means.
Nothing is assumed of the server's messages beyond what it sent arriving.

Finding (`graceful`): `closeWebSocket` sets `c.ws` to nil while `handleMessages`
is between two reads; the next `c.ws.ReadJSON` (658) is a call on a nil
interface, and the program panics instead of stopping
("Stop gracefully stops the bot", client.go 589).

Proofs (`WebSocketSessionProofs`), for all constants within `BoundsAssumption`:

* `TypeCorrect`.
* `SocketReachable`, `CleanReturn` from `SocketInv`: ownership of sockets is
  inductive only together with `NilBetweenSessions`, since `SetWebSocket` would
  otherwise overwrite the only reference to an open socket.
* `LoopFindsSocket`, for `~WatcherLags`, from `LoopInv`, which says of each watcher
  that it waits for the running session or has been woken by the end of one with
  no successor yet (`WatcherKnowsItsSession`).
* `LoginRecognised` from `LoginInv`: of "connected" and the login's result there is
  never more than one on its way, so a result that comes has its call in `pending`.
  This needs `GreetedFirst`: a socket the bot has not greeted is silent, so that the
  map's reset forgets no login.
* `SubscribedOnce` from `SubInv`: before its login was followed up, a session has no
  subscriptions and hears of no memberships, and afterwards nothing comes that
  could subscribe a second time. The exact count alone says nothing about what is
  in the inbox.

* `RunIsALifecycle`, for `~WatcherLags`, from `SocketInv` and `LoopInv`: every step is
  one of `BotLifecycle` (`LifeSafety`, its specification without fairness). `Run`
  returns, with or without an error, or crashes once, and only when it was told to end
  (with `errStopRequested` only by `Stop`); telling again, and
  whatever breaks, are stutters. This is the part of `IsBotLifecycle` that `Program`
  takes for granted of a bot's end.

They are weak where the bot is stopped: then `c.ws` may go at any time. That `Run`
does end (the fairness in `IsBotLifecycle`) and `ServesInTheEnd` are model-checked only.

## 5. EventReducer and StreamingReply

`EventReducer` is the goroutine of one prompt that reads the server's lines and
puts render events into a channel; `StreamingReply` EXTENDS it with the
goroutine at the channel's other end, in one of three `mode`s: `full` and
`concise` edit the reply at every tick, `collect` (streamed output off) joins the
texts and writes the reply once.

| Code | Model |
|---|---|
| `openCodeStreamState` | `assistantMsgIDs`, `partText`, `textTyped` (the parts whose `partTypes` entry is "text"), `pendingParts`, `pendingToolParts` |
| branches of `consumeRenderEvents` | `MessageUpdated`, `TextUpdated`, `TextDelta`, `ToolUpdated`, `SessionIdle`; each reads one line and fills `todo` with the events the line makes |
| `sendRenderEvent`, the channel, its deferred close | `Send`, `events` (at most `Capacity`), `CloseChannel`; `reader` says where the goroutine is |
| early returns | `StreamStops`: connection lost, permission not answered, context cancelled |
| `ProgressiveRenderer.Apply`, `upsertTool`, `Render` | `Apply`, `UpsertTool`, `Rendered` over `answer`, `tools` |
| update loop and its `flush` | `Tick`, `Finish`, `ContextDone` over `dirty`, `lastSent`; `lastSent` is what Rocket.Chat shows |
| `GenerateResponseStream`, `GenerateResponse`, `handleNonStreamingResponse` | `Collect` with `Chunk` and `chunkText`, `WriteOnce` |
| OpenCode server (external) | `written`, `toolStatus`, `opened`, `told`, `idled` |
| - (history) | `sent`: what the events so far make of each part's text |

A text is a sequence of tokens `<<part, position>>`; a snapshot holds all tokens
written so far, a delta the next one. So a token says where it belongs, and a
doubled or foreign one is seen. The server's writing of a line and the
goroutine's reading of it are one action: lines stay in order, and nothing else
looks at either side.

Assumed of the server: a text part is announced by a snapshot before its
deltas (reasoning need not be), a part's text only grows, and roles are told by the
time of `session.idle`. They may be told before, between or after the parts. A
delta may or may not name the type of its part.

Abstracted: the wording of tool summaries (`Summary` keeps which statuses look
alike), the category counts of the concise mode (`ToolLines` keeps the number of
calls), and when a notice is due: `Flushes` allows it whenever there is no text. (The
code asks whether what it rendered is, or ends in, the placeholder, 1130-1136; of a
text of the model's own that ends so, which gets a notice too, the model knows
nothing.)

### Properties

* `NoEcho`: whatever the order of roles and parts, neither the prompt's own text nor
  reasoning is ever in the channel.
* `TextAddsUp`: held-back text, snapshots and deltas make up what was written.
* `ShowsWhatIsRendered`, `ToolsShownOnce`, `WholeAnswer`: what the reply shows,
  during the run and at its end: of a run that became idle each tool call once in
  its last state, and the whole text (all texts with streamed output off, else the
  one there is).
* `NothingTwice`: no token is doubled between three ways to report it.
* `ReplyEnds`: liveness, below.

### Runs

| Run | Instance | Question |
|---|---|---|
| `render` | a prompt's text; an answer of two texts (2 and 1 tokens), a tool call, reasoning; capacity 1; all modes | all properties |
| `full_message` | an answer of two texts | the documented "full message" |

Bounds. Two tokens are needed for a delta onto a text and for a snapshot that
overlaps it, and the second text for what one part does to another. Capacity 1
makes the goroutine block at every second event; a longer channel only lets it run
further ahead. One tool call passes through all its statuses. `CHECK_DEADLOCK
FALSE`, since a finished reply takes no more steps.

Fairness. The two goroutines run while they can. Nothing makes the server
speak, the ticker tick or the context end.

Finding (`full_message`): every part's first text is announced by `text_set` (1137,
1006), and `Apply` answers it by replacing the whole answer (`message_renderer.go`
50). Of an answer in several text parts only the last stretch is shown; with
streamed output off all of it is.

### Proofs (`StreamingReplyProofs`, `ReplyProofs`)

For all sets of parts and messages within `PartsAssumption` (`Parts` finite, the three
kinds of parts disjoint), all texts and any capacity:

* `NeverEchoes` from `EchoInv`: only texts are ever taken for texts and only
  assistants for assistants (`RolesAndTypesAreRight`), and what waits in `todo` or
  `events` belongs into an answer. The type of a part has to be in the invariant
  because a delta without a type trusts what an earlier one said.
* `WholeTextsAreSent` from `AddsUpInv`: for each text, as long as its role is unknown
  all of it is held back and nothing was sent; after that all was sent,
  `partText` agrees, and nothing is held back (`AddsUp`). `TextAddsUp` alone is not
  inductive, for it says nothing of what is held back. `OrderHasAll` is the lemma
  that a walk over the map of held-back texts, in whatever order, meets every one.
* `ReplyRunsTheReducer`: the composed system is a behaviour of `ReducerSpec`, which
  carries the reducer's theorems over to the reply.

* `RepliesAreNotLeftBehind` (`ShowsWhatIsRendered`), which is inductive as it stands.
* `ToolCallsAreShownOnce` (`ToolsShownOnce`) from `ToolsInv`: a call whose message is
  known as the assistant's has its last state either in the last event underway
  about it (`LastIs` over channel and goroutine) or, with none underway, in the row of
  the reply; before that it waits in `pendingToolParts`. `EndInv` adds that idle comes
  last: once the session is idle every role is reported and nothing but the end is
  underway, and a reply that was sent is past the end of the stream.
* `NothingIsRepeated` (`NothingTwice`) from `OrderInv`, on top of `AddsUpInv`: the
  tokens of one part are in order in the answer and in what is underway, everything in
  the answer comes before everything underway (`Before`), all were published
  (`Published`), and a `text_set` carries its own part's text only (`OwnTexts`).
* `AnswersAreWhole` (`WholeAnswer`) from `WholeInv`: every published token is in the
  answer or underway (`Arrives`), of every part with streamed output off, else of the
  only one that was written. A second part would break it, as the finding shows: its
  `text_set` replaces what the first has in the answer.

`WholeAnswer` says what a text holds by `HoldsInOrder`, not by filtering it: filters
on sequences (`SelectSeq`) are recursive, and their value for every text is out of
the provers' reach. That the reply ends is model-checked only.

## 6. ThreadContext

Which messages of one room's thread the bot answers, and what of the thread it
shows to the generator. A message is its position in the thread; 1 is the one the
thread hangs on.

| Code | Model |
|---|---|
| goroutine of `Run`: `handleRoomMessage` | `HandleMessage`, message by message in the order of the stream (`handled`) |
| `resolvePolicy`, `shouldRespondToRoomMessage`, `shouldCreateThread` | `Scope`, `ShouldRespond`, `InEffectiveThread` over `policy`, the room's configuration |
| `activeRoomThreads[key].LastIngestedMessageID` | `mark` (`None`: the thread is not active) |
| responder of message m: `handleResponse` | `pc[m]`: `start`, `fetch`, `post`, `generate`, `mark`; `basis[m]` is the mark it read |
| `prepareMessageForGenerator`, `collectMissedThreadMessages` | `NoCatchingUp`, `ReadMark`, `FetchThread`, `FetchFails` with `Missed`; `prompt[m]` is what it shows |
| `FetchThreadHistory` | `Fetched`: message 1 and the newest `Window` replies (assumed: `api_client.go` 410-414 passes a count and no order; that the newest come is what the comment at `client.go` 943-944 says) |
| `markActiveRoomThread` | `MarkActive` |
| reconnect, end and restart of the process | `Reconnect` (the stream leaves messages out), `Restart` (the mark is lost) |
| - (history) | `accepted`, `marked`, `gaps` (who could not reach back to a mark), `overlapped` |

The mark is read under a mutex and written under it, with the fetch, two posts and
the generator's whole answer in between: responders of one thread are interleaved
at each of these points, and end in any order. `Generate` is the generator's
answer: the prompt was accepted and the answer was shown; `GenerateFails` leaves
open whether it was accepted.

Properties:

* `NothingSkipped`: what the mark has passed was shown to the generator, unless it
  was posted before a message whose responder had no way to reach back
  (`gaps`: the thread not active or forgotten, the fetch failed or cut off, or every
  message is answered anyway).
* `SpeaksWhenInvited`: without a mention the bot answers only in a thread it
  answered in before, on a mention, and only where the policy follows threads.
* `NothingAnsweredTwice`: as long as responders follow one another, no prompt shows
  again what an answered one had. (Side by side they do.)
* `ContainsItsMessage`: the catch-up does not lose the message it is for.

Run `thread`: 4 messages, a window of 2 replies, 3 responders under way at once,
one restart, five policies. Four messages are needed for a fetch that does not
reach back to the mark (mark at 2, window 3-4 after the bot's reply), three
responders for a mark that falls back behind one that another has read. Bounds in
the guards: one message of the thread is not plain, and a bot's message that no
longer fits is not kept. `CHECK_DEADLOCK FALSE`: the thread is full in the end.

Proofs (`ThreadContextProofs`), for threads of any length, any window, any number
of responders and restarts and any set of policies: `ThreadTypeCorrect`,
`NothingIsSkipped`, `SpeaksOnlyWhenInvited`, `NothingIsAnsweredTwice`,
`PromptContainsItsMessage`. The invariant is `ThreadTypeOK`, `Control` (where a
responder is and what it holds there), `Coverage` (what lies up to the mark, up to a mark that was read, and up to the
message of a responder with its prompt in hand, was shown, is in that prompt or
lies before a gap), `Invitation` (the first answered message had a mention), and, as
long as nobody overlapped, `OneByOne`: then the mark is the last marked message, and
the next prompt begins after it. Without the condition the last part fails, and so does
the property.

## 7. WebhookReply

The webhook's answer on its way into the room, through three goroutines and two
channels.

| Code | Model |
|---|---|
| the webhook and its response (external) | `body`, `bodyEnded`; `WriteLine`, `EndBody` (complete or cut off: the scanner tells no difference) |
| `N8nParser.Parse` and its channel | `parser`, `event`, `hasText`, `events` |
| goroutine of `GenerateResponseStream` and its channel | `converter`, `chunk`, `chunks` |
| `handleStreamingResponse`, `handleNonStreamingResponse` | `responder`, `buffer`, `lastSent`, `result`; `streamed` tells which |
| `UpdateMessage` | `StartUpdate`, `EndUpdate("ok", "refused", "lost")`: an edit may be made and its answer lost |
| the room (external) | `shown` |

Nobody cancels the context these goroutines share (`handleResponse` starts from
`context.Background`), so the branches on `ctx.Done` are left out. A text is the
sequence of its pieces, so that a missing or doubled one is seen.

Properties:

* `PipelineSpec`: parser, converter and both channels implement `OrderedStream`:
  all that was parsed comes out once and in order, and the reply is finished only
  when nothing is left inside.
* `ResultTellsTheTruth`: the result by which `handleResponse` marks the thread is
  true exactly when the last edit was answered and the room shows the whole answer;
  when streamed, an answer without a text is none, otherwise it is one
  (`client.go` 1235-1241).
* `ShownGrows`, `NoticeGivesWay`: the ticker, the notices and failed edits never
  take back a text, and a notice is the last word only after a failed edit.
* `PipelineEnds`: when the body ends, all three goroutines do.

Run `webhook` (`WebhookReply_pipeline.cfg`): 4 lines with up to 3 texts, channels of
one place, ticks for two edits, streamed and not. Capacity 1 makes each goroutine
wait for the next; two edits are one that succeeds and one that does not, in either
order. `CHECK_DEADLOCK FALSE`: a finished reply takes no more steps.

Fairness. The goroutines run, and Rocket.Chat answers each edit. A chunk that is
ready is received in the end (strong fairness): `select` chooses with equal
probability among the ready cases. That the body ends is not assumed but is the
premise of `PipelineEnds`.

Proofs (`WebhookReplyProofs`), for any texts that are no placeholders, any number of
lines and edits and any capacity: `ResultIsTrue`, `NoticesGiveWay`, `TextsOnlyGrow`
from `OnTheWay` (only words of the webhook are on their way) and `Showing`: what the
room shows and what the bot believes it shows are both beginnings of the buffer, and
agree when the last edit was answered. That belief is why an edit lost on its way
back does no harm.

`PipelineIsAStream` (`PipelineSpec`): every step of the goroutines is one of
`OrderedStream` or a stutter, for channels of any capacity. The mapping counts the
items in the unread body (`Parsed`); `PipeInv` says where everything is that was
parsed and has not come out. Its number is the sum of what is in the buffer, in
either channel and in either goroutine's hand, and the i-th of each is the text that
follows those before it (`FlowInv`); the items left in the body continue the count
(`BodyInv`), and who has ended says who else has (`PhaseInv`). `Rank`, how many
members of a type a sequence has up to an index, stands for a filter on it:
`RankAppend` and `RankTail` say what sending and receiving do to it, by the
cardinality of sets and a bijection, where a recursive filter would need an
induction. `ParseItem` is then the stream's `Put`, `ReceiveChunk` its `Take`, and the
end of the reply its `End` (`AllCameOut`). `PipelineEnds` is model-checked only.

## 8. SessionTreeReset

| Code | Model |
|---|---|
| sessions on the OpenCode server (external) | `born`, `live`, `running`, `parent`, `stopping` (told to abort, still running); `Spawn`, `Finish`, `Prompt` |
| `ResetSession` | `known` (the conversation has a session), `Begin`, `NothingToReset`, `Reply` |
| `collectSessionTreeIDs` | `todo`, `ids`; `Visit` with the children in any order, `ListFails` |
| `abortAndDeleteSessionTree` | `phase`, `i`, `errors`; `Abort`, the wait for the root (`RootIsIdle`, `WaitTimesOut`, `WaitFails`), `Delete`; each call answered, refused, or done and its answer lost |
| - (history) | `late`, `stubborn`, `gaveUp`, `resumed`, `undeleted`, `answers` |

An abort is asynchronous: its answer says that the run was told, not that it has
ended. An aborted run joins `stopping` and takes any time to end (`Finish`), and may
start sub-sessions until then. The code asks for the status of the root only,
for two seconds at most, and then deletes everything, busy or not (461, 614-640);
sub-sessions are never waited for. So a session can be deleted under a run that was
told to stop and has not, and nothing says otherwise of it.

Properties: `LeftoversAreLate` (what a successful reset leaves was started below a
session it had listed already), `NoOrphans` (wherever it is cut off, nothing is left
out of its parent's reach), `AskedBeforeDeleted` (a session is deleted under a run only
if that run was told to stop, or telling it failed (`stubborn`), or it is the root's and
began with a prompt after the abort (`resumed`); and the root under a run that was
told only once the wait for it was given up, `gaveUp`).

| Run | Instance | Question |
|---|---|---|
| `tree` | 5 sessions, 2 attempts, a late prompt, runs that end late or never | the properties |
| `retry` | 2 sessions, 2 attempts | does trying again help? |

Five sessions give every shape up to a chain of five and a root with four
children; symmetry in all but the root. `CHECK_DEADLOCK FALSE`: it ends.

Finding (`retry`): `ResetSession` forgets the session id (154) before it works
through the tree (178). When a call fails the user reads "Reset failed. Please try
again." (client.go 1197); the second attempt finds no session, makes no call and is
answered "Session reset. Starting fresh." (1200).

Proofs (`SessionTreeResetProofs`), for any finite set of sessions, any number of
attempts and late prompts: `TreeTypeCorrect`, `FirstResetCleansUp`, `LeavesNoOrphans`,
`AsksBeforeDeleting`. The invariant says that the list is top-down (`TopDown`), which
runs of it have been told to stop (`Stopping`), and where a session that is not on the
list must be (`Finding`). That an empty `todo` means nothing is missing would be an
induction over the tree; instead `Ancestry` states that every set of sessions below
the root has one whose parent is outside it, which each `Spawn` preserves, and
it is used for the set of the missing ones.

## 9. Program and Configuration

`main` from its start to the exit status, with the goroutine of each bot and the
HTTP API.

| Code | Model |
|---|---|
| `main` | `pc`, `created`, `apiUp`, `exitStatus`, `signalled`, `stopped` (how many bots it has called `Stop` of): `Load`, `CreateBot`, `StartAPI`, `StopBot`, `Join` |
| `config.Load` | `Accepted` (module `Configuration`) over `env`, what the checks tell apart of each variable |
| `newGenerator` | `CanBeCreated` |
| `Client.Run` | `run[k]`: the calls of `initialize` one by one; then the loop, which ends only when told (`Return`, `ReturnStopError`, `Crash`), as `WebSocketSession` implements `BotLifecycle`; the signal cancels its context, `StopBot` closes its `stopChan` |
| `ExitOnError` | a bot whose `Run` returns an error, that of `initialize` or `errStopRequested`, ends the program for all (main.go 254-260) |
| `Server.handleSend` | `handler[r]`, `request[r]`, `room[r]`, `status[r]`; `posts[r]` is what it made Rocket.Chat post |

Properties: `StatusTellsTheTruth` (0 only after a signal and the return of every bot;
1 with bots at work only when one failed, or when main itself had told one to stop
and it answered with `errStopRequested`; 2 only after a signal), `AnswerTellsTheTruth` (what an API call is
answered agrees with what was posted, as whom, and where), `EndsWhenToldOrFailed`
(a signal at any moment, or a bot that fails, ends the program).

| Run | Instance | Question |
|---|---|---|
| `program` | no, one or two bots, most with one mistake in one of the checks; one request with every body of `MCBodies` | the properties |
| `stop` | two bots | is a bot that main stops ever taken for one that failed? |

Two bots are enough for one that fails beside one that runs, and for two slugs or
tokens. Requests share no state but the bots. `CHECK_DEADLOCK FALSE`: the program
exits.

Finding (`stop`): `checkForStop` answers `errStopRequested` (583), and
`runWithReconnect` returns it as it is (`client.go` 494-496). After a signal main calls
`Stop` of every bot; one that leaves `initialize` or a backoff finds its context done
and its `stopChan` closed, `select` may take the latter, and main logs "bot exited
with error" and exits with 1 (main.go 256-258) though no bot failed, cutting off the
bots that are still ending ("Stop gracefully stops the bot", client.go 589).
This is the exception in `StatusTellsTheTruth`.

Fairness. The goroutines run; each REST call of `initialize` is answered (the HTTP
client has no timeout); a bot that is told to stop ends, which is what
`IsBotLifecycle` shows of it.

Proofs (`ProgramProofs`), for any environments, requests and bodies: `StatusIsTrue`,
`AnswerIsTrue`. The first also needs to know whom main can have told by when
(`Starting`: `stopped` counts created bots, after the signal), and further that what `Load` accepts can be created
(`AcceptedCanBeCreated`) and that the bots are a prefix of the numbers
(`BotsAreAPrefix`), so that the WaitGroup counts them all; the second, that slugs
are unique among accepted bots (`OneBotPerSlug`), so that a slug and a token
determine who posts. `EndsWhenToldOrFailed` is model-checked only.

## 10. What is proved and what is not

Every invariant and every action property of the passing runs, and the refinements
`RegisterSpec` and `PipelineSpec`, are theorems of the specifications, for every value
of the constants. Three theorems have a hypothesis beyond the modules' assumptions:
`LoopFindsSocket` and `RunIsALifecycle` that no watcher sleeps through a backoff
(`~WatcherLags`, section 4), and `AnswersAreComplete` that nothing is lost or
misread (`Reliable`, section 3). The runs that check these properties make the same choices;
what happens without them is described there.

Model-checked only:

* `EverythingEnds`, `ServesInTheEnd`, `ReplyEnds`, `PipelineEnds`,
  `EndsWhenToldOrFailed`: liveness. Fairness and ENABLED are out of the prover's reach.
* the fairness in `IsBotLifecycle` (that `Run` ends once it is told); its safety part is
  `RunIsALifecycle`.

All proofs assume only the named ASSUMEs of the modules' constants, which TLC
evaluates in the runs. What a recursive definition computes for every input cannot
be proved, so modules with theorems count by cardinalities and state orders by
indices instead.

## 11. Not modelled

* Permission requests of OpenCode: their answer changes nothing but whether the
  stream goes on (`StreamStops`).
* The map of conversations: conversations share nothing but the server.
* `consumeEvents` and `handleDMResponse`, which only tests call; the test utilities.
* `ctx.Done` in the webhook's goroutines: that context is never cancelled.
* Of the REST client: headers, encoding, the fields of answers; of `FetchHistory` only
  whether it was called.
* Of a room's policy: overrides no modelled decision depends on.
* Wording, formatting, logging and tracing.
* The catch-up ends a prompt with "Reply to the latest message" (client.go 408);
  when somebody was quick, that is not the message the responder is for.
  `ContainsItsMessage` shows that it is among those shown; which one the model
  answers is not the bot's to say.
* Two quirks of the configuration are in the model as the code has them: bots after
  a gap in the numbering are ignored (`Bots`), and an override that is blank counts
  as one (`PoliciesAccepted`; config.go 346 looks before 355 trims).

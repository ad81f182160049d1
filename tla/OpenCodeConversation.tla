------------------------ MODULE OpenCodeConversation ------------------------
(***************************************************************************)
(* One openCodeConversation (bot/opencode_generator.go) and everything     *)
(* that works on it at the same time: the responder goroutines that prompt *)
(* the session (Client.handleResponse -> GenerateRenderStream), one reader *)
(* goroutine per opened SSE stream (consumeRenderEvents), the "!rb reset"  *)
(* commands (ResetSession), and the OpenCode server behind them.           *)
(*                                                                         *)
(* The three mutexes are modelled by their effect: sessionMu and activeMu  *)
(* make each accessor one atomic step, promptMu is held across steps.      *)
(* A stream is named by the prompt that opened it and its attempt (2 is    *)
(* the retry after a stale session).  Event contents are abstracted to the *)
(* one event that ends a stream, session.idle.                             *)
(***************************************************************************)
EXTENDS Naturals, Sequences, FiniteSets

CONSTANTS
    Prompts,        \* messages handled in this conversation, one goroutine each
    Resets,         \* "!rb reset" commands in this conversation
    Sessions,       \* ids the server can hand out
    StreamedOutput, \* the bot's streamed-output setting
    Faults,         \* what may go wrong in this instance, a subset of FaultKinds
    Nil             \* no session, no lock holder, no registered cancel function

\* The environment's failures: a call that fails before it had an effect
\* (createFail, openFail, refuse, abortFail, deleteFail), one that had its
\* effect but whose answer is lost (createLost, postLost), an event stream
\* that ends by itself (eof), a session that somebody else deletes (sessionLost),
\* and a refusal that is taken for "no such session" and is none (misread).
FaultKinds == {"createFail", "createLost", "openFail", "refuse", "misread", "postLost",
               "eof", "sessionLost", "abortFail", "deleteFail"}

Streams == Prompts \X {1, 2}

ASSUME NilAssumption == Nil \notin Prompts \cup Resets \cup Sessions \cup Streams
ASSUME ConfigAssumption == StreamedOutput \in BOOLEAN /\ Faults \subseteq FaultKinds

VARIABLES
    \* the openCodeConversation
    sessionID,      \* its session, or Nil
    promptMu,       \* the prompt whose unlockConv releases promptMu, or Nil
    activeCancel,   \* the stream that cancelActive would cancel, or Nil
    activeCancelN,
    \* the responder goroutines
    pc, sid, attempt, fetched, includeHistory, unlocked, err,
    \* the stream goroutines
    phase,          \* where the goroutine that reads the stream is
    session,        \* the session whose events it looks for
    cancelled,      \* its context has been cancelled
    seq,            \* the number setActiveCancel gave it
    idle,           \* a session.idle event of its session waits to be read
    \* the reset commands
    rpc, rsid,
    \* the OpenCode server
    created, live, running, log

conv == <<sessionID, promptMu, activeCancel, activeCancelN>>
prompt == <<pc, sid, attempt, fetched, includeHistory, unlocked, err>>
stream == <<phase, session, cancelled, seq, idle>>
reset == <<rpc, rsid>>
server == <<created, live, running, log>>
vars == <<conv, prompt, stream, reset, server>>

PromptPCs == {"hint", "lock", "read", "create", "install", "open", "post",
              "await", "clear", "consume", "end"}
StreamPhases == {"off", "reading", "blocked", "unlock", "clear", "done"}
ResetPCs == {"read", "clear", "cancel", "abort", "delete", "end"}
Errors == {"none", "stale", "other"}
\* What promptAsync sends: the bootstrap form or the bare message, and
\* whether history is in it.
Sent == [prompt : Prompts, bootstrap : BOOLEAN, history : BOOLEAN]

TypeOK ==
    /\ sessionID \in Sessions \cup {Nil}
    /\ promptMu \in Prompts \cup {Nil}
    /\ activeCancel \in Streams \cup {Nil}
    /\ activeCancelN \in Nat
    /\ pc \in [Prompts -> PromptPCs]
    /\ sid \in [Prompts -> Sessions \cup {Nil}]
    /\ attempt \in [Prompts -> {1, 2}]
    /\ fetched \in [Prompts -> BOOLEAN]
    /\ includeHistory \in [Prompts -> BOOLEAN]
    /\ unlocked \in [Prompts -> BOOLEAN]
    /\ err \in [Prompts -> Errors]
    /\ phase \in [Streams -> StreamPhases]
    /\ session \in [Streams -> Sessions \cup {Nil}]
    /\ cancelled \in [Streams -> BOOLEAN]
    /\ seq \in [Streams -> Nat]
    /\ idle \in [Streams -> BOOLEAN]
    /\ rpc \in [Resets -> ResetPCs]
    /\ rsid \in [Resets -> Sessions \cup {Nil}]
    /\ created \subseteq Sessions
    /\ live \subseteq created
    /\ running \in [Sessions -> SUBSET Prompts]
    /\ log \in [Sessions -> Seq(Sent)]

Init ==
    /\ sessionID = Nil
    /\ promptMu = Nil
    /\ activeCancel = Nil
    /\ activeCancelN = 0
    /\ pc = [p \in Prompts |-> "hint"]
    /\ sid = [p \in Prompts |-> Nil]
    /\ attempt = [p \in Prompts |-> 1]
    /\ fetched = [p \in Prompts |-> FALSE]
    /\ includeHistory = [p \in Prompts |-> FALSE]
    /\ unlocked = [p \in Prompts |-> FALSE]
    /\ err = [p \in Prompts |-> "none"]
    /\ phase = [st \in Streams |-> "off"]
    /\ session = [st \in Streams |-> Nil]
    /\ cancelled = [st \in Streams |-> FALSE]
    /\ seq = [st \in Streams |-> 0]
    /\ idle = [st \in Streams |-> FALSE]
    /\ rpc = [r \in Resets |-> "read"]
    /\ rsid = [r \in Resets |-> Nil]
    /\ created = {}
    /\ live = {}
    /\ running = [s \in Sessions |-> {}]
    /\ log = [s \in Sessions |-> <<>>]

-----------------------------------------------------------------------------
Current(p) == <<p, attempt[p]>>

Open(st) == phase[st] \in {"reading", "blocked"}

\* The responder is in the loop that receives from this stream's channel.
Drained(st) == pc[st[1]] = "consume" /\ attempt[st[1]] = st[2]

Goto(p, where) == pc' = [pc EXCEPT ![p] = where]

\* MUTANT: unlockConv without its sync.Once.
UnlockWithoutOnce(p) ==
    /\ promptMu' = Nil
    /\ unlocked' = [unlocked EXCEPT ![p] = TRUE]

\* unlockConv: sync.Once makes every call but the first do nothing.
Unlock(p) ==
    /\ promptMu' = IF unlocked[p] THEN promptMu ELSE Nil
    /\ unlocked' = [unlocked EXCEPT ![p] = TRUE]

\* cancel(): the goroutine notices at its next look at the context.
Cancel(st) ==
    /\ cancelled' = [cancelled EXCEPT ![st] = TRUE]
    /\ UNCHANGED <<phase, session, seq, idle>>

\* The server ends the run of session s and says so, once, on every stream.
EndRun(s) ==
    /\ running' = [running EXCEPT ![s] = {}]
    /\ idle' = [st \in Streams |->
                  idle[st] \/ (Open(st) /\ session[st] = s /\ running[s] # {})]
    /\ UNCHANGED <<phase, session, cancelled, seq>>

-----------------------------------------------------------------------------
(* The responder goroutine of prompt p.                                    *)

\* HistoryLimit, asked before the lock is taken, decides whether the last
\* messages of the room or thread are fetched (there are some to fetch).
HistoryHint(p) ==
    /\ pc[p] = "hint"
    /\ fetched' = [fetched EXCEPT ![p] = (sessionID = Nil)]
    /\ Goto(p, "lock")
    /\ UNCHANGED <<conv, sid, attempt, includeHistory, unlocked, err, stream, reset, server>>

AcquireLock(p) ==
    /\ pc[p] = "lock"
    /\ promptMu = Nil
    /\ promptMu' = p
    /\ Goto(p, "read")
    /\ UNCHANGED <<sessionID, activeCancel, activeCancelN, sid, attempt, fetched,
                   includeHistory, unlocked, err, stream, reset, server>>

\* MUTANT: includeHistory starts out true.
ReadSessionAlwaysBootstrap(p) ==
    /\ pc[p] = "read"
    /\ sid' = [sid EXCEPT ![p] = sessionID]
    /\ includeHistory' = [includeHistory EXCEPT ![p] = TRUE]
    /\ Goto(p, IF sessionID = Nil THEN "create" ELSE "open")
    /\ UNCHANGED <<conv, attempt, fetched, unlocked, err, stream, reset, server>>

ReadSession(p) ==
    /\ pc[p] = "read"
    /\ sid' = [sid EXCEPT ![p] = sessionID]
    /\ Goto(p, IF sessionID = Nil THEN "create" ELSE "open")
    /\ UNCHANGED <<conv, attempt, fetched, includeHistory, unlocked, err, stream,
                   reset, server>>

CreateSession(p, s) ==
    /\ pc[p] = "create"
    /\ s \in Sessions \ created
    /\ created' = created \cup {s}
    /\ live' = live \cup {s}
    /\ sid' = [sid EXCEPT ![p] = s]
    /\ Goto(p, "install")
    /\ UNCHANGED <<conv, attempt, fetched, includeHistory, unlocked, err, stream,
                   reset, running, log>>

\* MUTANT: an error return that forgets the lock.
CreateFailsKeepsLock(p) ==
    /\ "createFail" \in Faults
    /\ pc[p] = "create"
    /\ Goto(p, "end")
    /\ UNCHANGED <<conv, sid, attempt, fetched, includeHistory, unlocked, err, stream,
                   reset, server>>

\* createSession reports an error: nothing was created ...
CreateFails(p) ==
    /\ "createFail" \in Faults
    /\ pc[p] = "create"
    /\ Unlock(p)
    /\ Goto(p, "end")
    /\ UNCHANGED <<sessionID, activeCancel, activeCancelN, sid, attempt, fetched,
                   includeHistory, err, stream, reset, server>>

\* ... or the answer with the id of the created session is lost.
CreateAnswerLost(p, s) ==
    /\ "createLost" \in Faults
    /\ pc[p] = "create"
    /\ s \in Sessions \ created
    /\ created' = created \cup {s}
    /\ live' = live \cup {s}
    /\ Unlock(p)
    /\ Goto(p, "end")
    /\ UNCHANGED <<sessionID, activeCancel, activeCancelN, sid, attempt, fetched,
                   includeHistory, err, stream, reset, running, log>>

InstallSession(p) ==
    /\ pc[p] = "install"
    /\ sessionID' = sid[p]
    /\ includeHistory' = [includeHistory EXCEPT ![p] = TRUE]
    /\ Goto(p, "open")
    /\ UNCHANGED <<promptMu, activeCancel, activeCancelN, sid, attempt, fetched,
                   unlocked, err, stream, reset, server>>

\* postPromptWithStream up to the POST, for the session with id s:
\* openEventStream, setActiveCancel, the start of the reading goroutine.
StartStream(st, s) ==
    /\ activeCancelN' = activeCancelN + 1
    /\ activeCancel' = st
    /\ phase' = [phase EXCEPT ![st] = "reading"]
    /\ session' = [session EXCEPT ![st] = s]
    /\ seq' = [seq EXCEPT ![st] = activeCancelN + 1]
    /\ UNCHANGED <<cancelled, idle>>

\* MUTANT: the session id is written again once its stream is open.
OpenStreamReinstalls(p) ==
    /\ pc[p] = "open"
    /\ sessionID' = sid[p]
    /\ StartStream(Current(p), sid[p])
    /\ Goto(p, "post")
    /\ UNCHANGED <<promptMu, sid, attempt, fetched, includeHistory, unlocked, err,
                   reset, server>>

OpenStream(p) ==
    /\ pc[p] = "open"
    /\ StartStream(Current(p), sid[p])
    /\ Goto(p, "post")
    /\ UNCHANGED <<sessionID, promptMu, sid, attempt, fetched, includeHistory,
                   unlocked, err, reset, server>>

OpenFails(p) ==
    /\ "openFail" \in Faults
    /\ pc[p] = "open"
    /\ Unlock(p)
    /\ Goto(p, "end")
    /\ UNCHANGED <<sessionID, activeCancel, activeCancelN, sid, attempt, fetched,
                   includeHistory, err, stream, reset, server>>

\* What the server does with a prompt it accepts; one for a busy session queues.
Accept(p) ==
    /\ sid[p] \in live
    /\ running' = [running EXCEPT ![sid[p]] = @ \cup {p}]
    /\ log' = [log EXCEPT ![sid[p]] =
                 Append(@, [prompt |-> p, bootstrap |-> includeHistory[p],
                            history |-> includeHistory[p] /\ fetched[p]])]
    /\ UNCHANGED <<created, live>>

\* MUTANT: the lock is released as soon as the server has the prompt.
PostPromptUnlocks(p) ==
    /\ pc[p] = "post"
    /\ Accept(p)
    /\ Unlock(p)
    /\ Goto(p, "consume")
    /\ UNCHANGED <<sessionID, activeCancel, activeCancelN, sid, attempt, fetched,
                   includeHistory, err, stream, reset>>

PostPrompt(p) ==
    /\ pc[p] = "post"
    /\ Accept(p)
    /\ Goto(p, "consume")
    /\ UNCHANGED <<conv, sid, attempt, fetched, includeHistory, unlocked, err, stream, reset>>

\* promptAsync reports error e and the stream just opened is cancelled.
PostFails(p, e) ==
    /\ pc[p] = "post"
    /\ err' = [err EXCEPT ![p] = e]
    /\ Cancel(Current(p))
    /\ Goto(p, "await")
    /\ UNCHANGED <<conv, sid, attempt, fetched, includeHistory, unlocked, reset>>

PostAnswerLost(p) == "postLost" \in Faults /\ PostFails(p, "other") /\ Accept(p)
PostRefused(p) == "refuse" \in Faults /\ PostFails(p, "other") /\ UNCHANGED server

\* isStaleSessionPromptError judges a refusal by its status (404, 410) or, for
\* 400, by words in its body: the session may be there all the same.
ReadsAsStale(p) == sid[p] \notin live \/ "misread" \in Faults

PostStale(p) == ReadsAsStale(p) /\ PostFails(p, "stale") /\ UNCHANGED server

\* MUTANT: every error is taken for a stale session.
AfterFailureAlwaysRetry(p) == Goto(p, "clear")

\* Where a failed postPromptWithStream leads: only a stale session is worth
\* going on, every other error ends the prompt (its lock is free by now).
AfterFailure(p) == Goto(p, IF err[p] = "stale" THEN "clear" ELSE "end")

StreamStopped(p) ==
    /\ pc[p] = "await"
    /\ phase[Current(p)] = "done"
    /\ Unlock(p)
    /\ AfterFailure(p)
    /\ UNCHANGED <<sessionID, activeCancel, activeCancelN, sid, attempt, fetched,
                   includeHistory, err, stream, reset, server>>

\* The two-second timer fires before the reader has noticed the cancellation.
StreamStopTimeout(p) ==
    /\ pc[p] = "await"
    /\ phase[Current(p)] # "done"
    /\ Unlock(p)
    /\ AfterFailure(p)
    /\ UNCHANGED <<sessionID, activeCancel, activeCancelN, sid, attempt, fetched,
                   includeHistory, err, stream, reset, server>>

\* MUTANT: the session id is cleared whatever it is by now.
ClearStaleAnySession(p) ==
    /\ pc[p] = "clear"
    /\ sessionID' = Nil
    /\ attempt' = [attempt EXCEPT ![p] = 2]
    /\ Goto(p, IF attempt[p] = 1 THEN "create" ELSE "end")
    /\ UNCHANGED <<promptMu, activeCancel, activeCancelN, sid, fetched, includeHistory,
                   unlocked, err, stream, reset, server>>

\* MUTANT: a stale session is retried without limit.
ClearStaleRetriesForever(p) ==
    /\ pc[p] = "clear"
    /\ sessionID' = IF sessionID = sid[p] THEN Nil ELSE sessionID
    /\ attempt' = [attempt EXCEPT ![p] = @ + 1]
    /\ Goto(p, "create")
    /\ UNCHANGED <<promptMu, activeCancel, activeCancelN, sid, fetched, includeHistory,
                   unlocked, err, stream, reset, server>>

\* clearSessionIDIfMatch, then the retry -- or, after the retry, the error.
ClearStale(p) ==
    /\ pc[p] = "clear"
    /\ sessionID' = IF sessionID = sid[p] THEN Nil ELSE sessionID
    /\ attempt' = [attempt EXCEPT ![p] = 2]
    /\ Goto(p, IF attempt[p] = 1 THEN "create" ELSE "end")
    /\ UNCHANGED <<promptMu, activeCancel, activeCancelN, sid, fetched, includeHistory,
                   unlocked, err, stream, reset, server>>

\* The channel is closed: the whole answer was received.
EndOfAnswer(p) ==
    /\ pc[p] = "consume"
    /\ phase[Current(p)] = "done"
    /\ Goto(p, "end")
    /\ UNCHANGED <<conv, sid, attempt, fetched, includeHistory, unlocked, err, stream,
                   reset, server>>

\* handleRenderStreamingResponse gives up when it cannot update its message:
\* nobody receives from the channel any more.
Abandon(p) ==
    /\ StreamedOutput
    /\ pc[p] = "consume"
    /\ Goto(p, "end")
    /\ UNCHANGED <<conv, sid, attempt, fetched, includeHistory, unlocked, err, stream,
                   reset, server>>

-----------------------------------------------------------------------------
(* The goroutine that reads stream st.                                     *)

StreamGoto(st, where) ==
    /\ phase' = [phase EXCEPT ![st] = where]
    /\ UNCHANGED <<session, cancelled, seq, idle>>

\* More events than the channel holds and nobody receiving.
StreamBlocks(st) ==
    /\ phase[st] = "reading"
    /\ ~Drained(st)
    /\ running[session[st]] # {}
    /\ StreamGoto(st, "blocked")
    /\ UNCHANGED <<conv, prompt, reset, server>>

StreamResumes(st) ==
    /\ phase[st] = "blocked"
    /\ Drained(st)
    /\ StreamGoto(st, "reading")
    /\ UNCHANGED <<conv, prompt, reset, server>>

\* consumeRenderEvents returns: session.idle, a cancelled context (looked at
\* between two lines, and while a send is blocked), ...
StreamEnds(st) ==
    /\ \/ phase[st] = "reading" /\ (idle[st] \/ cancelled[st])
       \/ phase[st] = "blocked" /\ cancelled[st]
    /\ StreamGoto(st, "unlock")
    /\ UNCHANGED <<conv, prompt, reset, server>>

\* ... or the connection ended, or a permission could not be answered.
StreamBreaks(st) ==
    /\ "eof" \in Faults
    /\ phase[st] = "reading"
    /\ StreamGoto(st, "unlock")
    /\ UNCHANGED <<conv, prompt, reset, server>>

\* MUTANT: the deferred unlockConv is missing.
StreamUnlocksNothing(st) ==
    /\ phase[st] = "unlock"
    /\ StreamGoto(st, "clear")
    /\ UNCHANGED <<conv, prompt, reset, server>>

\* The deferred calls, in their order: unlockConv, ...
StreamUnlocks(st) ==
    /\ phase[st] = "unlock"
    /\ Unlock(st[1])
    /\ StreamGoto(st, "clear")
    /\ UNCHANGED <<sessionID, activeCancel, activeCancelN, pc, sid, attempt, fetched,
                   includeHistory, err, reset, server>>

\* MUTANT: clearActiveCancel without the comparison of sequence numbers.
StreamClearsAny(st) ==
    /\ phase[st] = "clear"
    /\ activeCancel' = Nil
    /\ StreamGoto(st, "done")
    /\ UNCHANGED <<sessionID, promptMu, activeCancelN, prompt, reset, server>>

\* ... clearActiveCancel, and the closing of both channels.
StreamClears(st) ==
    /\ phase[st] = "clear"
    /\ activeCancel' = IF activeCancelN = seq[st] THEN Nil ELSE activeCancel
    /\ StreamGoto(st, "done")
    /\ UNCHANGED <<sessionID, promptMu, activeCancelN, prompt, reset, server>>

-----------------------------------------------------------------------------
(* ResetSession.                                                           *)

ResetRead(r) ==
    /\ rpc[r] = "read"
    /\ rsid' = [rsid EXCEPT ![r] = sessionID]
    /\ rpc' = [rpc EXCEPT ![r] = "clear"]
    /\ UNCHANGED <<conv, prompt, stream, server>>

ResetClear(r) ==
    /\ rpc[r] = "clear"
    /\ sessionID' = Nil
    /\ rpc' = [rpc EXCEPT ![r] = "cancel"]
    /\ UNCHANGED <<promptMu, activeCancel, activeCancelN, prompt, stream, rsid, server>>

ResetCancel(r) ==
    /\ rpc[r] = "cancel"
    /\ IF activeCancel = Nil THEN UNCHANGED stream ELSE Cancel(activeCancel)
    /\ activeCancel' = Nil
    /\ rpc' = [rpc EXCEPT ![r] = IF rsid[r] = Nil THEN "end" ELSE "abort"]
    /\ UNCHANGED <<sessionID, promptMu, activeCancelN, prompt, rsid, server>>

\* abortAndDeleteSessionTree for a session without children: abort (a missing
\* session is fine), then delete.  An abort that fails does not keep the
\* deletion from being tried; a listing that fails does.
ResetAbort(r) ==
    /\ rpc[r] = "abort"
    /\ EndRun(rsid[r])
    /\ rpc' = [rpc EXCEPT ![r] = "delete"]
    /\ UNCHANGED <<conv, prompt, rsid, created, live, log>>

ResetAbortFails(r) ==
    /\ "abortFail" \in Faults
    /\ rpc[r] = "abort"
    /\ \E where \in {"delete", "end"} : rpc' = [rpc EXCEPT ![r] = where]
    /\ UNCHANGED <<conv, prompt, stream, rsid, server>>

ResetDelete(r) ==
    /\ rpc[r] = "delete"
    /\ EndRun(rsid[r])
    /\ live' = live \ {rsid[r]}
    /\ rpc' = [rpc EXCEPT ![r] = "end"]
    /\ UNCHANGED <<conv, prompt, rsid, created, log>>

ResetDeleteFails(r) ==
    /\ "deleteFail" \in Faults
    /\ rpc[r] = "delete"
    /\ rpc' = [rpc EXCEPT ![r] = "end"]
    /\ UNCHANGED <<conv, prompt, stream, rsid, server>>

-----------------------------------------------------------------------------
(* The server on its own.                                                  *)

\* It finishes what session s was asked.
SessionIdle(s) ==
    /\ running[s] # {}
    /\ EndRun(s)
    /\ UNCHANGED <<conv, prompt, reset, created, live, log>>

\* Somebody else deletes an idle session, or the server loses it.
SessionLost(s) ==
    /\ "sessionLost" \in Faults
    /\ s \in live
    /\ running[s] = {}
    /\ live' = live \ {s}
    /\ UNCHANGED <<conv, prompt, stream, reset, created, running, log>>

-----------------------------------------------------------------------------
PromptStep(p) ==
    \/ HistoryHint(p) \/ AcquireLock(p) \/ ReadSession(p)
    \/ \E s \in Sessions : CreateSession(p, s) \/ CreateAnswerLost(p, s)
    \/ CreateFails(p) \/ InstallSession(p)
    \/ OpenStream(p) \/ OpenFails(p)
    \/ PostPrompt(p) \/ PostAnswerLost(p) \/ PostRefused(p) \/ PostStale(p)
    \/ StreamStopped(p) \/ StreamStopTimeout(p) \/ ClearStale(p)
    \/ EndOfAnswer(p) \/ Abandon(p)

StreamStep(st) ==
    \/ StreamBlocks(st) \/ StreamResumes(st) \/ StreamEnds(st) \/ StreamBreaks(st)
    \/ StreamUnlocks(st) \/ StreamClears(st)

ResetStep(r) ==
    \/ ResetRead(r) \/ ResetClear(r) \/ ResetCancel(r)
    \/ ResetAbort(r) \/ ResetAbortFails(r) \/ ResetDelete(r) \/ ResetDeleteFails(r)

ServerStep(s) == SessionIdle(s) \/ SessionLost(s)

\* Every message was handled and every command carried out.
Finished ==
    /\ \A p \in Prompts : pc[p] = "end"
    /\ \A r \in Resets : rpc[r] = "end"
    /\ UNCHANGED vars

Next ==
    \/ \E p \in Prompts : PromptStep(p)
    \/ \E st \in Streams : StreamStep(st)
    \/ \E r \in Resets : ResetStep(r)
    \/ \E s \in Sessions : ServerStep(s)
    \/ Finished

Spec == Init /\ [][Next]_vars

(***************************************************************************)
(* Fairness.  A goroutine that can go on does (a mutex that is free is     *)
(* eventually taken, a timer fires, an HTTP call returns or fails); a      *)
(* stream whose end has arrived, or that was cancelled, sees another line  *)
(* or the end of its connection; the server finishes what it accepted.     *)
(* No fault and no consumer's giving up is ever forced.                    *)
(***************************************************************************)
PromptProgress(p) ==
    \/ HistoryHint(p) \/ AcquireLock(p) \/ ReadSession(p)
    \/ \E s \in Sessions : CreateSession(p, s)
    \/ CreateFails(p) \/ InstallSession(p) \/ OpenStream(p)
    \/ PostPrompt(p) \/ PostStale(p)
    \/ StreamStopped(p) \/ StreamStopTimeout(p) \/ ClearStale(p)
    \/ EndOfAnswer(p)

StreamProgress(st) ==
    StreamResumes(st) \/ StreamEnds(st) \/ StreamUnlocks(st) \/ StreamClears(st)

Fairness ==
    /\ \A p \in Prompts : WF_vars(PromptProgress(p))
    /\ \A st \in Streams : WF_vars(StreamProgress(st))
    /\ \A r \in Resets : WF_vars(ResetStep(r))
    /\ \A s \in Sessions : WF_vars(SessionIdle(s))

FairSpec == Spec /\ Fairness

-----------------------------------------------------------------------------
(* Safety.                                                                 *)

(***************************************************************************)
(* promptMu and the per-prompt unlockOnce agree: the mutex is held by a    *)
(* prompt exactly from its Lock to its first unlockConv, whichever of the  *)
(* responder, the timer and the stream goroutine calls it first.  A second *)
(* unlock would free another prompt's lock, or crash the program ("unlock  *)
(* of unlocked mutex").                                                    *)
(***************************************************************************)
LockOwnership ==
    \A p \in Prompts :
        promptMu = p <=> pc[p] \notin {"hint", "lock"} /\ ~unlocked[p]

(***************************************************************************)
(* A held lock is never forgotten: its holder is still on the way to its   *)
(* stream, or the stream's goroutine has yet to run its deferred           *)
(* unlockConv.  Covers every error return of GenerateRenderStream.         *)
(***************************************************************************)
LockHasReleaser ==
    \A p \in Prompts :
        promptMu = p =>
            \/ pc[p] \in {"read", "create", "install", "open"}
            \/ phase[<<p, 1>>] \in {"reading", "blocked", "unlock"}

\* The stream is read by a goroutine that nobody has told to stop.
Listening(st) == Open(st) /\ ~cancelled[st]

(***************************************************************************)
(* One answer at a time: two streams of the conversation are listened to   *)
(* at once only if one of them belongs to a retry after a stale session    *)
(* (which runs without the lock).                                          *)
(***************************************************************************)
OneAnswerAtATime ==
    \A st, su \in Streams :
        Listening(st) /\ Listening(su) /\ st # su => 2 \in {st[2], su[2]}

(***************************************************************************)
(* "!rb reset" reaches the generation that started last: a late            *)
(* clearActiveCancel of an older stream does not take away the newer       *)
(* stream's cancel function.                                               *)
(***************************************************************************)
NewestIsCancellable ==
    \A st \in Streams :
        Listening(st) /\ seq[st] = activeCancelN => activeCancel = st

(***************************************************************************)
(* A message reaches the model at most once, whatever is lost or retried:  *)
(* the retry is made only when the first attempt was certainly rejected.   *)
(***************************************************************************)
AcceptedAtMostOnce ==
    \A s, t \in Sessions : \A i \in DOMAIN log[s], j \in DOMAIN log[t] :
        log[s][i].prompt = log[t][j].prompt => s = t /\ i = j

(***************************************************************************)
(* A session is bootstrapped at most once: of the prompts it accepted, one *)
(* at most carries the bootstrap prompt and the history.                   *)
(***************************************************************************)
BootstrappedAtMostOnce ==
    \A s \in Sessions : \A i, j \in DOMAIN log[s] :
        log[s][i].bootstrap /\ log[s][j].bootstrap => i = j

(***************************************************************************)
(* The conversation is left without a session only by a reset, or when its *)
(* session is gone from the server: a prompt that was told "not found"     *)
(* never throws away the session another prompt has put in its place.      *)
(* Where refusals are misread, it may be there; but then a prompt was told *)
(* so of this very session.                                                *)
(***************************************************************************)
ToldGone(p, s) == "misread" \in Faults /\ err[p] = "stale" /\ sid[p] = s

DroppedOnlyWhenGone ==
    [][sessionID # Nil /\ sessionID' = Nil =>
         \/ sessionID \notin live
         \/ \E p \in Prompts : ToldGone(p, sessionID)
         \/ \E r \in Resets : rpc[r] = "clear" /\ rpc'[r] = "cancel"]_vars

(***************************************************************************)
(* An answer that was received to its end is the whole answer: where       *)
(* nothing disturbs the event streams (no session, connection or answer to *)
(* a POST lost, no refusal misread, which leads to a retry without the     *)
(* lock) and no reset has cancelled one, a responder's channel is closed   *)
(* only after the server has finished this very prompt.  (session.idle     *)
(* ends a stream whoever's run it is about.)                               *)
(***************************************************************************)
AnswerIsComplete ==
    \A p \in Prompts :
        /\ pc[p] = "consume" /\ phase[Current(p)] = "done"
        /\ \A r \in Resets : rpc[r] \in {"read", "clear", "cancel"}
        => \A s \in Sessions : p \notin running[s]

(***************************************************************************)
(* The session register.  An id counts as used from its creation on,       *)
(* except while the prompt that got it has yet to install it.              *)
(***************************************************************************)
Pending == {sid[p] : p \in {q \in Prompts : pc[q] = "install"}}

Register == INSTANCE SessionRegister
                WITH current <- sessionID, used <- created \ Pending

RegisterSpec == Register!Spec
RegisterNeverReturns == Register!NeverReturns

-----------------------------------------------------------------------------
(* Liveness.                                                               *)

(***************************************************************************)
(* Every message is answered or given up and every reset returns, through  *)
(* all faults, with one exception: with streamed output a message can wait *)
(* for ever behind a prompt whose responder gave up and whose reader is    *)
(* stuck on a full channel with the lock in hand.                          *)
(***************************************************************************)
StuckBehindAbandoned ==
    \E q \in Prompts :
        promptMu = q /\ pc[q] = "end" /\ phase[<<q, 1>>] = "blocked"

EverythingEnds ==
    /\ \A p \in Prompts : <>(pc[p] = "end" \/ (pc[p] = "lock" /\ StuckBehindAbandoned))
    /\ \A r \in Resets : <>(rpc[r] = "end")
=============================================================================

--------------------- MODULE OpenCodeConversationProofs ---------------------
(* Theorems about OpenCodeConversation, for any number of messages, resets  *)
(* and sessions, every setting of streamed output and every set of faults.  *)
EXTENDS OpenCodeConversation, TLAPS

(***************************************************************************)
(* Type correctness.                                                       *)
(***************************************************************************)
LEMMA TypeInit == Init => TypeOK
  BY DEF Init, TypeOK, Streams, PromptPCs, StreamPhases, ResetPCs, Errors, Sent

LEMMA TypePrompt ==
  ASSUME TypeOK, NEW p \in Prompts, PromptStep(p) PROVE TypeOK'
<1> USE DEF TypeOK, Goto, Unlock, Cancel, Current, conv, prompt, stream, reset, server, Streams
<1>1. CASE HistoryHint(p)
  BY <1>1 DEF HistoryHint, PromptPCs
<1>2. CASE AcquireLock(p)
  BY <1>2 DEF AcquireLock, PromptPCs
<1>3. CASE ReadSession(p)
  BY <1>3 DEF ReadSession, PromptPCs
<1>4. ASSUME NEW s \in Sessions, CreateSession(p, s) PROVE TypeOK'
  BY <1>4 DEF CreateSession, PromptPCs
<1>5. ASSUME NEW s \in Sessions, CreateAnswerLost(p, s) PROVE TypeOK'
  BY <1>5 DEF CreateAnswerLost, PromptPCs
<1>6. CASE CreateFails(p)
  BY <1>6 DEF CreateFails, PromptPCs
<1>7. CASE InstallSession(p)
  BY <1>7 DEF InstallSession, PromptPCs
<1>8. CASE OpenStream(p)
  BY <1>8 DEF OpenStream, StartStream, PromptPCs, StreamPhases
<1>9. CASE OpenFails(p)
  BY <1>9 DEF OpenFails, PromptPCs
<1>10. ASSUME Accept(p) PROVE running' \in [Sessions -> SUBSET Prompts]
                             /\ log' \in [Sessions -> Seq(Sent)]
                             /\ live' \subseteq created'
                             /\ created' \subseteq Sessions
  <2>1. [prompt |-> p, bootstrap |-> includeHistory[p],
         history |-> includeHistory[p] /\ fetched[p]] \in Sent
    BY DEF Sent
  <2>2. sid[p] \in Sessions
    BY <1>10 DEF Accept
  <2> QED BY <1>10, <2>1, <2>2 DEF Accept
<1>11. CASE PostPrompt(p)
  BY <1>10, <1>11 DEF PostPrompt, PromptPCs
<1>12. CASE PostAnswerLost(p)
  BY <1>10, <1>12 DEF PostAnswerLost, PostFails, PromptPCs, Errors
<1>13. CASE PostRefused(p)
  BY <1>13 DEF PostRefused, PostFails, PromptPCs, Errors
<1>14. CASE PostStale(p)
  BY <1>14 DEF PostStale, PostFails, PromptPCs, Errors
<1>15. CASE StreamStopped(p)
  BY <1>15 DEF StreamStopped, AfterFailure, PromptPCs
<1>16. CASE StreamStopTimeout(p)
  BY <1>16 DEF StreamStopTimeout, AfterFailure, PromptPCs
<1>17. CASE ClearStale(p)
  BY <1>17 DEF ClearStale, PromptPCs
<1>18. CASE EndOfAnswer(p)
  BY <1>18 DEF EndOfAnswer, PromptPCs
<1>19. CASE Abandon(p)
  BY <1>19 DEF Abandon, PromptPCs
<1> QED
  BY <1>1, <1>2, <1>3, <1>4, <1>5, <1>6, <1>7, <1>8, <1>9, <1>11, <1>12, <1>13,
     <1>14, <1>15, <1>16, <1>17, <1>18, <1>19 DEF PromptStep

LEMMA TypeStream ==
  ASSUME TypeOK, NEW st \in Streams, StreamStep(st) PROVE TypeOK'
<1> USE DEF TypeOK, Unlock, StreamGoto, StreamPhases, Streams, conv, prompt, stream, reset, server
<1>1. CASE StreamBlocks(st)
  BY <1>1 DEF StreamBlocks
<1>2. CASE StreamResumes(st)
  BY <1>2 DEF StreamResumes
<1>3. CASE StreamEnds(st)
  BY <1>3 DEF StreamEnds
<1>4. CASE StreamBreaks(st)
  BY <1>4 DEF StreamBreaks
<1>5. CASE StreamUnlocks(st)
  BY <1>5 DEF StreamUnlocks
<1>6. CASE StreamClears(st)
  BY <1>6 DEF StreamClears
<1> QED
  BY <1>1, <1>2, <1>3, <1>4, <1>5, <1>6 DEF StreamStep

LEMMA TypeReset ==
  ASSUME TypeOK, NEW r \in Resets, ResetStep(r) PROVE TypeOK'
<1> USE DEF TypeOK, ResetPCs, conv, prompt, stream, reset, server
<1>1. CASE ResetRead(r)
  BY <1>1 DEF ResetRead
<1>2. CASE ResetClear(r)
  BY <1>2 DEF ResetClear
<1>3. CASE ResetCancel(r)
  BY <1>3 DEF ResetCancel, Cancel
<1>4. CASE ResetAbort(r)
  BY <1>4 DEF ResetAbort, EndRun
<1>5. CASE ResetAbortFails(r)
  BY <1>5 DEF ResetAbortFails
<1>6. CASE ResetDelete(r)
  BY <1>6 DEF ResetDelete, EndRun
<1>7. CASE ResetDeleteFails(r)
  BY <1>7 DEF ResetDeleteFails
<1> QED
  BY <1>1, <1>2, <1>3, <1>4, <1>5, <1>6, <1>7 DEF ResetStep

LEMMA TypeServer ==
  ASSUME TypeOK, NEW s \in Sessions, ServerStep(s) PROVE TypeOK'
<1> USE DEF TypeOK, conv, prompt, stream, reset, server
<1>1. CASE SessionIdle(s)
  BY <1>1 DEF SessionIdle, EndRun
<1>2. CASE SessionLost(s)
  BY <1>2 DEF SessionLost
<1> QED
  BY <1>1, <1>2 DEF ServerStep

LEMMA TypeNext == TypeOK /\ [Next]_vars => TypeOK'
<1> SUFFICES ASSUME TypeOK, [Next]_vars PROVE TypeOK'
  OBVIOUS
<1>1. CASE UNCHANGED vars
  BY <1>1 DEF TypeOK, vars, conv, prompt, stream, reset, server
<1>2. CASE Next
  BY <1>1, <1>2, TypePrompt, TypeStream, TypeReset, TypeServer DEF Next, Finished
<1> QED
  BY <1>1, <1>2

\* Every variable keeps its type in every reachable state.
THEOREM TypeCorrect == Spec => []TypeOK
<1>1. Init => TypeOK
  BY TypeInit
<1>2. TypeOK /\ [Next]_vars => TypeOK'
  BY TypeNext
<1> QED
  BY <1>1, <1>2, PTL DEF Spec

-----------------------------------------------------------------------------
(***************************************************************************)
(* The conversation lock.  LockOwnership and LockHasReleaser are not       *)
(* inductive: that a holder's stream is still to run its unlockConv        *)
(* depends on where the responder is, and that a retry no longer holds the *)
(* lock on what happened to the first attempt's stream.                    *)
(***************************************************************************)

\* Before its first stream a prompt has unlocked nothing.
BeforeStream(p) ==
    /\ pc[p] \in {"hint", "lock", "read"} => attempt[p] = 1
    /\ attempt[p] = 1 /\ pc[p] \in {"hint", "lock", "read", "create", "install", "open"}
         => phase[<<p, 1>>] = "off" /\ ~unlocked[p]
    /\ phase[<<p, 2>>] # "off" => attempt[p] = 2

\* A failed POST has cancelled its stream; who retries has unlocked.
AfterPostFailure(p) ==
    /\ pc[p] = "await" => cancelled[<<p, attempt[p]>>]
    /\ attempt[p] = 2 \/ pc[p] = "clear" => unlocked[p] /\ cancelled[<<p, 1>>]

\* The first stream and the lock.
StreamHoldsLock(p) ==
    /\ phase[<<p, 1>>] \in {"clear", "done"} => unlocked[p]
    /\ ~unlocked[p] /\ pc[p] \in {"post", "await", "consume", "end"}
         => phase[<<p, 1>>] \in {"reading", "blocked", "unlock"}
    /\ Listening(<<p, 1>>) => ~unlocked[p]

LockInv ==
    /\ LockOwnership
    /\ \A p \in Prompts : BeforeStream(p) /\ AfterPostFailure(p) /\ StreamHoldsLock(p)

LEMMA LockInit == Init => LockInv
  BY NilAssumption DEF Init, LockInv, LockOwnership, BeforeStream, AfterPostFailure,
     StreamHoldsLock, Listening, Open, Streams

\* unlockConv keeps ownership, if it is called by a prompt past its Lock.
LEMMA UnlockKeepsOwnership ==
  ASSUME TypeOK, LockOwnership, NEW p \in Prompts, Unlock(p),
         pc[p] \notin {"hint", "lock"}, pc'[p] \notin {"hint", "lock"},
         \A q \in Prompts \ {p} : pc'[q] = pc[q]
  PROVE  LockOwnership'
  BY NilAssumption DEF TypeOK, LockOwnership, Unlock

\* While the lock is free everybody past its Lock has unlocked.
LEMMA FreeLock ==
  ASSUME LockOwnership, promptMu = Nil, NEW q \in Prompts, pc[q] \notin {"hint", "lock"}
  PROVE  unlocked[q]
  BY NilAssumption DEF LockOwnership

LEMMA LockPrompt ==
  ASSUME TypeOK, LockInv, NEW p \in Prompts, PromptStep(p) PROVE LockInv'
<1> USE DEF TypeOK, LockInv, BeforeStream, AfterPostFailure, StreamHoldsLock,
            Listening, Open, Goto, Current, Streams, stream
<1>1. CASE HistoryHint(p)
  BY <1>1 DEF HistoryHint, LockOwnership, conv
<1>2. CASE AcquireLock(p)
  <2>1. promptMu = Nil /\ pc[p] = "lock" /\ ~unlocked[p]
    BY <1>2 DEF AcquireLock
  <2>2. \A q \in Prompts : pc[q] \notin {"hint", "lock"} => unlocked[q]
    BY <2>1, FreeLock
  <2>3. LockOwnership'
    BY <1>2, <2>1, <2>2 DEF AcquireLock, LockOwnership
  <2> QED BY <1>2, <2>3 DEF AcquireLock
<1>3. CASE ReadSession(p)
  BY <1>3 DEF ReadSession, LockOwnership, conv
<1>4. ASSUME NEW s \in Sessions, CreateSession(p, s) PROVE LockInv'
  BY <1>4 DEF CreateSession, LockOwnership, conv
<1>5. ASSUME NEW s \in Sessions, CreateAnswerLost(p, s) PROVE LockInv'
  <2>1. /\ Unlock(p) /\ pc[p] \notin {"hint", "lock"} /\ pc'[p] \notin {"hint", "lock"}
        /\ \A q \in Prompts \ {p} : pc'[q] = pc[q]
    BY <1>5 DEF CreateAnswerLost
  <2>2. LockOwnership'
    BY <2>1, UnlockKeepsOwnership
  <2> QED BY <1>5, <2>1, <2>2 DEF CreateAnswerLost, Unlock
<1>6. CASE CreateFails(p)
  <2>1. /\ Unlock(p) /\ pc[p] \notin {"hint", "lock"} /\ pc'[p] \notin {"hint", "lock"}
        /\ \A q \in Prompts \ {p} : pc'[q] = pc[q]
    BY <1>6 DEF CreateFails
  <2>2. LockOwnership'
    BY <2>1, UnlockKeepsOwnership
  <2> QED BY <1>6, <2>1, <2>2 DEF CreateFails, Unlock
<1>7. CASE InstallSession(p)
  BY <1>7 DEF InstallSession, LockOwnership
<1>8. CASE OpenStream(p)
  BY <1>8 DEF OpenStream, StartStream, LockOwnership
<1>9. CASE OpenFails(p)
  <2>1. /\ Unlock(p) /\ pc[p] \notin {"hint", "lock"} /\ pc'[p] \notin {"hint", "lock"}
        /\ \A q \in Prompts \ {p} : pc'[q] = pc[q]
    BY <1>9 DEF OpenFails
  <2>2. LockOwnership'
    BY <2>1, UnlockKeepsOwnership
  <2> QED BY <1>9, <2>1, <2>2 DEF OpenFails, Unlock
<1>10. CASE PostPrompt(p)
  BY <1>10 DEF PostPrompt, LockOwnership, conv
<1>11. CASE \E e \in Errors : PostFails(p, e)
  BY <1>11 DEF PostFails, Cancel, LockOwnership, conv
<1>12. CASE StreamStopped(p)
  <2>1. /\ Unlock(p) /\ pc[p] \notin {"hint", "lock"} /\ pc'[p] \notin {"hint", "lock"}
        /\ \A q \in Prompts \ {p} : pc'[q] = pc[q]
    BY <1>12 DEF StreamStopped, AfterFailure
  <2>2. LockOwnership'
    BY <2>1, UnlockKeepsOwnership
  <2> QED BY <1>12, <2>1, <2>2 DEF StreamStopped, AfterFailure, Unlock
<1>13. CASE StreamStopTimeout(p)
  <2>1. /\ Unlock(p) /\ pc[p] \notin {"hint", "lock"} /\ pc'[p] \notin {"hint", "lock"}
        /\ \A q \in Prompts \ {p} : pc'[q] = pc[q]
    BY <1>13 DEF StreamStopTimeout, AfterFailure
  <2>2. LockOwnership'
    BY <2>1, UnlockKeepsOwnership
  <2> QED BY <1>13, <2>1, <2>2 DEF StreamStopTimeout, AfterFailure, Unlock
<1>14. CASE ClearStale(p)
  BY <1>14 DEF ClearStale, LockOwnership
<1>15. CASE EndOfAnswer(p)
  BY <1>15 DEF EndOfAnswer, LockOwnership, conv
<1>16. CASE Abandon(p)
  BY <1>16 DEF Abandon, LockOwnership, conv
<1> QED
  BY <1>1, <1>2, <1>3, <1>4, <1>5, <1>6, <1>7, <1>8, <1>9, <1>10, <1>11, <1>12,
     <1>13, <1>14, <1>15, <1>16
  DEF PromptStep, PostAnswerLost, PostRefused, PostStale, Errors

LEMMA LockStream ==
  ASSUME TypeOK, LockInv, NEW p \in Prompts, NEW a \in {1, 2}, StreamStep(<<p, a>>)
  PROVE  LockInv'
<1> USE DEF TypeOK, LockInv, BeforeStream, AfterPostFailure, StreamHoldsLock,
            Listening, Open, Streams, StreamGoto, conv, prompt
<1>0. ASSUME Open(<<p, a>>), NEW w \in {"reading", "blocked"},
             phase' = [phase EXCEPT ![<<p, a>>] = w],
             UNCHANGED <<promptMu, pc, attempt, unlocked, cancelled>>
      PROVE  LockInv'
  BY <1>0 DEF LockOwnership
<1>1. CASE StreamBlocks(<<p, a>>)
  BY <1>0, <1>1 DEF StreamBlocks
<1>2. CASE StreamResumes(<<p, a>>)
  BY <1>0, <1>2 DEF StreamResumes
<1>5. CASE StreamEnds(<<p, a>>)
  BY <1>5 DEF StreamEnds, LockOwnership
<1>6. CASE StreamBreaks(<<p, a>>)
  BY <1>6 DEF StreamBreaks, LockOwnership
<1>3. CASE StreamUnlocks(<<p, a>>)
  <2>1. pc[p] \notin {"hint", "lock"}
    BY <1>3 DEF StreamUnlocks
  <2>2. Unlock(p) /\ UNCHANGED pc
    BY <1>3 DEF StreamUnlocks
  <2>3. LockOwnership'
    BY <2>1, <2>2, UnlockKeepsOwnership
  <2> QED
    BY <1>3, <2>2, <2>3 DEF StreamUnlocks, Unlock
<1>4. CASE StreamClears(<<p, a>>)
  BY <1>4 DEF StreamClears, LockOwnership
<1> QED
  BY <1>1, <1>2, <1>3, <1>4, <1>5, <1>6 DEF StreamStep

\* What resets and the server do touches neither lock nor readers; a reset
\* may cancel a stream.
LEMMA LockOthers ==
  ASSUME TypeOK, LockInv,
         UNCHANGED <<promptMu, pc, attempt, unlocked, phase>>,
         \A st \in Streams : cancelled[st] => cancelled'[st]
  PROVE  LockInv'
  BY DEF TypeOK, LockInv, LockOwnership, BeforeStream, AfterPostFailure,
         StreamHoldsLock, Listening, Open, Streams

LEMMA ResetFrame ==
  ASSUME TypeOK, NEW r \in Resets, ResetStep(r)
  PROVE  /\ UNCHANGED <<promptMu, activeCancelN, prompt, phase, session, seq, created, log>>
         /\ sessionID' \in {sessionID, Nil}
         /\ sessionID' # sessionID => rpc[r] = "clear" /\ rpc'[r] = "cancel"
         /\ \A st \in Streams : cancelled[st] => cancelled'[st]
  BY DEF TypeOK, ResetStep, ResetRead, ResetClear, ResetCancel, ResetAbort,
         ResetAbortFails, ResetDelete, ResetDeleteFails, EndRun, Cancel, conv,
         prompt, stream, server

LEMMA ServerFrame ==
  ASSUME NEW s \in Sessions, ServerStep(s)
  PROVE  UNCHANGED <<conv, prompt, reset, phase, session, cancelled, seq, created, log>>
  BY DEF ServerStep, SessionIdle, SessionLost, EndRun, conv, prompt, reset, stream

LEMMA LockNext == TypeOK /\ LockInv /\ [Next]_vars => LockInv'
<1> SUFFICES ASSUME TypeOK, LockInv, [Next]_vars PROVE LockInv'
  OBVIOUS
<1>1. ASSUME NEW p \in Prompts, PromptStep(p) PROVE LockInv'
  BY <1>1, LockPrompt
<1>2. ASSUME NEW st \in Streams, StreamStep(st) PROVE LockInv'
  <2>1. PICK p \in Prompts, a \in {1, 2} : st = <<p, a>>
    BY DEF Streams
  <2> QED BY <1>2, <2>1, LockStream
<1>3. ASSUME NEW r \in Resets, ResetStep(r) PROVE LockInv'
  BY <1>3, ResetFrame, LockOthers DEF prompt
<1>4. ASSUME NEW s \in Sessions, ServerStep(s) PROVE LockInv'
  BY <1>4, ServerFrame, LockOthers DEF prompt, conv
<1>5. CASE UNCHANGED vars
  BY <1>5, LockOthers DEF vars, conv, prompt, stream
<1> QED
  BY <1>1, <1>2, <1>3, <1>4, <1>5 DEF Next, Finished

LEMMA LockInvariant == Spec => [](TypeOK /\ LockInv)
<1>1. Init => TypeOK /\ LockInv
  BY TypeInit, LockInit
<1>2. TypeOK /\ LockInv /\ [Next]_vars => (TypeOK /\ LockInv)'
  BY TypeNext, LockNext
<1> QED
  BY <1>1, <1>2, PTL DEF Spec

\* The lock is held by exactly the prompt that took it and has not unlocked.
THEOREM LockIsOwned == Spec => []LockOwnership
  BY LockInvariant, PTL DEF LockInv

\* Whoever holds the lock, some goroutine will still release it.
THEOREM LockIsReleased == Spec => []LockHasReleaser
<1>1. TypeOK /\ LockInv => LockHasReleaser
  <2> SUFFICES ASSUME TypeOK, LockInv, NEW p \in Prompts, promptMu = p,
                      pc[p] \notin {"read", "create", "install", "open"}
               PROVE  phase[<<p, 1>>] \in {"reading", "blocked", "unlock"}
    BY DEF LockHasReleaser
  <2>1. ~unlocked[p] /\ pc[p] \notin {"hint", "lock"}
    BY DEF LockInv, LockOwnership
  <2>2. pc[p] # "clear"
    BY <2>1 DEF LockInv, AfterPostFailure
  <2>3. pc[p] \in {"post", "await", "consume", "end"}
    BY <2>1, <2>2 DEF TypeOK, PromptPCs
  <2> QED BY <2>1, <2>3 DEF LockInv, StreamHoldsLock
<1> QED
  BY <1>1, LockInvariant, PTL

\* Only the stream of a retry is ever listened to besides another one.
THEOREM OneAnswer == Spec => []OneAnswerAtATime
<1>1. TypeOK /\ LockInv => OneAnswerAtATime
  <2> SUFFICES ASSUME TypeOK, LockInv,
                      NEW p \in Prompts, NEW q \in Prompts,
                      Listening(<<p, 1>>), Listening(<<q, 1>>)
               PROVE  p = q
    BY DEF OneAnswerAtATime, Streams
  <2>1. promptMu = p
    BY DEF LockInv, LockOwnership, BeforeStream, StreamHoldsLock, Listening, Open, TypeOK, AfterPostFailure
  <2>2. promptMu = q
    BY DEF LockInv, LockOwnership, BeforeStream, StreamHoldsLock, Listening, Open, TypeOK, AfterPostFailure
  <2> QED BY <2>1, <2>2
<1> QED
  BY <1>1, LockInvariant, PTL

-----------------------------------------------------------------------------
(***************************************************************************)
(* The registered cancel function.  The sequence numbers are the argument: *)
(* they are handed out in order and never twice, so the comparison in      *)
(* clearActiveCancel finds out whether a newer stream has registered.      *)
(***************************************************************************)
SeqInv ==
    /\ \A st \in Streams : seq[st] <= activeCancelN /\ (phase[st] # "off" => seq[st] # 0)
    /\ \A st, su \in Streams : seq[st] = seq[su] /\ st # su => seq[st] = 0
    /\ NewestIsCancellable

LEMMA SeqInit == Init => SeqInv
  BY DEF Init, SeqInv, NewestIsCancellable, Listening, Open

LEMMA SeqPrompt ==
  ASSUME TypeOK, SeqInv, NEW p \in Prompts, PromptStep(p) PROVE SeqInv'
<1> USE DEF TypeOK, SeqInv, NewestIsCancellable, Listening, Open
<1> Current(p) \in Streams
  BY DEF TypeOK, Current, Streams
<1>1. CASE UNCHANGED <<stream, activeCancel, activeCancelN>>
  BY <1>1 DEF stream
<1>2. CASE OpenStream(p)
  BY <1>2 DEF OpenStream, StartStream
<1>3. CASE \E e \in Errors : PostFails(p, e)
  <2>1. UNCHANGED <<phase, seq, activeCancel, activeCancelN>>
        /\ cancelled' = [cancelled EXCEPT ![Current(p)] = TRUE]
    BY <1>3 DEF PostFails, Cancel, conv
  <2> QED BY <2>1
<1>4. PromptStep(p) => \/ UNCHANGED <<stream, activeCancel, activeCancelN>>
                       \/ OpenStream(p)
                       \/ \E e \in Errors : PostFails(p, e)
  BY DEF PromptStep, HistoryHint, AcquireLock, ReadSession, CreateSession,
         CreateAnswerLost, CreateFails, InstallSession, OpenFails, PostPrompt,
         PostAnswerLost, PostRefused, PostStale, StreamStopped, StreamStopTimeout,
         ClearStale, EndOfAnswer, Abandon, conv, Errors
<1> QED BY <1>1, <1>2, <1>3, <1>4

LEMMA SeqStream ==
  ASSUME TypeOK, SeqInv, NEW st \in Streams, StreamStep(st) PROVE SeqInv'
<1> USE DEF TypeOK, SeqInv, NewestIsCancellable, Listening, Open
\* A stream's goroutine moves on: it listens at most if it did before.
<1>1. ASSUME NEW w \in StreamPhases, phase' = [phase EXCEPT ![st] = w],
             phase[st] # "off", w \in {"reading", "blocked"} => Open(st),
             UNCHANGED <<cancelled, seq, activeCancel, activeCancelN>>
      PROVE  SeqInv'
  BY <1>1
<1>2. CASE StreamClears(st)
  <2>1. phase[st] = "clear" /\ phase' = [phase EXCEPT ![st] = "done"]
        /\ UNCHANGED <<cancelled, seq, activeCancelN>>
        /\ activeCancel' = IF activeCancelN = seq[st] THEN Nil ELSE activeCancel
    BY <1>2 DEF StreamClears, StreamGoto
  <2> QED BY <2>1
<1>3. StreamStep(st) => StreamClears(st) \/ \E w \in StreamPhases :
        /\ phase' = [phase EXCEPT ![st] = w]
        /\ phase[st] # "off"
        /\ w \in {"reading", "blocked"} => Open(st)
        /\ UNCHANGED <<cancelled, seq, activeCancel, activeCancelN>>
  BY DEF StreamStep, StreamBlocks, StreamResumes, StreamEnds, StreamBreaks,
         StreamUnlocks, StreamGoto, conv, StreamPhases
<1> QED BY <1>1, <1>2, <1>3

LEMMA SeqReset ==
  ASSUME TypeOK, SeqInv, NEW r \in Resets, ResetStep(r) PROVE SeqInv'
<1>1. CASE ResetCancel(r)
  BY <1>1, NilAssumption DEF ResetCancel, Cancel, TypeOK, SeqInv, NewestIsCancellable,
     Listening, Open, stream
<1>2. CASE UNCHANGED <<activeCancel, cancelled>>
  BY <1>2, ResetFrame DEF SeqInv, NewestIsCancellable, Listening, Open
<1> QED
  BY <1>1, <1>2 DEF ResetStep, ResetRead, ResetClear, ResetAbort, ResetAbortFails,
     ResetDelete, ResetDeleteFails, EndRun, conv, stream

LEMMA SeqNext == TypeOK /\ SeqInv /\ [Next]_vars => SeqInv'
<1> SUFFICES ASSUME TypeOK, SeqInv, [Next]_vars PROVE SeqInv'
  OBVIOUS
<1>1. CASE UNCHANGED vars
  BY <1>1 DEF vars, conv, stream, SeqInv, NewestIsCancellable, Listening, Open
<1>2. ASSUME NEW s \in Sessions, ServerStep(s) PROVE SeqInv'
  BY <1>2, ServerFrame DEF conv, SeqInv, NewestIsCancellable, Listening, Open
<1> QED
  BY <1>1, <1>2, SeqPrompt, SeqStream, SeqReset DEF Next, Finished

\* cancelActive always reaches the stream that registered last.
THEOREM NewestCancellable == Spec => []NewestIsCancellable
<1>1. Init => TypeOK /\ SeqInv
  BY TypeInit, SeqInit
<1>2. TypeOK /\ SeqInv /\ [Next]_vars => (TypeOK /\ SeqInv)'
  BY TypeNext, SeqNext
<1> QED
  BY <1>1, <1>2, PTL DEF Spec, SeqInv

-----------------------------------------------------------------------------
(***************************************************************************)
(* The session register.  Every id that waits to be installed was created  *)
(* for the prompt that waits, and is not the conversation's session yet.   *)
(***************************************************************************)
RegisterInv ==
    /\ sessionID \in created \cup {Nil}
    /\ \A p \in Prompts : pc[p] = "install" => sid[p] \in created \ {sessionID}
    /\ \A p, q \in Prompts :
          pc[p] = "install" /\ pc[q] = "install" /\ sid[p] = sid[q] => p = q

LEMMA NilIsNoSession == Nil \notin Sessions
  BY NilAssumption

LEMMA RegisterInit == Init => RegisterInv /\ Register!Init
  BY DEF Init, RegisterInv, Pending, Register!Init

\* A step that changes no id and starts or ends no installation.
LEMMA QuietStep ==
  ASSUME TypeOK, RegisterInv, UNCHANGED created,
         \A q \in Prompts : pc'[q] = "install" <=> pc[q] = "install",
         \A q \in Prompts : pc[q] = "install" => sid'[q] = sid[q],
         sessionID' \in {sessionID, Nil}
  PROVE  RegisterInv' /\ [Register!Next]_Register!vars
<1>1. Pending' = Pending
  BY DEF Pending
<1>2. RegisterInv'
  BY NilIsNoSession DEF RegisterInv, TypeOK
<1>3. CASE sessionID' = sessionID
  BY <1>1, <1>2, <1>3 DEF Register!vars
<1>4. CASE sessionID' # sessionID
  BY <1>1, <1>2, <1>4 DEF Register!Next, Register!Drop
<1> QED BY <1>3, <1>4

LEMMA RegisterPrompt ==
  ASSUME TypeOK, RegisterInv, NEW p \in Prompts, PromptStep(p)
  PROVE  RegisterInv' /\ [Register!Next]_Register!vars
<1>1. ASSUME NEW s \in Sessions, CreateSession(p, s)
      PROVE  RegisterInv' /\ [Register!Next]_Register!vars
  <2>1. /\ s \notin created /\ created' = created \cup {s} /\ pc[p] = "create"
        /\ pc' = [pc EXCEPT ![p] = "install"] /\ sid' = [sid EXCEPT ![p] = s]
        /\ UNCHANGED sessionID
    BY <1>1 DEF CreateSession, Goto, conv
  <2>2. s # sessionID
    BY <2>1, NilIsNoSession DEF RegisterInv, TypeOK
  <2>3. RegisterInv'
    BY <2>1, <2>2 DEF RegisterInv, TypeOK
  <2>4. Pending' = Pending \cup {s}
    BY <2>1 DEF Pending, TypeOK
  <2>5. (created \ Pending)' = created \ Pending
    BY <2>1, <2>4
  <2> QED BY <2>1, <2>3, <2>5 DEF Register!vars
<1>2. ASSUME NEW s \in Sessions, CreateAnswerLost(p, s)
      PROVE  RegisterInv' /\ [Register!Next]_Register!vars
  <2>1. /\ s \notin created /\ created' = created \cup {s} /\ pc[p] = "create"
        /\ pc' = [pc EXCEPT ![p] = "end"] /\ UNCHANGED <<sid, sessionID>>
    BY <1>2 DEF CreateAnswerLost, Goto
  <2>2. RegisterInv'
    BY <2>1 DEF RegisterInv, TypeOK
  <2>3. Pending' = Pending /\ Pending \subseteq created
    BY <2>1 DEF Pending, TypeOK, RegisterInv
  <2>4. Register!Waste(s)
    BY <2>1, <2>3 DEF Register!Waste
  <2> QED BY <2>2, <2>4 DEF Register!Next
<1>3. CASE InstallSession(p)
  <2>1. /\ pc[p] = "install" /\ pc' = [pc EXCEPT ![p] = "open"]
        /\ sessionID' = sid[p] /\ UNCHANGED <<sid, created>>
    BY <1>3 DEF InstallSession, Goto, server
  <2>2. RegisterInv'
    BY <2>1 DEF RegisterInv, TypeOK
  <2>3. Pending' = Pending \ {sid[p]} /\ sid[p] \in Pending
    BY <2>1 DEF Pending, TypeOK, RegisterInv
  <2>4. sid[p] \in created /\ sid[p] \in Sessions
    BY <2>1 DEF RegisterInv, TypeOK
  <2>5. Register!Install(sid[p])
    BY <2>1, <2>3, <2>4 DEF Register!Install
  <2> QED BY <2>2, <2>4, <2>5 DEF Register!Next
<1>4. ASSUME PromptStep(p), ~InstallSession(p),
             \A s \in Sessions : ~CreateSession(p, s) /\ ~CreateAnswerLost(p, s)
      PROVE  RegisterInv' /\ [Register!Next]_Register!vars
  <2> USE DEF TypeOK, Goto
  <2>1. pc[p] # "install" /\ pc'[p] # "install"
        /\ \A q \in Prompts \ {p} : pc'[q] = pc[q] /\ sid'[q] = sid[q]
    BY <1>4 DEF PromptStep, HistoryHint, AcquireLock, ReadSession, CreateFails,
       OpenStream, OpenFails, PostPrompt, PostAnswerLost, PostRefused, PostStale,
       PostFails, StreamStopped, StreamStopTimeout, AfterFailure, ClearStale,
       EndOfAnswer, Abandon
  <2>2. UNCHANGED created /\ sessionID' \in {sessionID, Nil}
    BY <1>4 DEF PromptStep, HistoryHint, AcquireLock, ReadSession, CreateFails,
       OpenStream, OpenFails, PostPrompt, PostAnswerLost, PostRefused, PostStale,
       PostFails, StreamStopped, StreamStopTimeout, AfterFailure, ClearStale,
       EndOfAnswer, Abandon, Accept, server, conv
  <2> QED BY <2>1, <2>2, QuietStep
<1> QED BY <1>1, <1>2, <1>3, <1>4

LEMMA RegisterNext ==
  TypeOK /\ RegisterInv /\ [Next]_vars => RegisterInv' /\ [Register!Next]_Register!vars
<1> SUFFICES ASSUME TypeOK, RegisterInv, [Next]_vars
             PROVE  RegisterInv' /\ [Register!Next]_Register!vars
  OBVIOUS
<1>1. ASSUME NEW p \in Prompts, PromptStep(p)
      PROVE  RegisterInv' /\ [Register!Next]_Register!vars
  BY <1>1, RegisterPrompt
<1>2. ASSUME NEW st \in Streams, StreamStep(st)
      PROVE  RegisterInv' /\ [Register!Next]_Register!vars
  <2>1. UNCHANGED <<sessionID, pc, sid, created>>
    BY <1>2 DEF StreamStep, StreamBlocks, StreamResumes, StreamEnds, StreamBreaks,
       StreamUnlocks, StreamClears, conv, prompt, server
  <2> QED BY <2>1, QuietStep
<1>3. ASSUME NEW r \in Resets, ResetStep(r)
      PROVE  RegisterInv' /\ [Register!Next]_Register!vars
  BY <1>3, ResetFrame, QuietStep DEF prompt
<1>4. ASSUME NEW s \in Sessions, ServerStep(s)
      PROVE  RegisterInv' /\ [Register!Next]_Register!vars
  BY <1>4, ServerFrame, QuietStep DEF prompt, conv
<1>5. CASE UNCHANGED vars
  BY <1>5, QuietStep DEF vars, prompt, conv, server
<1> QED BY <1>1, <1>2, <1>3, <1>4, <1>5 DEF Next, Finished

LEMMA RegisterInvariant == Spec => [](TypeOK /\ RegisterInv)
<1>1. Init => TypeOK /\ RegisterInv
  BY TypeInit, RegisterInit
<1>2. TypeOK /\ RegisterInv /\ [Next]_vars => (TypeOK /\ RegisterInv)'
  BY TypeNext, RegisterNext
<1> QED BY <1>1, <1>2, PTL DEF Spec

\* However prompts, retries and resets interleave, sessionID is a register
\* whose values are never used twice.
THEOREM ImplementsRegister == Spec => RegisterSpec
<1>1. Init => Register!Init
  BY RegisterInit
<1>2. TypeOK /\ RegisterInv /\ [Next]_vars => [Register!Next]_Register!vars
  BY RegisterNext
<1> QED
  BY <1>1, <1>2, RegisterInvariant, PTL DEF Spec, RegisterSpec, Register!Spec

\* A session that was dropped or replaced is never the conversation's again.
THEOREM SessionNeverReturns == Spec => RegisterNeverReturns
<1>1. TypeOK /\ [Register!Next]_Register!vars =>
        [\A s \in created \ Pending : sessionID # s => sessionID' # s]_Register!vars
  BY NilIsNoSession DEF TypeOK, Register!Next, Register!Install, Register!Drop,
     Register!Waste, Register!vars
<1> QED
  BY <1>1, TypeCorrect, ImplementsRegister, PTL
  DEF RegisterSpec, Register!Spec, RegisterNeverReturns, Register!NeverReturns

-----------------------------------------------------------------------------
(***************************************************************************)
(* What the server accepted.  A prompt in a log is past its POST and will  *)
(* not make another; a prompt in bootstrap form is in the session that its *)
(* responder created, and no two responders created the same.              *)
(***************************************************************************)
Posted(p) == pc[p] \in {"consume", "end"} \/ (pc[p] = "await" /\ err[p] = "other")

Creator(p) == pc[p] = "install" \/ includeHistory[p]

EntryOf(s, i) ==
    LET p == log[s][i].prompt IN
    /\ p \in Prompts /\ Posted(p) /\ sid[p] = s
    /\ log[s][i].bootstrap => includeHistory[p]

ResponderOf(p) ==
    /\ sid[p] \in created \cup {Nil}
    /\ pc[p] \in {"hint", "lock", "read"} => ~includeHistory[p]
    /\ pc[p] = "install" => sid[p] # Nil

OneCreator ==
    \A p, q \in Prompts :
        Creator(p) /\ Creator(q) /\ sid[p] = sid[q] /\ sid[p] # Nil => p = q

LogInv ==
    /\ \A s \in Sessions : \A i \in DOMAIN log[s] : EntryOf(s, i)
    /\ \A p \in Prompts : ResponderOf(p)
    /\ OneCreator
    /\ AcceptedAtMostOnce

LEMMA LogInit == Init => LogInv
  BY DEF Init, LogInv, ResponderOf, OneCreator, Creator, AcceptedAtMostOnce

LEMMA NotPosted ==
  ASSUME LogInv, NEW p \in Prompts, ~Posted(p)
  PROVE  \A s \in Sessions : \A i \in DOMAIN log[s] : log[s][i].prompt # p
  BY DEF LogInv, EntryOf

\* Entries of others than p, when the step is p's own.
LEMMA EntriesKept ==
  ASSUME LogInv, NEW p \in Prompts, ~Posted(p), UNCHANGED log,
         \A q \in Prompts \ {p} :
             /\ pc'[q] = pc[q] /\ err'[q] = err[q] /\ sid'[q] = sid[q]
             /\ includeHistory'[q] = includeHistory[q]
  PROVE  \A s \in Sessions : \A i \in DOMAIN log'[s] : EntryOf(s, i)'
<1> SUFFICES ASSUME NEW s \in Sessions, NEW i \in DOMAIN log[s]  PROVE EntryOf(s, i)'
  OBVIOUS
<1>1. EntryOf(s, i) /\ log[s][i].prompt \in Prompts \ {p}
  BY NotPosted DEF LogInv, EntryOf
<1> QED BY <1>1 DEF EntryOf, Posted

\* A step of responder p that neither posts nor takes up another session.
LEMMA LogKept ==
  ASSUME TypeOK, LogInv, NEW p \in Prompts, UNCHANGED <<log, sid, includeHistory>>,
         created \subseteq created',
         \A q \in Prompts \ {p} : pc'[q] = pc[q] /\ err'[q] = err[q],
         Posted(p) => Posted(p)',
         pc'[p] \in {"hint", "lock", "read"} => ~includeHistory[p],
         pc'[p] = "install" => pc[p] = "install"
  PROVE  LogInv'
<1>1. \A q \in Prompts : Posted(q) => Posted(q)'
  BY DEF Posted
<1>2. \A q \in Prompts : Creator(q)' => Creator(q)
  BY DEF Creator
<1>3. \A s \in Sessions : \A i \in DOMAIN log'[s] : EntryOf(s, i)'
  BY <1>1 DEF LogInv, EntryOf
<1>4. \A q \in Prompts : ResponderOf(q)'
  BY DEF LogInv, ResponderOf
<1>5. OneCreator'
  BY <1>2 DEF LogInv, OneCreator
<1>6. AcceptedAtMostOnce'
  BY DEF LogInv, AcceptedAtMostOnce
<1> QED BY <1>3, <1>4, <1>5, <1>6 DEF LogInv

\* A prompt that is posted was not posted before.
LEMMA LogAccepts ==
  ASSUME TypeOK, LogInv, NEW p \in Prompts, pc[p] = "post", Accept(p),
         UNCHANGED <<sid, includeHistory>>,
         \A q \in Prompts \ {p} : pc'[q] = pc[q] /\ err'[q] = err[q],
         Posted(p)', pc'[p] \in {"consume", "await"}
  PROVE  LogInv'
<1> DEFINE e == [prompt |-> p, bootstrap |-> includeHistory[p],
                 history |-> includeHistory[p] /\ fetched[p]]
           n == Len(log[sid[p]]) + 1
<1>1. /\ sid[p] \in Sessions /\ log[sid[p]] \in Seq(Sent) /\ e \in Sent
      /\ log' = [log EXCEPT ![sid[p]] = Append(@, e)] /\ created' = created
  BY DEF Accept, TypeOK, Sent
<1>2. /\ DOMAIN log'[sid[p]] = 1..n /\ DOMAIN log[sid[p]] = 1..(n - 1) /\ n \in Nat
      /\ log'[sid[p]][n] = e
      /\ \A i \in 1..(n - 1) : log'[sid[p]][i] = log[sid[p]][i]
      /\ \A s \in Sessions \ {sid[p]} : log'[s] = log[s]
  BY <1>1 DEF TypeOK
<1>3. ASSUME NEW s \in Sessions, NEW i \in DOMAIN log'[s]
      PROVE  \/ s = sid[p] /\ i = n /\ log'[s][i].prompt = p
             \/ i \in DOMAIN log[s] /\ log'[s][i] = log[s][i] /\ log[s][i].prompt # p
  <2>1. \A j \in DOMAIN log[s] : log[s][j].prompt # p
    BY DEF LogInv, EntryOf, Posted
  <2>2. CASE s = sid[p]
    BY <2>1, <2>2, <1>2, <1>3
  <2>3. CASE s # sid[p]
    BY <2>1, <2>3, <1>2, <1>3
  <2> QED BY <2>2, <2>3
<1>4. ASSUME NEW s \in Sessions, NEW i \in DOMAIN log'[s]  PROVE EntryOf(s, i)'
  <2>1. CASE s = sid[p] /\ i = n
    BY <2>1, <1>2 DEF EntryOf
  <2>2. CASE i \in DOMAIN log[s] /\ log'[s][i] = log[s][i] /\ log[s][i].prompt # p
    BY <2>2 DEF LogInv, EntryOf, Posted
  <2> QED BY <1>3, <2>1, <2>2
<1>5. \A q \in Prompts : ResponderOf(q)'
  BY <1>1 DEF LogInv, ResponderOf
<1>6. OneCreator'
  BY DEF LogInv, OneCreator, Creator
<1>7. AcceptedAtMostOnce'
  BY <1>3 DEF LogInv, AcceptedAtMostOnce
<1> QED BY <1>4, <1>5, <1>6, <1>7 DEF LogInv

LEMMA LogPrompt ==
  ASSUME TypeOK, RegisterInv, LogInv, NEW p \in Prompts, PromptStep(p)
  PROVE  LogInv'
<1> USE DEF TypeOK, Goto, Posted
<1>1. CASE HistoryHint(p) \/ AcquireLock(p)
  BY <1>1, LogKept DEF HistoryHint, AcquireLock, LogInv, ResponderOf, server
<1>2. CASE ReadSession(p)
  <2>1. /\ pc[p] = "read" /\ ~includeHistory[p] /\ pc'[p] \in {"create", "open"}
        /\ sid' = [sid EXCEPT ![p] = sessionID] /\ sessionID \in created \cup {Nil}
        /\ \A q \in Prompts \ {p} : pc'[q] = pc[q] /\ sid'[q] = sid[q]
        /\ UNCHANGED <<err, includeHistory, created, log>>
    BY <1>2 DEF ReadSession, RegisterInv, LogInv, ResponderOf, server
  <2>2. ~Posted(p)
    BY <2>1
  <2>3. \A s \in Sessions : \A i \in DOMAIN log'[s] : EntryOf(s, i)'
    BY <2>1, <2>2, EntriesKept
  <2>4. \A q \in Prompts : ResponderOf(q)'
    BY <2>1 DEF LogInv, ResponderOf
  <2>5. OneCreator'
    BY <2>1 DEF LogInv, OneCreator, Creator
  <2>6. AcceptedAtMostOnce'
    BY <2>1 DEF LogInv, AcceptedAtMostOnce
  <2> QED BY <2>3, <2>4, <2>5, <2>6 DEF LogInv
<1>3. ASSUME NEW s \in Sessions, CreateSession(p, s)  PROVE LogInv'
  <2>1. /\ pc[p] = "create" /\ s \notin created /\ created' = created \cup {s}
        /\ pc'[p] = "install" /\ sid' = [sid EXCEPT ![p] = s] /\ s # Nil
        /\ \A q \in Prompts \ {p} : pc'[q] = pc[q] /\ sid'[q] = sid[q] /\ sid[q] # s
        /\ UNCHANGED <<err, includeHistory, log>>
    BY <1>3, NilIsNoSession DEF CreateSession, LogInv, ResponderOf
  <2>2. ~Posted(p)
    BY <2>1
  <2>3. \A t \in Sessions : \A i \in DOMAIN log'[t] : EntryOf(t, i)'
    BY <2>1, <2>2, EntriesKept
  <2>4. \A q \in Prompts : ResponderOf(q)'
    BY <2>1 DEF LogInv, ResponderOf
  <2>5. OneCreator'
    BY <2>1 DEF LogInv, OneCreator, Creator
  <2>6. AcceptedAtMostOnce'
    BY <2>1 DEF LogInv, AcceptedAtMostOnce
  <2> QED BY <2>3, <2>4, <2>5, <2>6 DEF LogInv
<1>4. ASSUME NEW s \in Sessions, CreateAnswerLost(p, s)  PROVE LogInv'
  BY <1>4, LogKept DEF CreateAnswerLost
<1>5. CASE CreateFails(p)
  BY <1>5, LogKept DEF CreateFails, server
<1>6. CASE InstallSession(p)
  <2>1. /\ pc[p] = "install" /\ pc'[p] = "open"
        /\ includeHistory' = [includeHistory EXCEPT ![p] = TRUE]
        /\ \A q \in Prompts \ {p} : pc'[q] = pc[q] /\ includeHistory'[q] = includeHistory[q]
        /\ UNCHANGED <<err, sid, created, log>>
    BY <1>6 DEF InstallSession, server
  <2>2. \A q \in Prompts : Creator(q)' => Creator(q)
    BY <2>1 DEF Creator
  <2>3. ~Posted(p)
    BY <2>1
  <2>4. \A t \in Sessions : \A i \in DOMAIN log'[t] : EntryOf(t, i)'
    BY <2>1, <2>3, EntriesKept
  <2>5. \A q \in Prompts : ResponderOf(q)'
    BY <2>1 DEF LogInv, ResponderOf
  <2>6. OneCreator'
    BY <2>1, <2>2 DEF LogInv, OneCreator
  <2>7. AcceptedAtMostOnce'
    BY <2>1 DEF LogInv, AcceptedAtMostOnce
  <2> QED BY <2>4, <2>5, <2>6, <2>7 DEF LogInv
<1>7. CASE OpenStream(p) \/ OpenFails(p)
  BY <1>7, LogKept DEF OpenStream, OpenFails, server
<1>8. CASE PostPrompt(p)
  <2>1. /\ pc[p] = "post" /\ Accept(p) /\ pc'[p] = "consume" /\ UNCHANGED <<sid, includeHistory>>
        /\ \A q \in Prompts \ {p} : pc'[q] = pc[q] /\ err'[q] = err[q]
    BY <1>8 DEF PostPrompt
  <2> QED BY <2>1, LogAccepts
<1>9. CASE PostAnswerLost(p)
  <2>1. /\ pc[p] = "post" /\ Accept(p) /\ pc'[p] = "await" /\ err'[p] = "other"
        /\ UNCHANGED <<sid, includeHistory>>
        /\ \A q \in Prompts \ {p} : pc'[q] = pc[q] /\ err'[q] = err[q]
    BY <1>9 DEF PostAnswerLost, PostFails
  <2> QED BY <2>1, LogAccepts
<1>10. CASE PostRefused(p) \/ PostStale(p)
  BY <1>10, LogKept DEF PostRefused, PostStale, PostFails, server
<1>11. CASE StreamStopped(p) \/ StreamStopTimeout(p)
  BY <1>11, LogKept DEF StreamStopped, StreamStopTimeout, AfterFailure, server
<1>12. CASE ClearStale(p)
  BY <1>12, LogKept DEF ClearStale, server
<1>13. CASE EndOfAnswer(p) \/ Abandon(p)
  BY <1>13, LogKept DEF EndOfAnswer, Abandon, server
<1> QED
  BY <1>1, <1>2, <1>3, <1>4, <1>5, <1>6, <1>7, <1>8, <1>9, <1>10, <1>11, <1>12, <1>13
  DEF PromptStep

\* The other goroutines and the server leave responders and logs alone.
LEMMA LogOthers ==
  ASSUME LogInv, UNCHANGED <<pc, sid, includeHistory, err, created, log>>
  PROVE  LogInv'
  BY DEF LogInv, EntryOf, Posted, ResponderOf, OneCreator, Creator, AcceptedAtMostOnce

LEMMA LogNext == TypeOK /\ RegisterInv /\ LogInv /\ [Next]_vars => LogInv'
<1> SUFFICES ASSUME TypeOK, RegisterInv, LogInv, [Next]_vars PROVE LogInv'
  OBVIOUS
<1>1. ASSUME NEW p \in Prompts, PromptStep(p) PROVE LogInv'
  BY <1>1, LogPrompt
<1>2. ASSUME NEW st \in Streams, StreamStep(st) PROVE LogInv'
  <2>1. UNCHANGED <<pc, sid, includeHistory, err, created, log>>
    BY <1>2 DEF StreamStep, StreamBlocks, StreamResumes, StreamEnds, StreamBreaks,
       StreamUnlocks, StreamClears, prompt, server
  <2> QED BY <2>1, LogOthers
<1>3. ASSUME NEW r \in Resets, ResetStep(r) PROVE LogInv'
  BY <1>3, ResetFrame, LogOthers DEF prompt
<1>4. ASSUME NEW s \in Sessions, ServerStep(s) PROVE LogInv'
  BY <1>4, ServerFrame, LogOthers DEF prompt
<1>5. CASE UNCHANGED vars
  BY <1>5, LogOthers DEF vars, prompt, server
<1> QED BY <1>1, <1>2, <1>3, <1>4, <1>5 DEF Next, Finished

LEMMA LogInvariant == Spec => []LogInv
<1>1. Init => TypeOK /\ RegisterInv /\ LogInv
  BY TypeInit, RegisterInit, LogInit
<1>2. TypeOK /\ RegisterInv /\ LogInv /\ [Next]_vars => (TypeOK /\ RegisterInv /\ LogInv)'
  BY TypeNext, RegisterNext, LogNext
<1> QED BY <1>1, <1>2, PTL DEF Spec

\* A message is accepted by one session at most, and once, though its POST
\* may be retried and the answers to POSTs may be lost.
THEOREM AcceptedOnce == Spec => []AcceptedAtMostOnce
<1>1. LogInv => AcceptedAtMostOnce
  BY DEF LogInv
<1> QED BY <1>1, LogInvariant, PTL

\* No session is told twice how the conversation began.
THEOREM BootstrappedOnce == Spec => []BootstrappedAtMostOnce
<1>1. ASSUME LogInv, NEW s \in Sessions, NEW i \in DOMAIN log[s], NEW j \in DOMAIN log[s],
             log[s][i].bootstrap, log[s][j].bootstrap
      PROVE  i = j
  <2>1. /\ EntryOf(s, i) /\ EntryOf(s, j) /\ s # Nil
    BY <1>1, NilIsNoSession DEF LogInv
  <2>2. log[s][i].prompt = log[s][j].prompt
    BY <1>1, <2>1 DEF LogInv, EntryOf, OneCreator, Creator
  <2> QED BY <1>1, <2>2 DEF LogInv, AcceptedAtMostOnce
<1>2. LogInv => BootstrappedAtMostOnce
  BY <1>1 DEF BootstrappedAtMostOnce
<1> QED BY <1>2, LogInvariant, PTL

-----------------------------------------------------------------------------
(***************************************************************************)
(* What "not found" says stays true, unless it is misread: a session that  *)
(* is gone does not come back, and the responder keeps its id until it has *)
(* cleared it.                                                             *)
(***************************************************************************)
ToldStale(p) == pc[p] = "clear" \/ (pc[p] = "await" /\ err[p] = "stale")

StaleInv ==
    \A p \in Prompts :
        ToldStale(p) => err[p] = "stale" /\ ("misread" \in Faults \/ sid[p] \notin live)

\* Who is told "not found", by a step of its own, was told the truth.
LEMMA StalePrompt ==
  ASSUME TypeOK, LogInv, StaleInv, NEW p \in Prompts, PromptStep(p) PROVE StaleInv'
<1> USE DEF TypeOK, Goto
<1>1. CASE HistoryHint(p) \/ AcquireLock(p) \/ ReadSession(p) \/ InstallSession(p)
  BY <1>1 DEF HistoryHint, AcquireLock, ReadSession, InstallSession, StaleInv, ToldStale, server
<1>2. ASSUME NEW s \in Sessions, CreateSession(p, s) \/ CreateAnswerLost(p, s) PROVE StaleInv'
  <2>1. /\ s \notin created /\ live' = live \cup {s} /\ pc'[p] \in {"install", "end"}
        /\ \A q \in Prompts \ {p} : pc'[q] = pc[q] /\ sid'[q] = sid[q]
        /\ UNCHANGED err
    BY <1>2 DEF CreateSession, CreateAnswerLost
  <2>2. \A q \in Prompts : sid[q] # s
    BY <2>1, NilIsNoSession DEF LogInv, ResponderOf
  <2> QED BY <2>1, <2>2 DEF StaleInv, ToldStale
<1>3. CASE CreateFails(p) \/ OpenStream(p) \/ OpenFails(p) \/ ClearStale(p)
             \/ EndOfAnswer(p) \/ Abandon(p)
  BY <1>3 DEF CreateFails, OpenStream, OpenFails, ClearStale, EndOfAnswer, Abandon, StaleInv,
              ToldStale, server
<1>4. CASE PostPrompt(p)
  BY <1>4 DEF PostPrompt, Accept, StaleInv, ToldStale
<1>5. CASE PostAnswerLost(p) \/ PostRefused(p) \/ PostStale(p)
  BY <1>5 DEF PostAnswerLost, PostRefused, PostStale, PostFails, ReadsAsStale, Accept, StaleInv,
              ToldStale, server
<1>6. CASE StreamStopped(p) \/ StreamStopTimeout(p)
  BY <1>6 DEF StreamStopped, StreamStopTimeout, AfterFailure, StaleInv, ToldStale, server
<1> QED
  BY <1>1, <1>2, <1>3, <1>4, <1>5, <1>6 DEF PromptStep

LEMMA StaleNext == TypeOK /\ LogInv /\ StaleInv /\ [Next]_vars => StaleInv'
<1> SUFFICES ASSUME TypeOK, LogInv, StaleInv, [Next]_vars PROVE StaleInv'
  OBVIOUS
<1>1. ASSUME UNCHANGED <<pc, err, sid>>, live' \subseteq live PROVE StaleInv'
  BY <1>1 DEF StaleInv, ToldStale
<1>2. ASSUME NEW p \in Prompts, PromptStep(p) PROVE StaleInv'
  BY <1>2, StalePrompt
<1>3. ASSUME NEW st \in Streams, StreamStep(st) PROVE StaleInv'
  BY <1>1, <1>3 DEF StreamStep, StreamBlocks, StreamResumes, StreamEnds, StreamBreaks,
     StreamUnlocks, StreamClears, prompt, server
<1>4. ASSUME NEW r \in Resets, ResetStep(r) PROVE StaleInv'
  BY <1>1, <1>4 DEF ResetStep, ResetRead, ResetClear, ResetCancel, ResetAbort,
     ResetAbortFails, ResetDelete, ResetDeleteFails, prompt, server
<1>5. ASSUME NEW s \in Sessions, ServerStep(s) PROVE StaleInv'
  BY <1>1, <1>5 DEF ServerStep, SessionIdle, SessionLost, prompt
<1>6. CASE UNCHANGED vars
  BY <1>1, <1>6 DEF vars, prompt, server
<1> QED
  BY <1>2, <1>3, <1>4, <1>5, <1>6 DEF Next, Finished

\* Only a reset and a stale prompt's clearSessionIDIfMatch take the session away.
LEMMA WhoDrops ==
  ASSUME TypeOK, LogInv, StaleInv, [Next]_vars, sessionID # Nil, sessionID' = Nil
  PROVE  \/ sessionID \notin live
         \/ \E p \in Prompts : ToldGone(p, sessionID)
         \/ \E r \in Resets : rpc[r] = "clear" /\ rpc'[r] = "cancel"
<1>1. ASSUME NEW p \in Prompts, PromptStep(p) PROVE sessionID \notin live \/ ToldGone(p, sessionID)
  <2>1. CASE ClearStale(p)
    BY <2>1 DEF ClearStale, StaleInv, ToldStale, ToldGone
  <2>2. CASE InstallSession(p)
    BY <2>2 DEF InstallSession, LogInv, ResponderOf
  <2>3. CASE UNCHANGED sessionID
    BY <2>3
  <2>4. ClearStale(p) \/ InstallSession(p) \/ UNCHANGED sessionID
    BY <1>1 DEF PromptStep, HistoryHint, AcquireLock, ReadSession, CreateSession,
       CreateAnswerLost, CreateFails, OpenStream, OpenFails, PostPrompt, PostAnswerLost,
       PostRefused, PostStale, PostFails, StreamStopped, StreamStopTimeout, EndOfAnswer,
       Abandon, conv
  <2> QED BY <2>1, <2>2, <2>3, <2>4
<1>2. ASSUME NEW st \in Streams, StreamStep(st) PROVE UNCHANGED sessionID
  BY <1>2 DEF StreamStep, StreamBlocks, StreamResumes, StreamEnds, StreamBreaks,
     StreamUnlocks, StreamClears, conv
<1>3. ASSUME NEW r \in Resets, ResetStep(r) PROVE rpc[r] = "clear" /\ rpc'[r] = "cancel"
  BY <1>3, ResetFrame
<1>4. ASSUME NEW s \in Sessions, ServerStep(s) PROVE UNCHANGED sessionID
  BY <1>4, ServerFrame DEF conv
<1>5. CASE UNCHANGED vars
  BY <1>5 DEF vars, conv
<1> QED
  BY <1>1, <1>2, <1>3, <1>4, <1>5 DEF Next, Finished

(***************************************************************************)
(* Whatever other prompts and resets have made of the conversation since,  *)
(* a prompt that was told "not found" takes away no session but one that   *)
(* is gone from the server, or, where refusals are misread, one it was     *)
(* told so of; else only a reset does.                                     *)
(***************************************************************************)
THEOREM NoLiveSessionIsDropped == Spec => DroppedOnlyWhenGone
<1>1. Init => StaleInv
  BY DEF Init, StaleInv, ToldStale
<1>2. TypeOK /\ LogInv /\ StaleInv /\ [Next]_vars => StaleInv'
  BY StaleNext
<1>3. TypeOK /\ LogInv /\ StaleInv /\ [Next]_vars =>
        [sessionID # Nil /\ sessionID' = Nil =>
           \/ sessionID \notin live
           \/ \E p \in Prompts : ToldGone(p, sessionID)
           \/ \E r \in Resets : rpc[r] = "clear" /\ rpc'[r] = "cancel"]_vars
  BY WhoDrops
<1> QED
  BY <1>1, <1>2, <1>3, TypeCorrect, LogInvariant, PTL DEF Spec, DroppedOnlyWhenGone

-----------------------------------------------------------------------------
(***************************************************************************)
(* The whole answer.  AnswerIsComplete is about streams nobody disturbs:   *)
(* no connection or session is lost, no accepted prompt is taken for a     *)
(* failed one and no session for a lost one, and no reset has cancelled    *)
(* yet.  Then the lock keeps the runs of the conversation apart, so that   *)
(* the session.idle a stream sees is about its own prompt.                 *)
(***************************************************************************)
Reliable == Faults \cap {"postLost", "eof", "sessionLost", "misread"} = {}
NoResetYet == \A r \in Resets : rpc[r] \in {"read", "clear", "cancel"}

\* The prompt's stream listens to session s, which has not become idle.
Waits(p, s) == Listening(<<p, 1>>) /\ ~idle[<<p, 1>>] /\ session[<<p, 1>>] = s

WholeAnswerOf(p) ==
    /\ attempt[p] = 1 /\ pc[p] # "clear" /\ err[p] # "stale"
    /\ pc[p] \in {"install", "open", "post"} => sid[p] \in live
    /\ phase[<<p, 1>>] = "off" => ~idle[<<p, 1>>]
    /\ cancelled[<<p, 1>>] => pc[p] \in {"await", "end"}
    /\ pc[p] = "post" => Waits(p, sid[p])
    /\ \A s \in Sessions : p \in running[s] => pc[p] \in {"consume", "end"} /\ Waits(p, s)

AnswerInv ==
    NoResetYet => sessionID \in live \cup {Nil} /\ \A p \in Prompts : WholeAnswerOf(p)

LEMMA AnswerInit == Init => AnswerInv
  BY DEF Init, AnswerInv, WholeAnswerOf, Streams

\* While the server works for one prompt, no other has got to its POST.
LEMMA RunsExclude ==
  ASSUME TypeOK, LockInv, AnswerInv, NoResetYet, NEW p \in Prompts, NEW q \in Prompts,
         NEW s \in Sessions, pc[p] = "post", q \in running[s]
  PROVE  FALSE
<1>1. Listening(<<p, 1>>) /\ Listening(<<q, 1>>) /\ pc[q] \in {"consume", "end"}
  BY DEF AnswerInv, WholeAnswerOf, Waits
<1>2. ~unlocked[p] /\ ~unlocked[q]
  BY <1>1 DEF LockInv, StreamHoldsLock
<1>3. promptMu = p /\ promptMu = q
  BY <1>1, <1>2 DEF LockInv, LockOwnership
<1> QED BY <1>1, <1>3

\* A prompt whose own step leaves its stream, the runs and the others alone.
LEMMA AnswerKept ==
  ASSUME TypeOK, AnswerInv, NEW p \in Prompts,
         UNCHANGED <<rpc, stream, running, attempt, err>>, live \subseteq live',
         sessionID' \in live' \cup {Nil} \/ sessionID' = sessionID,
         \A q \in Prompts \ {p} : pc'[q] = pc[q] /\ sid'[q] = sid[q],
         pc'[p] \notin {"clear", "post"},
         pc'[p] \in {"install", "open"} => sid'[p] \in live' \/ ~NoResetYet,
         pc[p] \in {"consume", "end", "await"} => pc'[p] = "end",
         pc[p] = "post" => pc'[p] = "consume"
  PROVE  AnswerInv'
<1> SUFFICES ASSUME NoResetYet' PROVE sessionID' \in live' \cup {Nil} /\ \A q \in Prompts : WholeAnswerOf(q)'
  BY DEF AnswerInv
<1>1. NoResetYet /\ sessionID \in live \cup {Nil} /\ \A q \in Prompts : WholeAnswerOf(q)
  BY DEF NoResetYet, AnswerInv
<1>2. \A q \in Prompts, s \in Sessions : Waits(q, s)' <=> Waits(q, s)
  BY DEF Waits, Listening, Open, stream
<1>3. ASSUME NEW q \in Prompts \ {p} PROVE WholeAnswerOf(q)'
  BY <1>1, <1>2 DEF WholeAnswerOf, Waits, Listening, Open, stream
<1>4. WholeAnswerOf(p)'
  BY <1>1, <1>2 DEF WholeAnswerOf, stream
<1> QED BY <1>1, <1>3, <1>4

LEMMA AnswerPrompt ==
  ASSUME Reliable, TypeOK, LockInv, AnswerInv, NEW p \in Prompts, PromptStep(p)
  PROVE  AnswerInv'
<1> SUFFICES ASSUME NoResetYet' PROVE AnswerInv'
  BY DEF AnswerInv
<1>0. NoResetYet /\ sessionID \in live \cup {Nil} /\ \A q \in Prompts : WholeAnswerOf(q)
  <2>1. UNCHANGED rpc
    BY DEF PromptStep, HistoryHint, AcquireLock, ReadSession, CreateSession,
       CreateAnswerLost, CreateFails, InstallSession, OpenStream, OpenFails, PostPrompt,
       PostAnswerLost, PostRefused, PostStale, PostFails, StreamStopped,
       StreamStopTimeout, ClearStale, EndOfAnswer, Abandon, reset
  <2> QED BY <2>1 DEF NoResetYet, AnswerInv
<1>a. attempt[p] = 1 /\ Current(p) = <<p, 1>> /\ <<p, 1>> \in Streams
  BY <1>0 DEF WholeAnswerOf, Current, Streams
<1> USE DEF TypeOK, Goto
<1>1. CASE HistoryHint(p) \/ AcquireLock(p)
  BY <1>1, AnswerKept DEF HistoryHint, AcquireLock, server, reset, conv
<1>2. CASE ReadSession(p)
  BY <1>0, <1>2, AnswerKept DEF ReadSession, server, reset, conv
<1>3. ASSUME NEW s \in Sessions, CreateSession(p, s) \/ CreateAnswerLost(p, s) PROVE AnswerInv'
  BY <1>3, AnswerKept DEF CreateSession, CreateAnswerLost, reset, conv
<1>4. CASE CreateFails(p) \/ OpenFails(p)
  BY <1>4, AnswerKept DEF CreateFails, OpenFails, server, reset
<1>5. CASE InstallSession(p)
  BY <1>0, <1>5, AnswerKept DEF InstallSession, WholeAnswerOf, server, reset
<1>6. CASE OpenStream(p)
  <2>1. /\ pc[p] = "open" /\ pc' = [pc EXCEPT ![p] = "post"]
        /\ phase' = [phase EXCEPT ![<<p, 1>>] = "reading"]
        /\ session' = [session EXCEPT ![<<p, 1>>] = sid[p]]
        /\ UNCHANGED <<sessionID, sid, attempt, err, cancelled, idle, rpc, live, running>>
    BY <1>a, <1>6 DEF OpenStream, StartStream, server, reset
  <2>2. phase[<<p, 1>>] = "off"
    BY <1>a, <2>1 DEF LockInv, BeforeStream
  <2>3. ~idle[<<p, 1>>] /\ ~cancelled[<<p, 1>>] /\ sid[p] \in live
    BY <1>0, <2>1, <2>2 DEF WholeAnswerOf
  <2>4. Waits(p, sid[p])'
    BY <1>a, <2>1, <2>3 DEF Waits, Listening, Open
  <2>5. WholeAnswerOf(p)'
    BY <1>0, <1>a, <2>1, <2>3, <2>4 DEF WholeAnswerOf
  <2>6. ASSUME NEW q \in Prompts \ {p} PROVE WholeAnswerOf(q)'
    <3>1. <<q, 1>> \in Streams /\ <<q, 1>> # <<p, 1>>
      BY DEF Streams
    <3>2. /\ phase'[<<q, 1>>] = phase[<<q, 1>>] /\ session'[<<q, 1>>] = session[<<q, 1>>]
          /\ pc'[q] = pc[q]
      BY <2>1, <3>1
    <3>3. \A s : Waits(q, s)' <=> Waits(q, s)
      BY <2>1, <3>2 DEF Waits, Listening, Open
    <3> QED BY <1>0, <2>1, <3>2, <3>3 DEF WholeAnswerOf
  <2> QED BY <1>0, <2>1, <2>5, <2>6 DEF AnswerInv
<1>7. CASE PostPrompt(p)
  <2>1. /\ pc[p] = "post" /\ pc' = [pc EXCEPT ![p] = "consume"] /\ sid[p] \in Sessions
        /\ running' = [running EXCEPT ![sid[p]] = @ \cup {p}]
        /\ UNCHANGED <<sessionID, sid, attempt, err, stream, rpc, live>>
    BY <1>7 DEF PostPrompt, Accept, conv, reset
  <2>2. \A q \in Prompts : \A s : Waits(q, s)' <=> Waits(q, s)
    BY <2>1 DEF Waits, Listening, Open, stream
  <2>3. Waits(p, sid[p]) /\ \A s \in Sessions : p \notin running[s]
    BY <1>0, <2>1 DEF WholeAnswerOf
  <2>4. \A s \in Sessions : p \in running'[s] => s = sid[p]
    BY <2>1, <2>3
  <2>5. \A s \in Sessions, q \in Prompts \ {p} : q \in running'[s] => q \in running[s]
    BY <2>1
  <2>6. WholeAnswerOf(p)'
    BY <1>0, <2>1, <2>2, <2>3, <2>4 DEF WholeAnswerOf, Waits, Listening, Open, stream
  <2>7. \A q \in Prompts \ {p} : WholeAnswerOf(q)'
    BY <1>0, <2>1, <2>2, <2>5 DEF WholeAnswerOf, stream
  <2> QED BY <1>0, <2>1, <2>6, <2>7 DEF AnswerInv
<1>8. CASE PostRefused(p)
  <2>1. /\ pc[p] = "post" /\ pc' = [pc EXCEPT ![p] = "await"]
        /\ err' = [err EXCEPT ![p] = "other"]
        /\ cancelled' = [cancelled EXCEPT ![<<p, 1>>] = TRUE]
        /\ UNCHANGED <<sessionID, sid, attempt, phase, session, idle, rpc, live, running>>
    BY <1>a, <1>8 DEF PostRefused, PostFails, Cancel, conv, reset, server
  <2>2. \A s \in Sessions : p \notin running[s]
    BY <1>0, <2>1 DEF WholeAnswerOf
  <2>3. WholeAnswerOf(p)'
    BY <1>0, <2>1, <2>2 DEF WholeAnswerOf
  <2>4. ASSUME NEW q \in Prompts \ {p} PROVE WholeAnswerOf(q)'
    <3>1. <<q, 1>> \in Streams /\ <<q, 1>> # <<p, 1>>
      BY DEF Streams
    <3>2. cancelled'[<<q, 1>>] = cancelled[<<q, 1>>] /\ pc'[q] = pc[q] /\ err'[q] = err[q]
      BY <2>1, <3>1
    <3>3. \A s : Waits(q, s)' <=> Waits(q, s)
      BY <2>1, <3>2 DEF Waits, Listening, Open
    <3> QED BY <1>0, <2>1, <3>2, <3>3 DEF WholeAnswerOf
  <2> QED BY <1>0, <2>1, <2>3, <2>4 DEF AnswerInv
<1>9. ~PostAnswerLost(p) /\ ~PostStale(p) /\ ~ClearStale(p)
  BY <1>0 DEF PostAnswerLost, PostStale, ReadsAsStale, PostFails, ClearStale, Reliable,
              WholeAnswerOf
<1>10. CASE StreamStopped(p) \/ StreamStopTimeout(p)
  <2>1. err[p] # "stale"
    BY <1>0 DEF WholeAnswerOf
  <2> QED
    BY <1>10, <2>1, AnswerKept DEF StreamStopped, StreamStopTimeout, AfterFailure, server, reset
<1>11. CASE EndOfAnswer(p) \/ Abandon(p)
  BY <1>11, AnswerKept DEF EndOfAnswer, Abandon, server, reset, conv
<1> QED
  BY <1>1, <1>2, <1>3, <1>4, <1>5, <1>6, <1>7, <1>8, <1>9, <1>10, <1>11 DEF PromptStep

LEMMA AnswerStream ==
  ASSUME Reliable, TypeOK, AnswerInv, NEW st \in Streams, StreamStep(st)
  PROVE  AnswerInv'
<1> SUFFICES ASSUME NoResetYet' PROVE AnswerInv'
  BY DEF AnswerInv
<1>1. /\ UNCHANGED <<sessionID, pc, sid, attempt, err, session, cancelled, idle, rpc, live, running>>
      /\ \E w \in StreamPhases :
           /\ phase' = [phase EXCEPT ![st] = w] /\ w # "off"
           /\ Open(st) => w \in {"reading", "blocked"} \/ idle[st] \/ cancelled[st]
  BY DEF StreamStep, StreamBlocks, StreamResumes, StreamEnds, StreamBreaks, StreamUnlocks,
         StreamClears, StreamGoto, Reliable, StreamPhases, Open, conv, prompt, reset, server
<1>2. NoResetYet /\ sessionID \in live \cup {Nil} /\ \A q \in Prompts : WholeAnswerOf(q)
  BY <1>1 DEF NoResetYet, AnswerInv
<1>3. PICK w \in StreamPhases :
        /\ phase' = [phase EXCEPT ![st] = w] /\ w # "off"
        /\ Open(st) => w \in {"reading", "blocked"} \/ idle[st] \/ cancelled[st]
  BY <1>1
<1>4. ASSUME NEW q \in Prompts PROVE WholeAnswerOf(q)'
  <2>1. \A s : Waits(q, s) => Waits(q, s)'
    BY <1>1, <1>3 DEF TypeOK, Waits, Listening, Open, Streams
  <2>2. phase'[<<q, 1>>] = "off" => phase[<<q, 1>>] = "off"
    BY <1>3 DEF TypeOK, Streams
  <2> QED BY <1>1, <1>2, <2>1, <2>2 DEF WholeAnswerOf
<1> QED BY <1>1, <1>2, <1>4 DEF AnswerInv

\* The end of a run is about a stream only if the run is its prompt's.
LEMMA AnswerRunEnds ==
  ASSUME TypeOK, LockInv, AnswerInv, NEW s \in Sessions, EndRun(s),
         UNCHANGED <<sessionID, pc, sid, attempt, err, rpc, live>>
  PROVE  AnswerInv'
<1> SUFFICES ASSUME NoResetYet' PROVE AnswerInv'
  BY DEF AnswerInv
<1>1. NoResetYet /\ sessionID \in live \cup {Nil} /\ \A q \in Prompts : WholeAnswerOf(q)
  BY DEF NoResetYet, AnswerInv
<1>2. /\ running' = [running EXCEPT ![s] = {}] /\ UNCHANGED <<phase, session, cancelled>>
      /\ \A st \in Streams :
           idle'[st] <=> idle[st] \/ (Open(st) /\ session[st] = s /\ running[s] # {})
  BY DEF EndRun
<1>3. ASSUME NEW q \in Prompts PROVE WholeAnswerOf(q)'
  <2> <<q, 1>> \in Streams
    BY DEF Streams
  <2>1. idle'[<<q, 1>>] <=>
          idle[<<q, 1>>] \/ (Open(<<q, 1>>) /\ session[<<q, 1>>] = s /\ running[s] # {})
    BY <1>2
  <2>2. ASSUME NEW t, Waits(q, t), t # s \/ running[s] = {} PROVE Waits(q, t)'
    BY <1>2, <2>1, <2>2 DEF Waits, Listening, Open
  <2>3. pc[q] = "post" => running[s] = {}
    BY <1>1, RunsExclude DEF TypeOK
  <2>4. \A t \in Sessions : q \in running'[t] => q \in running[t] /\ t # s
    BY <1>2 DEF TypeOK
  <2>5. phase'[<<q, 1>>] = "off" => ~idle'[<<q, 1>>]
    BY <1>1, <1>2, <2>1 DEF WholeAnswerOf, Open
  <2> QED BY <1>1, <1>2, <2>2, <2>3, <2>4, <2>5 DEF WholeAnswerOf
<1> QED BY <1>1, <1>3 DEF AnswerInv

LEMMA AnswerNext ==
  ASSUME Reliable, TypeOK, LockInv, AnswerInv, [Next]_vars
  PROVE  AnswerInv'
<1>1. ASSUME NEW p \in Prompts, PromptStep(p) PROVE AnswerInv'
  BY <1>1, AnswerPrompt
<1>2. ASSUME NEW st \in Streams, StreamStep(st) PROVE AnswerInv'
  BY <1>2, AnswerStream
<1>3. ASSUME UNCHANGED <<pc, sid, attempt, err, stream, live, running>>,
             NoResetYet' => NoResetYet, sessionID' \in {sessionID, Nil}
      PROVE  AnswerInv'
  BY <1>3 DEF AnswerInv, WholeAnswerOf, Waits, Listening, Open, stream
<1>4. ASSUME NEW r \in Resets, ResetStep(r) PROVE AnswerInv'
  <2>1. CASE ResetRead(r) \/ ResetClear(r)
    <3>1. NoResetYet' => NoResetYet
      BY <2>1 DEF ResetRead, ResetClear, NoResetYet, TypeOK
    <3> QED
      BY <1>3, <2>1, <3>1 DEF ResetRead, ResetClear, conv, prompt, server
  <2>2. CASE ~(ResetRead(r) \/ ResetClear(r))
    <3>1. rpc'[r] \notin {"read", "clear", "cancel"}
      BY <1>4, <2>2 DEF ResetStep, ResetCancel, ResetAbort, ResetAbortFails, ResetDelete,
         ResetDeleteFails, TypeOK
    <3> QED BY <3>1 DEF AnswerInv, NoResetYet
  <2> QED BY <2>1, <2>2
<1>5. ASSUME NEW s \in Sessions, ServerStep(s) PROVE AnswerInv'
  BY <1>5, AnswerRunEnds DEF ServerStep, SessionIdle, SessionLost, Reliable, conv, prompt, reset
<1>6. CASE UNCHANGED vars
  BY <1>3, <1>6 DEF vars, conv, prompt, stream, reset, server, NoResetYet
<1> QED
  BY <1>1, <1>2, <1>4, <1>5, <1>6 DEF Next, Finished

(***************************************************************************)
(* As long as no connection, no session and no answer to a POST is lost,   *)
(* a responder that sees its channel closed has the whole answer: until a  *)
(* reset cancels, the server has finished the prompt.                      *)
(***************************************************************************)
THEOREM AnswersAreComplete == Spec => [](Reliable => AnswerIsComplete)
<1>1. ASSUME TypeOK, AnswerInv PROVE AnswerIsComplete
  <2> SUFFICES ASSUME NEW p \in Prompts, pc[p] = "consume", phase[Current(p)] = "done",
                      NoResetYet, NEW s \in Sessions, p \in running[s]
               PROVE  FALSE
    BY DEF AnswerIsComplete, NoResetYet
  <2>1. attempt[p] = 1 /\ Listening(<<p, 1>>)
    BY <1>1 DEF AnswerInv, WholeAnswerOf, Waits
  <2> QED BY <2>1 DEF Listening, Open, Current
<1>2. TypeOK /\ LockInv /\ (Reliable => AnswerInv) /\ [Next]_vars => (Reliable => AnswerInv)'
  BY AnswerNext DEF Reliable
<1> QED
  BY <1>1, <1>2, AnswerInit, LockInvariant, PTL DEF Spec
=============================================================================

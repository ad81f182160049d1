---------------------------- MODULE ThreadContext ----------------------------
(***************************************************************************)
(* Which messages of one room's thread the bot answers, and what of the    *)
(* thread it shows to the generator (bot/client.go).  The goroutine of Run *)
(* takes the messages from the stream one after the other and starts a     *)
(* goroutine for each that is to be answered; these responders run side by *)
(* side.  What is remembered of the thread, and shared by them, is whether *)
(* it is active and the last message that was answered: the mark, written  *)
(* when an answer is complete and lost when the program ends.              *)
(*                                                                         *)
(* A message is its position in the thread; 1 is the message the thread    *)
(* hangs on, the only one without a tmid.  The history that a new session  *)
(* is given is in OpenCodeConversation, the reply's text in StreamingReply.*)
(***************************************************************************)
EXTENDS Naturals, Sequences, FiniteSets

CONSTANTS
    MaxThread,      \* bound: messages of the thread, the bot's among them
    Window,         \* replies one FetchThreadHistory returns (100 in the code)
    MaxRestarts,    \* bound: restarts of the program
    MaxUnderWay,    \* bound: responders under way at once
    Policies        \* what may be configured for the room

ASSUME ThreadAssumption ==
    MaxThread \in Nat \ {0} /\ Window \in Nat \ {0} /\ MaxRestarts \in Nat /\ MaxUnderWay \in Nat

RoomConfigs == [dm : BOOLEAN, enabled : BOOLEAN, threadDefault : BOOLEAN,
                activeThreadTrigger : {"auto", "mention_only"}]

ASSUME PoliciesAssumption == Policies \subseteq RoomConfigs

Positions == 1..MaxThread
None == 0

Texts == {"plain", "/thread", "!rb reset"}
Message == [user : {"user", "bot"}, mention : BOOLEAN, text : Texts]
BotMessage == [user |-> "bot", mention |-> FALSE, text |-> "plain"]

VARIABLES
    policy,         \* the room's configuration, never changed
    thread,         \* the thread on the server
    handled,        \* how much of it the stream has brought (or left out)
    mark,           \* LastIngestedMessageID of the active thread, or None
    pc,             \* the responder of each message
    basis,          \* the mark it read
    prompt,         \* the messages its prompt shows
    restarts,
    \* what happened, for the properties
    accepted,       \* responders whose prompt the generator took
    marked,         \* responders that wrote the mark
    gaps,           \* responders that did not get the thread back to a mark
    overlapped      \* responders that started while another one was under way

history == <<accepted, marked, gaps, overlapped>>
vars == <<policy, thread, handled, mark, pc, basis, prompt, restarts, history>>

Running == {"start", "fetch", "post", "generate", "mark"}

ThreadTypeOK ==
    /\ policy \in RoomConfigs
    /\ thread \in Seq(Message) /\ Len(thread) <= MaxThread
    /\ handled \in 0..Len(thread)
    /\ mark \in 0..Len(thread)
    /\ pc \in [Positions -> Running \cup {"none", "done"}]
    /\ basis \in [Positions -> 0..MaxThread]
    /\ prompt \in [Positions -> SUBSET Positions]
    /\ restarts \in 0..MaxRestarts
    /\ accepted \subseteq Positions /\ marked \subseteq Positions /\ gaps \subseteq Positions
    /\ overlapped \subseteq Positions

Init ==
    /\ policy \in Policies
    /\ thread = <<>> /\ handled = 0 /\ mark = None /\ restarts = 0
    /\ pc = [m \in Positions |-> "none"]
    /\ basis = [m \in Positions |-> None]
    /\ prompt = [m \in Positions |-> {}]
    /\ accepted = {} /\ marked = {} /\ gaps = {} /\ overlapped = {}

-----------------------------------------------------------------------------
(* resolvePolicy, shouldRespondToRoomMessage, shouldCreateThread.          *)

Scope ==
    CASE policy.dm -> "dm"
      [] ~policy.dm /\ policy.enabled -> "room"
      [] OTHER -> "none"

InThread(m) == m # 1
IsActive == mark # None

\* MUTANT: an active thread is followed whatever the policy.
ShouldRespondIfActive(m) ==
    \/ Scope = "dm"
    \/ Scope = "room" /\ thread[m].mention
    \/ Scope = "room" /\ InThread(m) /\ IsActive

ShouldRespond(m) ==
    \/ Scope = "dm"
    \/ Scope = "room" /\ thread[m].mention
    \/ /\ Scope = "room" /\ InThread(m) /\ IsActive
       /\ policy.activeThreadTrigger = "auto"

\* The reply, the prompt and the mark belong to the thread.
InEffectiveThread(m) ==
    InThread(m) \/ policy.threadDefault \/ thread[m].text = "/thread"

UnderWay == {m \in Positions : pc[m] \in Running}

\* FetchThreadHistory: the message the thread hangs on and the newest replies.
\* (The call passes a count.  That Rocket.Chat takes the newest is what a
\* comment of its caller says of it, and is assumed.)
Fetched == {m \in 1..Len(thread) : m = 1 \/ m + Window > Len(thread)}

\* MUTANT: the last answered message is shown again.
MissedAndLast(last) ==
    IF last \in Fetched
    THEN {m \in Fetched : m >= last /\ thread[m].user # "bot"}
    ELSE {}

\* MUTANT: what came last is left to its own responder.
MissedButNewest(last) ==
    IF last \in Fetched
    THEN {m \in Fetched : m > last /\ m < Len(thread) /\ thread[m].user # "bot"}
    ELSE {}

\* collectMissedThreadMessages.
Missed(last) ==
    IF last \in Fetched
    THEN {m \in Fetched : m > last /\ thread[m].user # "bot"}
    ELSE {}

-----------------------------------------------------------------------------
(* The room.                                                               *)

\* Bounds: one message at most is not plain text, and the bot is mentioned only
\* where it looks for mentions.
Post(mention, text) ==
    /\ Len(thread) < MaxThread
    /\ mention => Scope = "room"
    /\ text # "plain" => \A m \in 1..Len(thread) : thread[m].text = "plain"
    /\ thread' = Append(thread, [user |-> "user", mention |-> mention, text |-> text])
    /\ UNCHANGED <<policy, handled, mark, pc, basis, prompt, restarts, history>>

\* handleRoomMessage.
HandleMessage ==
    /\ handled < Len(thread) /\ Cardinality(UnderWay) < MaxUnderWay
    /\ handled' = handled + 1
    /\ IF thread[handled + 1].user # "bot" /\ ShouldRespond(handled + 1)
       THEN /\ pc' = [pc EXCEPT ![handled + 1] = "start"]
            /\ overlapped' = IF UnderWay = {} THEN overlapped ELSE overlapped \cup {handled + 1}
       ELSE UNCHANGED <<pc, overlapped>>
    /\ UNCHANGED <<policy, thread, mark, basis, prompt, restarts, accepted, marked, gaps>>

\* The stream brings nothing of what was posted while the bot was away.
Reconnect ==
    /\ handled < Len(thread)
    /\ handled' = Len(thread)
    /\ UNCHANGED <<policy, thread, mark, pc, basis, prompt, restarts, history>>

Restart ==
    /\ restarts < MaxRestarts
    /\ restarts' = restarts + 1
    /\ handled' = Len(thread)
    /\ mark' = None
    /\ pc' = [m \in Positions |-> IF m \in UnderWay THEN "done" ELSE pc[m]]
    /\ UNCHANGED <<policy, thread, basis, prompt, history>>

-----------------------------------------------------------------------------
(* handleResponse of message m.                                            *)

\* PostMessage.  (Bound: what does not fit is not kept.)
Extended == IF Len(thread) < MaxThread THEN Append(thread, BotMessage) ELSE thread

\* handleBotCommand: the reset and its answer, which is no mark.
AnswerCommand(m) ==
    /\ pc[m] = "start" /\ thread[m].text = "!rb reset"
    /\ pc' = [pc EXCEPT ![m] = "done"]
    /\ thread' = IF InThread(m) THEN Extended ELSE thread
    /\ UNCHANGED <<policy, handled, mark, basis, prompt, restarts, history>>

\* prepareMessageForGenerator leaves the message as it is ...
ShowAlone(m) ==
    /\ prompt' = [prompt EXCEPT ![m] = {m}]
    /\ gaps' = gaps \cup {m}
    /\ basis' = [basis EXCEPT ![m] = None]
    /\ pc' = [pc EXCEPT ![m] = "post"]
    /\ UNCHANGED <<policy, thread, handled, mark, restarts, accepted, marked, overlapped>>

CatchesUp(m) ==
    /\ Scope = "room" /\ InEffectiveThread(m)
    /\ policy.activeThreadTrigger = "mention_only"
    /\ IsActive

NoCatchingUp(m) ==
    /\ pc[m] = "start" /\ thread[m].text # "!rb reset"
    /\ ~CatchesUp(m)
    /\ ShowAlone(m)

\* ... or asks for what came after the mark.
ReadMark(m) ==
    /\ pc[m] = "start" /\ thread[m].text # "!rb reset"
    /\ CatchesUp(m)
    /\ basis' = [basis EXCEPT ![m] = mark]
    /\ pc' = [pc EXCEPT ![m] = "fetch"]
    /\ UNCHANGED <<policy, thread, handled, mark, prompt, restarts, history>>

\* Was last found, and is nobody's message missing since?
ReachesBack(last) ==
    last \in Fetched /\ \A m \in 1..Len(thread) : m > last /\ thread[m].user # "bot" => m \in Fetched

FetchThread(m) ==
    /\ pc[m] = "fetch"
    /\ prompt' = [prompt EXCEPT ![m] = IF Missed(basis[m]) = {} THEN {m} ELSE Missed(basis[m])]
    /\ gaps' = IF ReachesBack(basis[m]) THEN gaps ELSE gaps \cup {m}
    /\ basis' = [basis EXCEPT ![m] = None]
    /\ pc' = [pc EXCEPT ![m] = "post"]
    /\ UNCHANGED <<policy, thread, handled, mark, restarts, accepted, marked, overlapped>>

FetchFails(m) == pc[m] = "fetch" /\ ShowAlone(m)

PostPlaceholder(m) ==
    /\ pc[m] = "post"
    /\ thread' = IF InEffectiveThread(m) THEN Extended ELSE thread
    /\ pc' = [pc EXCEPT ![m] = "generate"]
    /\ UNCHANGED <<policy, handled, mark, basis, prompt, restarts, history>>

PostFails(m) ==
    /\ pc[m] = "post"
    /\ pc' = [pc EXCEPT ![m] = "done"]
    /\ UNCHANGED <<policy, thread, handled, mark, basis, prompt, restarts, history>>

Generate(m) ==
    /\ pc[m] = "generate"
    /\ accepted' = accepted \cup {m}
    /\ pc' = [pc EXCEPT ![m] = IF Scope = "room" /\ InEffectiveThread(m) THEN "mark" ELSE "done"]
    /\ UNCHANGED <<policy, thread, handled, mark, basis, prompt, restarts, marked, gaps, overlapped>>

\* Refused, or accepted and the answer failed or could not be shown.
GenerateFails(m) ==
    /\ pc[m] = "generate"
    /\ accepted' \in {accepted, accepted \cup {m}}
    /\ pc' = [pc EXCEPT ![m] = "done"]
    /\ UNCHANGED <<policy, thread, handled, mark, basis, prompt, restarts, marked, gaps, overlapped>>

\* MUTANT: the thread is marked up to its end.
MarkActiveToTheEnd(m) ==
    /\ pc[m] = "mark"
    /\ mark' = Len(thread)
    /\ marked' = marked \cup {m}
    /\ pc' = [pc EXCEPT ![m] = "done"]
    /\ UNCHANGED <<policy, thread, handled, basis, prompt, restarts, accepted, gaps, overlapped>>

MarkActive(m) ==
    /\ pc[m] = "mark"
    /\ mark' = m
    /\ marked' = marked \cup {m}
    /\ pc' = [pc EXCEPT ![m] = "done"]
    /\ UNCHANGED <<policy, thread, handled, basis, prompt, restarts, accepted, gaps, overlapped>>

-----------------------------------------------------------------------------
Respond(m) ==
    \/ AnswerCommand(m) \/ NoCatchingUp(m) \/ ReadMark(m)
    \/ FetchThread(m) \/ FetchFails(m) \/ PostPlaceholder(m) \/ PostFails(m)
    \/ Generate(m) \/ GenerateFails(m) \/ MarkActive(m)

Next ==
    \/ \E mention \in BOOLEAN, text \in Texts : Post(mention, text)
    \/ HandleMessage \/ Reconnect \/ Restart
    \/ \E m \in Positions : Respond(m)

Spec == Init /\ [][Next]_vars

-----------------------------------------------------------------------------
Shown == UNION {prompt[m] : m \in accepted}

(***************************************************************************)
(* What the mark has passed was shown to the generator, in whichever order *)
(* the responders wrote their marks; the exception is what was posted up   *)
(* to a message whose responder had no history to catch up with (the       *)
(* thread was not active, or forgotten by a restart, or every message of   *)
(* it is answered anyway) or did not get all of it.                        *)
(***************************************************************************)
NothingSkipped ==
    \A j \in 1..mark :
        thread[j].user = "user" => j \in Shown \/ \E m \in gaps : j <= m

(***************************************************************************)
(* In a room the bot answers a message that does not mention it only where *)
(* it answered an earlier one that did: answering is what makes a thread   *)
(* active, and no thread becomes active by itself.                         *)
(***************************************************************************)
SpeaksWhenInvited ==
    \A m \in Positions :
        pc[m] # "none" /\ Scope = "room" =>
            \/ thread[m].mention
            \/ /\ policy.activeThreadTrigger = "auto"
               /\ \E a \in marked : a < m /\ thread[a].mention

(***************************************************************************)
(* While responders follow one another, a prompt shows nothing again that  *)
(* an answered prompt showed up to the message it answered.                *)
(***************************************************************************)
NothingAnsweredTwice ==
    overlapped = {} =>
        \A m \in marked, m2 \in accepted :
            m < m2 => \A j \in prompt[m2] : j > m

(***************************************************************************)
(* The prompt of a responder that was alone and got the whole thread since *)
(* the mark contains the message it answers.                               *)
(***************************************************************************)
ContainsItsMessage ==
    \A m \in Positions :
        prompt[m] # {} /\ m \notin prompt[m] => overlapped # {} \/ m \in gaps
=============================================================================

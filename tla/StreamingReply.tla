--------------------------- MODULE StreamingReply ---------------------------
(***************************************************************************)
(* How a stream of render events becomes the reply in Rocket.Chat.         *)
(*                                                                         *)
(* In the modes "full" and "concise" handleRenderStreamingResponse         *)
(* (bot/client.go) keeps a ProgressiveRenderer (bot/message_renderer.go)   *)
(* and edits the reply at every tick.  In the mode "collect", streamed     *)
(* output being off, GenerateResponse joins the texts and the reply is     *)
(* written once.  EventReducer is the other end of the channel.            *)
(***************************************************************************)
EXTENDS EventReducer

VARIABLES
    mode,           \* "full", "concise" or "collect"
    \* ProgressiveRenderer; in the mode "collect" answer is the joined text
    answer,
    tools,          \* the calls seen, each a part and a status
    \* handleRenderStreamingResponse
    dirty,
    lastSent,       \* what Rocket.Chat shows as the reply
    \* GenerateResponseStream
    chunkText,      \* its partText
    result          \* "running", "sent" or "failed"

replyVars == <<mode, answer, tools, dirty, lastSent, chunkText, result>>
vars == <<reducerVars, replyVars>>

Modes == {"full", "concise", "collect"}

\* summarizeToolEvent: a call that waits has no arguments yet.
Summary(status) ==
    CASE status = "pending" -> "bare"
      [] status \in {"running", "completed"} -> "with arguments"
      [] OTHER -> "failed"

\* Render: a line for each tool call, or only their number, then the text.
\* An empty text shows as "..." or as a notice.
ToolLines ==
    IF mode = "concise" THEN Len(tools)
    ELSE [i \in DOMAIN tools |-> <<tools[i].part, Summary(tools[i].status)>>]

Rendered == [tools |-> ToolLines, text |-> answer, notice |-> FALSE]
Placeholder == [tools |-> IF mode = "concise" THEN 0 ELSE <<>>, text |-> <<>>, notice |-> FALSE]

Init ==
    /\ ReducerInit
    /\ mode \in Modes
    /\ answer = <<>>
    /\ tools = <<>>
    /\ dirty = FALSE
    /\ lastSent = Placeholder
    /\ chunkText = [p \in Parts |-> <<>>]
    /\ result = "running"

-----------------------------------------------------------------------------
Rendering == mode # "collect" /\ result = "running"

\* Mutants: a change of a known call does not count; a call is added for each
\* event.
UpsertToolNoticesNew(ev) ==
    LET known == {i \in DOMAIN tools : tools[i].part = ev.part}
        call == [part |-> ev.part, status |-> ev.status]
    IN /\ tools' = IF known = {} THEN Append(tools, call)
                   ELSE [tools EXCEPT ![CHOOSE i \in known : TRUE] = call]
       /\ dirty' = (dirty \/ known = {})
       /\ UNCHANGED answer
UpsertToolAppends(ev) ==
    /\ tools' = Append(tools, [part |-> ev.part, status |-> ev.status])
    /\ dirty' = TRUE
    /\ UNCHANGED answer

\* upsertTool.
UpsertTool(ev) ==
    LET known == {i \in DOMAIN tools : tools[i].part = ev.part}
        call == [part |-> ev.part, status |-> ev.status]
    IN /\ tools' = IF known = {} THEN Append(tools, call)
                   ELSE [tools EXCEPT ![CHOOSE i \in known : TRUE] = call]
       /\ dirty' = (dirty \/ tools' # tools)
       /\ UNCHANGED answer

\* Apply.
ApplyTextDelta(ev) ==
    /\ answer' = answer \o ev.text
    /\ dirty' = TRUE
    /\ UNCHANGED tools

ApplyTextSet(ev) ==
    /\ answer' = ev.text
    /\ dirty' = (dirty \/ answer' # answer)
    /\ UNCHANGED tools

Apply ==
    /\ Rendering
    /\ Receive
    /\ LET ev == Head(events) IN
       \/ ev.type = "text_delta" /\ ApplyTextDelta(ev)
       \/ ev.type = "text_set" /\ ApplyTextSet(ev)
       \/ ev.type = "tool" /\ UpsertTool(ev)
       \/ ev.type = "done" /\ UNCHANGED <<answer, tools, dirty>>
    /\ UNCHANGED <<mode, lastSent, chunkText, result>>

\* What flush would send: while there is no text a notice may be due.  (Also
\* below a text that itself ends in the placeholder; texts are opaque here.)
Flushes == {Rendered} \cup IF answer = <<>> THEN {[Rendered EXCEPT !.notice = TRUE]} ELSE {}

\* UpdateMessage.
Update(current) ==
    \/ lastSent' = current /\ dirty' = FALSE /\ UNCHANGED result
    \/ result' = "failed" /\ UNCHANGED <<lastSent, dirty>>

\* A tick: flush(false).
Tick ==
    /\ Rendering
    /\ \E current \in Flushes :
         /\ dirty \/ current.notice
         /\ IF current = lastSent /\ ~current.notice
            THEN dirty' = FALSE /\ UNCHANGED <<lastSent, result>>
            ELSE Update(current)
    /\ UNCHANGED <<reducerVars, mode, answer, tools, chunkText>>

StreamEnded == events = <<>> /\ reader = "closed"

\* Mutant: the last edit is left to the ticks.
FinishUnflushed ==
    /\ Rendering
    /\ StreamEnded
    /\ result' = "sent"
    /\ UNCHANGED <<reducerVars, mode, answer, tools, dirty, lastSent, chunkText>>

\* The channel is closed: flush(true).
Finish ==
    /\ Rendering
    /\ StreamEnded
    /\ \E current \in Flushes :
         \/ lastSent' = current /\ dirty' = FALSE /\ result' = "sent"
         \/ result' = "failed" /\ UNCHANGED <<lastSent, dirty>>
    /\ UNCHANGED <<reducerVars, mode, answer, tools, chunkText>>

-----------------------------------------------------------------------------
Collecting == mode = "collect" /\ result = "running"

\* The chunk GenerateResponseStream makes of a text event.
Chunk(ev) ==
    LET prev == chunkText[ev.part] IN
    IF ev.type = "text_set" /\ prev # <<>> /\ IsPrefix(prev, ev.text)
    THEN SubSeq(ev.text, Len(prev) + 1, Len(ev.text))
    ELSE ev.text

\* Mutant: only deltas are joined.
CollectDeltas ==
    /\ Collecting
    /\ Receive
    /\ LET ev == Head(events) IN
       IF ev.type = "text_delta" THEN answer' = answer \o ev.text ELSE UNCHANGED answer
    /\ UNCHANGED <<mode, tools, dirty, lastSent, chunkText, result>>

\* GenerateResponseStream and the loop of GenerateResponse.
Collect ==
    /\ Collecting
    /\ Receive
    /\ LET ev == Head(events) IN
       IF ev.type \in {"text_delta", "text_set"}
       THEN /\ chunkText' = [chunkText EXCEPT ![ev.part] =
                               IF ev.type = "text_delta" THEN @ \o ev.text ELSE ev.text]
            /\ answer' = answer \o Chunk(ev)
       ELSE UNCHANGED <<chunkText, answer>>
    /\ UNCHANGED <<mode, tools, dirty, lastSent, result>>

\* The rest of handleNonStreamingResponse.
WriteOnce ==
    /\ Collecting
    /\ StreamEnded
    /\ \/ lastSent' = Rendered /\ result' = "sent"
       \/ result' = "failed" /\ UNCHANGED lastSent
    /\ UNCHANGED <<reducerVars, mode, answer, tools, dirty, chunkText>>

\* The context of a streamed reply ends.
ContextDone ==
    /\ Rendering
    /\ result' = "failed"
    /\ UNCHANGED <<reducerVars, mode, answer, tools, dirty, lastSent, chunkText>>

Reducer == ReducerNext /\ UNCHANGED replyVars

Next == Reducer \/ Apply \/ Tick \/ Finish \/ Collect \/ WriteOnce \/ ContextDone

Spec == Init /\ [][Next]_vars

\* Goroutines run; nothing makes the server speak or the ticker tick.
FairSpec ==
    /\ Spec
    /\ WF_vars((Send \/ CloseChannel) /\ UNCHANGED replyVars)
    /\ WF_vars(Apply \/ Finish)
    /\ WF_vars(Collect \/ WriteOnce)

-----------------------------------------------------------------------------
(***************************************************************************)
(* The reply is never left behind: whenever nothing is marked dirty,       *)
(* Rocket.Chat shows what the renderer has, a notice standing only for a   *)
(* text that is still missing.  In particular this holds of the last edit. *)
(***************************************************************************)
ShowsWhatIsRendered ==
    mode # "collect" /\ result # "failed" /\ ~dirty =>
        /\ lastSent \in {Rendered, [Rendered EXCEPT !.notice = TRUE]}
        /\ lastSent.notice => answer = <<>>

(***************************************************************************)
(* No piece of text is repeated in a reply, though the server reports the  *)
(* same text in deltas, in snapshots and again when its role is known.     *)
(***************************************************************************)
NothingTwice == IsInjective(answer)

Answered == result = "sent" /\ idled

TextsWritten == {p \in TextParts : MessageOf[p] \in Assistants /\ written[p] > 0}

(***************************************************************************)
(* When the session became idle and the reply succeeded, each tool call of *)
(* the answer has one line, in its last state (mode "full").               *)
(***************************************************************************)
ToolsShownOnce ==
    Answered /\ mode = "full" =>
        \A p \in ToolParts :
            MessageOf[p] \in Assistants /\ toolStatus[p] # "none" =>
                {i \in DOMAIN lastSent.tools : lastSent.tools[i][1] = p}
                  = {i \in DOMAIN lastSent.tools : lastSent.tools[i] = <<p, Summary(toolStatus[p])>>}
                /\ \E i \in DOMAIN lastSent.tools :
                     {j \in DOMAIN lastSent.tools : lastSent.tools[j][1] = p} = {i}

\* The tokens of p in text are those of its first n, in their order.
HoldsInOrder(text, p, n) ==
    /\ {token \in ToSet(text) : token[1] = p} = ToSet(Text(p, n))
    /\ \A i, j \in DOMAIN text :
         i < j /\ text[i][1] = p /\ text[j][1] = p => text[i][2] < text[j][2]

(***************************************************************************)
(* A reply that succeeded holds the whole answer: with streamed output off *)
(* all of every text part, else all of the one text part there is.         *)
(***************************************************************************)
WholeAnswer ==
    Answered /\ (mode = "collect" \/ Cardinality(TextsWritten) = 1) =>
        \A p \in TextsWritten : HoldsInOrder(lastSent.text, p, written[p])

(***************************************************************************)
(* After session.idle the reply comes to its end, full channel or not.     *)
(***************************************************************************)
ReplyEnds == idled ~> result # "running"

(***************************************************************************)
(* "MessageRenderer renders a full Rocket.Chat message from structured     *)
(* events" (message_renderer.go 8): all of every text part is in a reply   *)
(* rendered to its end.                                                    *)
(***************************************************************************)
RendersAFullMessage ==
    Answered /\ mode # "collect" =>
        \A p \in TextsWritten : ToSet(Text(p, written[p])) \subseteq ToSet(lastSent.text)
=============================================================================

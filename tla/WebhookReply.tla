---------------------------- MODULE WebhookReply ----------------------------
(***************************************************************************)
(* An answer of the webhook generator on its way into the room: the body   *)
(* of the webhook's response, the goroutine that parses it                 *)
(* (bot/n8n_parser.go), the goroutine that keeps its text chunks           *)
(* (bot/webhook_generator.go), and the responder that collects them and    *)
(* edits the reply (handleStreamingResponse and handleNonStreamingResponse *)
(* of bot/client.go).  The goroutines are joined by two bounded channels.  *)
(* Their context is never cancelled: handleResponse starts from            *)
(* context.Background, so the branches on ctx.Done are not modelled.       *)
(*                                                                         *)
(* A text is the sequence of the pieces it joins; "" is the empty one.     *)
(***************************************************************************)
EXTENDS Naturals, Sequences, FiniteSets, SequencesExt

CONSTANTS
    Texts,          \* the contents of the body's items, in their order
    MaxLines,       \* bound: lines of the body
    MaxUpdates,     \* bound: edits of the reply
    Capacity        \* of each of the two channels (10 in the code)

Dots == <<"...">>
Notice == <<"_Still working..._">>
NoResponse == <<"_No response produced._">>
Placeholders == {Dots, Notice, NoResponse}

ASSUME TextsAssumption ==
    Texts \in Seq(STRING) /\ \A i \in DOMAIN Texts : <<Texts[i]>> \notin Placeholders
ASSUME WebhookAssumption ==
    MaxLines \in Nat /\ MaxUpdates \in Nat \ {0} /\ Capacity \in Nat \ {0}

VARIABLES
    streamed,       \* is streamed output on for the room?
    \* the webhook's end
    body,           \* lines not yet read
    lines, items,   \* how many were written, and how many of them with text
    bodyEnded,      \* complete or cut off: the scanner tells no difference
    \* the parser
    parser,         \* "off", "scan", "send", "done"
    event,          \* what it is sending
    hasText,        \* is fullMessage not empty?
    events,         \* its channel, closed when it is done
    \* the converter
    converter, chunk, chunks,
    \* the responder
    responder, buffer, lastSent, result,
    update,         \* the text of the edit under way
    updates,        \* edits made
    lastUpdate,     \* how the latest one ended
    \* the room
    shown

webhook == <<body, lines, items, bodyEnded>>
parsing == <<parser, event, hasText, events>>
converting == <<converter, chunk, chunks>>
responding == <<responder, buffer, lastSent, result, update, updates, lastUpdate, shown>>
vars == <<streamed, webhook, parsing, converting, responding>>

Lines == [type : {"begin", "end", "other", "too long"}]
           \cup {[type |-> "item", content |-> Texts[i]] : i \in DOMAIN Texts}
Message == [type |-> "message"]
Chunk(text) == [type |-> "chunk", content |-> text]

Init ==
    /\ streamed \in BOOLEAN
    /\ body = <<>> /\ lines = 0 /\ items = 0 /\ bodyEnded = FALSE
    /\ parser = "off" /\ event = Message /\ hasText = FALSE /\ events = <<>>
    /\ converter = "off" /\ chunk = "" /\ chunks = <<>>
    /\ responder = "post" /\ buffer = <<>> /\ lastSent = <<>> /\ result = FALSE
    /\ update = <<>> /\ updates = 0 /\ lastUpdate = "none"
    /\ shown = <<>>

-----------------------------------------------------------------------------
(* The webhook, once it has answered 200.                                  *)

WriteLine(line) ==
    /\ parser # "off" /\ ~bodyEnded /\ lines < MaxLines
    /\ line.type = "item" => items < Len(Texts) /\ line.content = Texts[items + 1]
    /\ body' = Append(body, line)
    /\ lines' = lines + 1
    /\ items' = IF line.type = "item" THEN items + 1 ELSE items
    /\ UNCHANGED <<streamed, bodyEnded, parsing, converting, responding>>

EndBody ==
    /\ parser # "off" /\ ~bodyEnded
    /\ bodyEnded' = TRUE
    /\ UNCHANGED <<streamed, body, lines, items, parsing, converting, responding>>

-----------------------------------------------------------------------------
(* N8nParser.Parse.                                                        *)

\* Lines without effect: empty, no JSON, no type, an unknown type, an item
\* without content; and the end of a message without text.
SkipLine ==
    /\ parser = "scan" /\ body # <<>>
    /\ Head(body).type = "other" \/ (Head(body).type = "end" /\ ~hasText)
    /\ body' = Tail(body)
    /\ UNCHANGED <<streamed, lines, items, bodyEnded, parsing, converting, responding>>

BeginMessage ==
    /\ parser = "scan" /\ body # <<>> /\ Head(body).type = "begin"
    /\ body' = Tail(body)
    /\ hasText' = FALSE
    /\ UNCHANGED <<streamed, lines, items, bodyEnded, parser, event, events, converting, responding>>

ParseItem ==
    /\ parser = "scan" /\ body # <<>> /\ Head(body).type = "item"
    /\ body' = Tail(body)
    /\ hasText' = TRUE
    /\ event' = Chunk(Head(body).content)
    /\ parser' = "send"
    /\ UNCHANGED <<streamed, lines, items, bodyEnded, events, converting, responding>>

EndMessage ==
    /\ parser = "scan" /\ body # <<>> /\ Head(body).type = "end" /\ hasText
    /\ body' = Tail(body)
    /\ event' = Message
    /\ parser' = "send"
    /\ UNCHANGED <<streamed, lines, items, bodyEnded, hasText, events, converting, responding>>

SendEvent ==
    /\ parser = "send" /\ Len(events) < Capacity
    /\ events' = Append(events, event)
    /\ parser' = "scan"
    /\ UNCHANGED <<streamed, webhook, event, hasText, converting, responding>>

\* Scan returns false: the body is at its end, was cut off, or goes on with a
\* line longer than the scanner's buffer.
ParserEnds ==
    /\ parser = "scan"
    /\ (body = <<>> /\ bodyEnded) \/ (body # <<>> /\ Head(body).type = "too long")
    /\ parser' = "done"
    /\ UNCHANGED <<streamed, webhook, event, hasText, events, converting, responding>>

-----------------------------------------------------------------------------
(* The goroutine of GenerateResponseStream.                                *)

\* MUTANT: the full message ends the reading, as if nothing could follow it.
ReceiveEventUntilMessage ==
    /\ converter = "receive" /\ events # <<>>
    /\ events' = Tail(events)
    /\ IF Head(events).type = "chunk"
       THEN chunk' = Head(events).content /\ converter' = "send"
       ELSE converter' = "done" /\ UNCHANGED chunk
    /\ UNCHANGED <<streamed, webhook, parser, event, hasText, chunks, responding>>

ReceiveEvent ==
    /\ converter = "receive" /\ events # <<>>
    /\ events' = Tail(events)
    /\ IF Head(events).type = "chunk"
       THEN chunk' = Head(events).content /\ converter' = "send"
       ELSE UNCHANGED <<chunk, converter>>
    /\ UNCHANGED <<streamed, webhook, parser, event, hasText, chunks, responding>>

SendChunk ==
    /\ converter = "send" /\ Len(chunks) < Capacity
    /\ chunks' = Append(chunks, chunk)
    /\ converter' = "receive"
    /\ UNCHANGED <<streamed, webhook, parsing, chunk, responding>>

\* MUTANT: a channel that is empty for the moment is taken for a closed one.
ConverterEndsWhenEmpty ==
    /\ converter = "receive" /\ events = <<>>
    /\ converter' = "done"
    /\ UNCHANGED <<streamed, webhook, parsing, chunk, chunks, responding>>

ConverterEnds ==
    /\ converter = "receive" /\ events = <<>> /\ parser = "done"
    /\ converter' = "done"
    /\ UNCHANGED <<streamed, webhook, parsing, chunk, chunks, responding>>

-----------------------------------------------------------------------------
(* The responder.                                                          *)

PostPlaceholder ==
    /\ responder = "post"
    /\ shown' = Dots
    /\ responder' = "open"
    /\ UNCHANGED <<streamed, webhook, parsing, converting, buffer, lastSent, result,
                   update, updates, lastUpdate>>

\* PostMessage failed (or its answer was lost), or the webhook could not be
\* reached or did not answer 200.
GivesUp ==
    /\ responder \in {"post", "open"}
    /\ responder' = "done"
    /\ shown' \in IF responder = "post" THEN {shown, Dots} ELSE {shown}
    /\ UNCHANGED <<streamed, webhook, parsing, converting, buffer, lastSent, result,
                   update, updates, lastUpdate>>

OpenStream ==
    /\ responder = "open"
    /\ responder' = "collect" /\ parser' = "scan" /\ converter' = "receive"
    /\ UNCHANGED <<streamed, webhook, event, hasText, events, chunk, chunks,
                   buffer, lastSent, result, update, updates, lastUpdate, shown>>

ReceiveChunk ==
    /\ responder = "collect" /\ chunks # <<>>
    /\ buffer' = Append(buffer, Head(chunks))
    /\ chunks' = Tail(chunks)
    /\ UNCHANGED <<streamed, webhook, parsing, converter, chunk, responder, lastSent, result,
                   update, updates, lastUpdate, shown>>

\* UpdateMessage is called with text and answers when EndUpdate says so.
StartUpdate(text, next) ==
    /\ update' = text
    /\ responder' = next
    /\ UNCHANGED <<streamed, webhook, parsing, converting, buffer, lastSent, result,
                   updates, lastUpdate, shown>>

\* MUTANT: the notice is due by the time alone.
TickOnTime ==
    /\ responder = "collect" /\ streamed /\ updates < MaxUpdates
    /\ \/ buffer # <<>> /\ buffer # lastSent /\ StartUpdate(buffer, "ticking")
       \/ StartUpdate(Notice, "ticking")

\* The ticker: what is new of the text, or, while there is none, that the bot
\* is still working (ten seconds after the start, then every twenty).
Tick ==
    /\ responder = "collect" /\ streamed /\ updates < MaxUpdates
    /\ \/ buffer # <<>> /\ buffer # lastSent /\ StartUpdate(buffer, "ticking")
       \/ buffer = <<>> /\ StartUpdate(Notice, "ticking")

StreamIsEnded == responder = "collect" /\ chunks = <<>> /\ converter = "done"

FinalUpdate ==
    /\ StreamIsEnded
    /\ ~streamed \/ buffer # lastSent
    /\ StartUpdate(IF streamed /\ buffer = <<>> THEN NoResponse ELSE buffer, "finishing")

\* MUTANT: an empty answer needs no last edit.
NoFinalUpdateWhenEmpty ==
    /\ StreamIsEnded /\ streamed /\ (buffer = lastSent \/ buffer = <<>>)
    /\ result' = (buffer # <<>>)
    /\ responder' = "done"
    /\ UNCHANGED <<streamed, webhook, parsing, converting, buffer, lastSent,
                   update, updates, lastUpdate, shown>>

\* Everything was shown by the ticker, or there is nothing to show.
NoFinalUpdate ==
    /\ StreamIsEnded /\ streamed /\ buffer = lastSent
    /\ result' = (buffer # <<>>)
    /\ responder' = "done"
    /\ UNCHANGED <<streamed, webhook, parsing, converting, buffer, lastSent,
                   update, updates, lastUpdate, shown>>

\* MUTANT: what was to be sent counts as sent.
EndUpdateAnyway(outcome) ==
    /\ responder \in {"ticking", "finishing"}
    /\ lastUpdate' = outcome
    /\ updates' = IF updates < MaxUpdates THEN updates + 1 ELSE updates
    /\ shown' = IF outcome = "refused" THEN shown ELSE update
    /\ IF responder = "ticking"
       THEN responder' = "collect" /\ lastSent' = update /\ UNCHANGED result
       ELSE /\ responder' = "done"
            /\ result' = (outcome = "ok" /\ update # NoResponse)
            /\ UNCHANGED lastSent
    /\ UNCHANGED <<streamed, webhook, parsing, converting, buffer, update>>

\* The edit is made and answered ("ok"), refused, or made and the answer lost.
EndUpdate(outcome) ==
    /\ responder \in {"ticking", "finishing"}
    /\ lastUpdate' = outcome
    /\ updates' = IF updates < MaxUpdates THEN updates + 1 ELSE updates
    /\ shown' = IF outcome = "refused" THEN shown ELSE update
    /\ IF responder = "ticking"
       THEN /\ responder' = "collect"
            /\ lastSent' = IF outcome = "ok" THEN update ELSE lastSent
            /\ UNCHANGED result
       ELSE /\ responder' = "done"
            /\ result' = (outcome = "ok" /\ update # NoResponse)
            /\ UNCHANGED lastSent
    /\ UNCHANGED <<streamed, webhook, parsing, converting, buffer, update>>

-----------------------------------------------------------------------------
ParserStep == SkipLine \/ BeginMessage \/ ParseItem \/ EndMessage \/ SendEvent \/ ParserEnds
ConverterStep == ReceiveEvent \/ SendChunk \/ ConverterEnds
ResponderStep ==
    \/ PostPlaceholder \/ GivesUp \/ OpenStream \/ ReceiveChunk \/ Tick
    \/ FinalUpdate \/ NoFinalUpdate
    \/ \E outcome \in {"ok", "refused", "lost"} : EndUpdate(outcome)

Next ==
    \/ EndBody \/ \E line \in Lines : WriteLine(line)
    \/ ParserStep \/ ConverterStep \/ ResponderStep

Spec == Init /\ [][Next]_vars

(***************************************************************************)
(* Fairness: the goroutines run, and Rocket.Chat answers every edit in the *)
(* end (the HTTP client has no timeout).  That the body ends is not        *)
(* assumed.  A ready chunk is taken before the ticker has fired for ever:  *)
(* select chooses among what is ready with equal probability.              *)
(***************************************************************************)
FairSpec ==
    /\ Spec
    /\ WF_vars(ParserStep) /\ WF_vars(ConverterStep) /\ WF_vars(ResponderStep)
    /\ SF_vars(ReceiveChunk)

-----------------------------------------------------------------------------
(***************************************************************************)
(* The parser, the converter and the two channels between the body and the *)
(* responder are a pipeline that keeps everything in order, and the reply  *)
(* is finished only when all that was parsed has come out.  (What follows  *)
(* a cut or a line too long was never parsed.)                             *)
(***************************************************************************)
ItemsLeft == {i \in DOMAIN body : body[i].type = "item"}
Parsed == SubSeq(Texts, 1, items - Cardinality(ItemsLeft))

Pipeline == INSTANCE OrderedStream
                WITH Items <- {Texts[i] : i \in DOMAIN Texts},
                     input <- Parsed, output <- buffer,
                     ended <- responder \in {"finishing", "done"}

PipelineSpec == Pipeline!StreamSpec

(***************************************************************************)
(* handleResponse marks the thread by this result: it is true just when    *)
(* the whole text is in the room and the bot was told so.  An empty text   *)
(* counts as an answer only where the output is not streamed: the edit to  *)
(* nothing is then made like any other.                                    *)
(***************************************************************************)
ResultTellsTheTruth ==
    responder = "done" =>
        (result <=> lastUpdate = "ok" /\ shown = buffer /\ (streamed => buffer # <<>>))

(***************************************************************************)
(* A text that is shown is only ever made longer: no edit that failed or   *)
(* was answered late, and no notice, takes anything of it back.            *)
(***************************************************************************)
ShownGrows ==
    [][shown # <<>> /\ shown \notin Placeholders => IsPrefix(shown, shown')]_vars

(***************************************************************************)
(* The notice that the bot is still working is not the last word, unless   *)
(* an edit failed, or seemed to (then the bot does not know of it).        *)
(***************************************************************************)
NoticeGivesWay ==
    responder = "done" /\ shown = Notice => lastUpdate \in {"refused", "lost"}

(***************************************************************************)
(* When the body ends, both goroutines and the responder do: none is left  *)
(* behind on a full channel.                                               *)
(***************************************************************************)
PipelineEnds ==
    bodyEnded ~> parser = "done" /\ converter = "done" /\ responder = "done"
=============================================================================

---------------------------- MODULE EventReducer ----------------------------
(***************************************************************************)
(* consumeRenderEvents (bot/opencode_generator.go): the goroutine that     *)
(* turns the server's event lines into render events on a bounded channel. *)
(*                                                                         *)
(* The server writes parts (texts, tool calls, reasoning) of messages and  *)
(* reports them as whole snapshots or as deltas; the role of a message may *)
(* be reported after its parts.  A text is a sequence of tokens <<part,    *)
(* position>>, so that every token says where it comes from.  The server's *)
(* step and the reading of its line are one action: lines arrive in order  *)
(* and the server does not wait for the reader.                            *)
(***************************************************************************)
EXTENDS Naturals, SequencesExt

CONSTANTS
    TextParts, ToolParts, ReasoningParts,
    Messages,
    Assistants,     \* the messages whose role is "assistant"
    MessageOf,      \* the message of a part
    MaxText,        \* bound: tokens a part gets
    Capacity        \* of the channel

Parts == TextParts \cup ToolParts \cup ReasoningParts

ASSUME PartsAssumption ==
    /\ IsFiniteSet(Parts)
    /\ TextParts \cap ToolParts = {}
    /\ ReasoningParts \cap (TextParts \cup ToolParts) = {}
    /\ Assistants \subseteq Messages
    /\ MessageOf \in [Parts -> Messages]
    /\ MaxText \in [Parts -> Nat]
    /\ Capacity \in Nat

VARIABLES
    \* the server
    written,        \* tokens of a part so far
    toolStatus,     \* of a tool call, "none" before it is made
    opened,         \* parts that were in a message.part.updated
    told,           \* assistant messages whose role was reported
    idled,          \* session.idle was sent
    \* openCodeStreamState
    assistantMsgIDs,
    partText,
    textTyped,      \* parts whose partTypes entry is "text"
    pendingParts,   \* text held back; <<>> is no entry or an empty one
    pendingToolParts, \* status held back, or "none"
    \* the goroutine
    reader,         \* "reading" lines, "closing" after session.idle, "closed"
    todo,           \* render events the current line still has to send
    sent,           \* history: what a reader of one part alone has been sent
    \* the channel
    events

server == <<written, toolStatus, opened, told, idled>>
streamState == <<assistantMsgIDs, partText, textTyped, pendingParts, pendingToolParts>>
goroutine == <<reader, todo, sent>>
reducerVars == <<server, streamState, goroutine, events>>

Token == Parts \X Nat
Text(p, k) == [i \in 1..k |-> <<p, i>>]

\* What a tool call goes through.
After(status) ==
    CASE status = "none" -> {"pending"}
      [] status = "pending" -> {"running", "error"}
      [] status = "running" -> {"completed", "error"}
      [] OTHER -> {}
Status == {"none", "pending", "running", "completed", "error"}

\* Render events: the text or the status that their type does not use is empty.
Delta(p, text) == [type |-> "text_delta", part |-> p, text |-> text, status |-> "none"]
Set(p, text) == [type |-> "text_set", part |-> p, text |-> text, status |-> "none"]
Tool(p, status) == [type |-> "tool", part |-> p, text |-> <<>>, status |-> status]
Done == [type |-> "done"]

RenderEvents ==
    [type : {"text_delta", "text_set", "tool"}, part : Parts, text : Seq(Token), status : Status]
      \cup {Done}

TypeOK ==
    /\ written \in [Parts -> Nat]
    /\ toolStatus \in [ToolParts -> Status]
    /\ opened \subseteq TextParts /\ told \subseteq Assistants /\ idled \in BOOLEAN
    /\ assistantMsgIDs \subseteq Messages
    /\ partText \in [Parts -> Seq(Token)]
    /\ textTyped \subseteq Parts
    /\ pendingParts \in [Parts -> Seq(Token)]
    /\ pendingToolParts \in [ToolParts -> Status]
    /\ reader \in {"reading", "closing", "closed"}
    /\ todo \in Seq(RenderEvents)
    /\ sent \in [Parts -> Seq(Token)]
    /\ events \in Seq(RenderEvents)

ReducerInit ==
    /\ written = [p \in Parts |-> 0]
    /\ toolStatus = [p \in ToolParts |-> "none"]
    /\ opened = {} /\ told = {} /\ idled = FALSE
    /\ assistantMsgIDs = {}
    /\ partText = [p \in Parts |-> <<>>]
    /\ textTyped = {}
    /\ pendingParts = [p \in Parts |-> <<>>]
    /\ pendingToolParts = [p \in ToolParts |-> "none"]
    /\ reader = "reading"
    /\ todo = <<>>
    /\ sent = [p \in Parts |-> <<>>]
    /\ events = <<>>

-----------------------------------------------------------------------------
\* The goroutine is ready for the next line.
Listening == reader = "reading" /\ todo = <<>> /\ ~idled

\* What these events, at most one per part, make of each part's text.
Emit(evs) ==
    /\ todo' = evs
    /\ sent' = [p \in Parts |->
         LET sets == {e \in ToSet(evs) : e.type = "text_set" /\ e.part = p}
             deltas == {e \in ToSet(evs) : e.type = "text_delta" /\ e.part = p}
         IN IF sets # {} THEN (CHOOSE e \in sets : TRUE).text
            ELSE IF deltas # {} THEN sent[p] \o (CHOOSE e \in deltas : TRUE).text
            ELSE sent[p]]

Quiet == UNCHANGED <<todo, sent>>

\* Mutant: only tool calls are sent once the role is known.
HeldBackToolsOnly(m) == {}

\* Held-back texts that a role sets free.
HeldBackTexts(m) == {p \in TextParts : MessageOf[p] = m /\ pendingParts[p] # <<>>}

\* message.updated of an assistant message: what was held back of it is sent,
\* texts before tools, each in the random order of a map.  Other roles are
\* ignored.
MessageUpdated(m) ==
    LET texts == HeldBackTexts(m)
        tools == {p \in ToolParts : MessageOf[p] = m /\ pendingToolParts[p] # "none"}
    IN
    /\ Listening
    /\ m \in Assistants
    /\ told' = told \cup {m}
    /\ assistantMsgIDs' = assistantMsgIDs \cup {m}
    /\ \E ps \in SetToSeqs(texts), ts \in SetToSeqs(tools) :
         Emit([i \in DOMAIN ps |-> Set(ps[i], pendingParts[ps[i]])]
                \o [i \in DOMAIN ts |-> Tool(ts[i], pendingToolParts[ts[i]])])
    /\ partText' = [p \in Parts |-> IF p \in texts THEN pendingParts[p] ELSE partText[p]]
    /\ pendingParts' = [p \in Parts |-> IF p \in texts THEN <<>> ELSE pendingParts[p]]
    /\ pendingToolParts' = [p \in ToolParts |-> IF p \in tools THEN "none" ELSE pendingToolParts[p]]
    /\ UNCHANGED <<written, toolStatus, opened, idled, textTyped, reader, events>>

\* Mutant: what deltas brought before is not taken off.
DifferenceWhole(p, prev, next) ==
    IF next = <<>> THEN <<>> ELSE <<Delta(p, next)>>

\* The events for a snapshot next of an assistant's part whose text was prev.
Difference(p, prev, next) ==
    CASE next = <<>> -> <<>>
      [] next # <<>> /\ (prev = <<>> \/ ~IsPrefix(prev, next)) -> <<Set(p, next)>>
      [] prev # <<>> /\ IsStrictPrefix(prev, next) ->
           <<Delta(p, SubSeq(next, Len(prev) + 1, Len(next)))>>
      [] OTHER -> <<>>

\* Mutant: the role is not asked.
TextUpdatedOfAnyMessage(p) ==
    /\ Listening
    /\ p \in TextParts
    /\ \E k \in written[p]..MaxText[p] :
         /\ written' = [written EXCEPT ![p] = k]
         /\ partText' = [partText EXCEPT ![p] = Text(p, k)]
         /\ Emit(Difference(p, partText[p], Text(p, k)))
    /\ opened' = opened \cup {p}
    /\ textTyped' = textTyped \cup {p}
    /\ UNCHANGED <<toolStatus, told, idled, assistantMsgIDs, pendingParts, pendingToolParts,
                   reader, events>>

\* message.part.updated with the whole text so far.
TextUpdated(p) ==
    /\ Listening
    /\ p \in TextParts
    /\ \E k \in written[p]..MaxText[p] :
         /\ written' = [written EXCEPT ![p] = k]
         /\ IF MessageOf[p] \in assistantMsgIDs
            THEN /\ partText' = [partText EXCEPT ![p] = Text(p, k)]
                 /\ Emit(Difference(p, partText[p], Text(p, k)))
                 /\ UNCHANGED pendingParts
            ELSE /\ pendingParts' = [pendingParts EXCEPT ![p] = Text(p, k)]
                 /\ Quiet
                 /\ UNCHANGED partText
    /\ opened' = opened \cup {p}
    /\ textTyped' = textTyped \cup {p}
    /\ UNCHANGED <<toolStatus, told, idled, assistantMsgIDs, pendingToolParts, reader, events>>

\* message.part.delta of the field "text", which may or may not name the
\* part's type; the server has announced the part before.  Without a known
\* type it is skipped.
TextDelta(p) ==
    /\ Listening
    /\ p \in opened \cup ReasoningParts
    /\ written[p] < MaxText[p]
    /\ written' = [written EXCEPT ![p] = @ + 1]
    /\ \E named \in BOOLEAN :
         textTyped' = IF ~named THEN textTyped
                      ELSE IF p \in TextParts THEN textTyped \cup {p} ELSE textTyped \ {p}
    /\ LET token == << <<p, written[p] + 1>> >> IN
       CASE p \notin textTyped' ->
              Quiet /\ UNCHANGED <<partText, pendingParts>>
         [] p \in textTyped' /\ MessageOf[p] \notin assistantMsgIDs ->
              /\ pendingParts' = [pendingParts EXCEPT ![p] = @ \o token]
              /\ Quiet
              /\ UNCHANGED partText
         [] p \in textTyped' /\ MessageOf[p] \in assistantMsgIDs ->
              /\ partText' = [partText EXCEPT ![p] = @ \o token]
              /\ Emit(<<Delta(p, token)>>)
              /\ UNCHANGED pendingParts
    /\ UNCHANGED <<toolStatus, opened, told, idled, assistantMsgIDs, pendingToolParts, reader, events>>

\* message.part.updated of a tool call whose status changed.
ToolUpdated(p) ==
    /\ Listening
    /\ p \in ToolParts
    /\ \E status \in After(toolStatus[p]) :
         /\ toolStatus' = [toolStatus EXCEPT ![p] = status]
         /\ IF MessageOf[p] \in assistantMsgIDs
            THEN Emit(<<Tool(p, status)>>) /\ UNCHANGED pendingToolParts
            ELSE /\ pendingToolParts' = [pendingToolParts EXCEPT ![p] = status]
                 /\ Quiet
    /\ UNCHANGED <<written, opened, told, idled, assistantMsgIDs, partText, textTyped, pendingParts, reader, events>>

\* The server has told the role of each assistant message it wrote to.
RolesReported ==
    \A p \in Parts :
        MessageOf[p] \in Assistants \ told =>
            /\ written[p] = 0
            /\ p \in ToolParts => toolStatus[p] = "none"

\* Mutant: the loop goes on to the next line.
SessionIdleReadsOn ==
    /\ Listening
    /\ RolesReported
    /\ idled' = TRUE
    /\ Emit(<<Done>>)
    /\ UNCHANGED <<written, toolStatus, opened, told, streamState, reader, events>>

\* session.idle.
SessionIdle ==
    /\ Listening
    /\ RolesReported
    /\ idled' = TRUE
    /\ Emit(<<Done>>)
    /\ reader' = "closing"
    /\ UNCHANGED <<written, toolStatus, opened, told, streamState, events>>

\* sendRenderEvent.
Send ==
    /\ reader # "closed"
    /\ todo # <<>>
    /\ Len(events) < Capacity
    /\ events' = Append(events, Head(todo))
    /\ todo' = Tail(todo)
    /\ UNCHANGED <<server, streamState, reader, sent>>

\* The deferred close of the channel.
CloseChannel ==
    /\ reader = "closing"
    /\ todo = <<>>
    /\ reader' = "closed"
    /\ UNCHANGED <<server, streamState, todo, sent, events>>

\* The stream ends early: the connection breaks, a permission cannot be
\* answered, or a reset cancels the context, also while a send is blocked.
StreamStops ==
    /\ reader # "closed"
    /\ reader' = "closed"
    /\ todo' = <<>>
    /\ UNCHANGED <<server, streamState, sent, events>>

ReducerNext ==
    \/ \E m \in Messages : MessageUpdated(m)
    \/ \E p \in Parts : TextUpdated(p) \/ TextDelta(p) \/ ToolUpdated(p)
    \/ SessionIdle \/ Send \/ CloseChannel \/ StreamStops

\* Whoever reads the channel.
Receive ==
    /\ events # <<>>
    /\ events' = Tail(events)
    /\ UNCHANGED <<server, streamState, goroutine>>

ReducerSpec == ReducerInit /\ [][ReducerNext \/ Receive]_reducerVars

-----------------------------------------------------------------------------
\* A part whose content belongs into the answer.
ForTheReader(p) == p \in TextParts \cup ToolParts /\ MessageOf[p] \in Assistants

(***************************************************************************)
(* Nothing of the user's own message and no reasoning gets into the        *)
(* channel, in whatever order roles, types and texts are reported ("This   *)
(* avoids echoing the user's text part", opencode_generator.go 1311).      *)
(***************************************************************************)
NoEcho ==
    \A e \in ToSet(events) \cup ToSet(todo) : e.type # "done" => ForTheReader(e.part)

(***************************************************************************)
(* Of an assistant's text everything written so far has been sent, once,   *)
(* as soon as the role is known: held-back text, snapshots that repeat     *)
(* what deltas brought, and deltas that were held back all add up.         *)
(***************************************************************************)
TextAddsUp ==
    \A p \in TextParts :
        MessageOf[p] \in assistantMsgIDs => sent[p] = Text(p, written[p])
=============================================================================

------------------------------ MODULE ReplyProofs ------------------------------
(* Theorems about what a reply shows: the last edit, the tool calls and the *)
(* texts, on top of what StreamingReplyProofs shows of the reducer.         *)
EXTENDS StreamingReplyProofs

\* The events on their way from the reducer to the reply.
Underway == events \o todo

\* The stream has not been cut short.
Unbroken == reader = "reading" \/ idled

-----------------------------------------------------------------------------
(* Sequences of events, and what they say of tool calls.                   *)

IsToolOf(e, p) == e.type = "tool" /\ e.part = p

\* Nothing about the call p.
NoneOf(s, p) == \A i \in 1..Len(s) : ~IsToolOf(s[i], p)

\* The last event about the call p gives it this status.
LastIs(s, p, status) ==
    \E i \in 1..Len(s) :
        /\ IsToolOf(s[i], p) /\ s[i].status = status
        /\ \A j \in 1..Len(s) : j > i => ~IsToolOf(s[j], p)

-----------------------------------------------------------------------------
(* The invariants.                                                         *)

\* Idle comes last, and a reply that was sent is past the end of the stream.
EndInv ==
    /\ mode \in Modes
    /\ result \in {"running", "sent", "failed"}
    /\ told = assistantMsgIDs
    /\ idled => reader # "reading" /\ RolesReported /\ todo \in {<<>>, <<Done>>}
    /\ reader = "closing" => idled
    /\ reader = "closed" => todo = <<>>
    /\ result = "sent" =>
         /\ StreamEnded
         /\ IF mode = "collect" THEN lastSent = Rendered ELSE ~dirty

\* Each call has one row, which is the row of the reply.
Row(p) == [part |-> p, status |-> toolStatus[p]]

ToolInv(p) ==
    IF MessageOf[p] \in assistantMsgIDs
    THEN /\ pendingToolParts[p] = "none"
         /\ toolStatus[p] # "none" =>
              \/ LastIs(Underway, p, toolStatus[p])
              \/ NoneOf(Underway, p) /\ \E i \in DOMAIN tools : tools[i] = Row(p)
    ELSE pendingToolParts[p] = toolStatus[p]

Rows == [part : Parts, status : Status]
OneRowEach(s) == \A i, j \in 1..Len(s) : s[i].part = s[j].part => i = j

ToolsInv ==
    /\ EchoInv
    /\ EndInv
    /\ tools \in Seq(Rows)
    /\ OneRowEach(tools)
    /\ mode # "collect" /\ Unbroken => \A p \in ToolParts : ToolInv(p)

-----------------------------------------------------------------------------
(* The order of tokens.                                                    *)

IsText(e) == e.type \in {"text_delta", "text_set"}

\* Of one part the token t comes earlier.
Before(t, u) == t[1] = u[1] => t[2] < u[2]

Holds(s, u) == \E i \in 1..Len(s) : IsText(s[i]) /\ u \in ToSet(s[i].text)

Ordered(text) == \A i, j \in 1..Len(text) : i < j => Before(text[i], text[j])

InOrder(s) ==
    /\ \A i \in 1..Len(s) : IsText(s[i]) => Ordered(s[i].text)
    /\ \A i, j \in 1..Len(s) : i < j /\ IsText(s[i]) /\ IsText(s[j]) =>
         \A t \in ToSet(s[i].text), u \in ToSet(s[j].text) : Before(t, u)

\* A text is its part's, and one that replaces others starts at the first token.
OwnText(e) ==
    /\ \A u \in ToSet(e.text) : u[1] = e.part
    /\ e.type = "text_set" => <<e.part, 1>> \in ToSet(e.text)

OwnTexts(s) == \A i \in 1..Len(s) : IsText(s[i]) => OwnText(s[i])

\* A token of an answer, written by now.
Published(u) ==
    /\ u[1] \in TextParts /\ MessageOf[u[1]] \in assistantMsgIDs
    /\ u[2] \in 1..written[u[1]]

OrderInv ==
    /\ AddsUpInv
    /\ answer \in Seq(Token)
    /\ \A u \in ToSet(answer) : Published(u)
    /\ \A u \in Token : Holds(Underway, u) => Published(u)
    /\ Ordered(answer)
    /\ InOrder(Underway)
    /\ OwnTexts(Underway)
    /\ \A t \in ToSet(answer), u \in Token : Holds(Underway, u) => Before(t, u)
    /\ chunkText \in [Parts -> Seq(Token)]
    /\ mode = "collect" => \A p \in Parts :
         \A u \in ToSet(chunkText[p]) : u[1] = p /\ u \in ToSet(answer)

\* No token is lost between the server and the answer.
Arrives(p) ==
    \A u \in Token :
        u[1] = p /\ Published(u) => u \in ToSet(answer) \/ Holds(Underway, u)

WholeInv ==
    /\ OrderInv
    /\ EndInv
    /\ Unbroken => \A p \in TextParts :
         mode = "collect" \/ TextsWritten \subseteq {p} => Arrives(p)

-----------------------------------------------------------------------------
(* Lemmas about these operators.                                           *)

LEMMA ConcatAt ==
  ASSUME NEW S, NEW s \in Seq(S), NEW u \in Seq(S)
  PROVE /\ s \o u \in Seq(S)
        /\ Len(s \o u) = Len(s) + Len(u)
        /\ Len(s) \in Nat /\ Len(u) \in Nat
        /\ \A i \in 1..Len(s) : (s \o u)[i] = s[i]
        /\ \A i \in 1..Len(u) : (s \o u)[Len(s) + i] = u[i]
        /\ \A i \in 1..Len(s \o u) :
             \/ i \in 1..Len(s) /\ (s \o u)[i] = s[i]
             \/ i - Len(s) \in 1..Len(u) /\ (s \o u)[i] = u[i - Len(s)]
<1>1. Len(s) \in Nat /\ Len(u) \in Nat
  BY LenProperties
<1>2. /\ s \o u \in Seq(S)
      /\ Len(s \o u) = Len(s) + Len(u)
      /\ \A i \in 1..(Len(s) + Len(u)) :
           (s \o u)[i] = IF i <= Len(s) THEN s[i] ELSE u[i - Len(s)]
  BY ConcatProperties
<1> QED
  BY <1>1, <1>2

LEMMA TailAt ==
  ASSUME NEW S, NEW s \in Seq(S), s # <<>>
  PROVE /\ Tail(s) \in Seq(S) /\ Head(s) \in S /\ Head(s) = s[1]
        /\ Len(s) \in Nat \ {0} /\ Len(Tail(s)) = Len(s) - 1
        /\ \A i \in 1..Len(Tail(s)) : i + 1 \in 1..Len(s) /\ Tail(s)[i] = s[i + 1]
<1>1. Len(s) \in Nat \ {0}
  BY EmptySeq
<1>2. Head(s) = s[1]
  OBVIOUS
<1> QED
  BY <1>1, <1>2, HeadTailProperties

LEMMA NoneOfConcat ==
  ASSUME NEW S, NEW s \in Seq(S), NEW u \in Seq(S), NEW p
  PROVE NoneOf(s \o u, p) <=> NoneOf(s, p) /\ NoneOf(u, p)
<1>1. NoneOf(s, p) /\ NoneOf(u, p) => NoneOf(s \o u, p)
  BY ConcatAt DEF NoneOf
<1>2. ASSUME NoneOf(s \o u, p) PROVE NoneOf(s, p)
  BY <1>2, ConcatAt DEF NoneOf
<1>3. ASSUME NoneOf(s \o u, p) PROVE NoneOf(u, p)
  <2> SUFFICES ASSUME NEW i \in 1..Len(u) PROVE ~IsToolOf(u[i], p)
    BY DEF NoneOf
  <2>1. Len(s) + i \in 1..Len(s \o u) /\ (s \o u)[Len(s) + i] = u[i]
    BY ConcatAt
  <2> QED
    BY <1>3, <2>1 DEF NoneOf
<1> QED
  BY <1>1, <1>2, <1>3

\* What comes last in the second of two sequences comes last in both, ...
LEMMA LastIsRight ==
  ASSUME NEW S, NEW s \in Seq(S), NEW u \in Seq(S), NEW p, NEW status, LastIs(u, p, status)
  PROVE LastIs(s \o u, p, status)
<1>1. PICK i \in 1..Len(u) :
        /\ IsToolOf(u[i], p) /\ u[i].status = status
        /\ \A j \in 1..Len(u) : j > i => ~IsToolOf(u[j], p)
  BY DEF LastIs
<1> DEFINE k == Len(s) + i
<1>2. k \in 1..Len(s \o u) /\ (s \o u)[k] = u[i]
  BY ConcatAt
<1>3. ASSUME NEW j \in 1..Len(s \o u), j > k PROVE ~IsToolOf((s \o u)[j], p)
  <2>1. j - Len(s) \in 1..Len(u) /\ (s \o u)[j] = u[j - Len(s)] /\ j - Len(s) > i
    BY <1>3, ConcatAt
  <2> QED
    BY <1>1, <2>1
<1> QED
  BY <1>1, <1>2, <1>3 DEF LastIs

\* ... and what comes last in the first when the second has none.
LEMMA LastIsLeft ==
  ASSUME NEW S, NEW s \in Seq(S), NEW u \in Seq(S), NEW p, NEW status,
         LastIs(s, p, status), NoneOf(u, p)
  PROVE LastIs(s \o u, p, status)
<1>1. PICK i \in 1..Len(s) :
        /\ IsToolOf(s[i], p) /\ s[i].status = status
        /\ \A j \in 1..Len(s) : j > i => ~IsToolOf(s[j], p)
  BY DEF LastIs
<1>2. i \in 1..Len(s \o u) /\ (s \o u)[i] = s[i]
  BY ConcatAt
<1>3. ASSUME NEW j \in 1..Len(s \o u), j > i PROVE ~IsToolOf((s \o u)[j], p)
  <2>1. \/ j \in 1..Len(s) /\ (s \o u)[j] = s[j]
        \/ j - Len(s) \in 1..Len(u) /\ (s \o u)[j] = u[j - Len(s)]
    BY <1>3, ConcatAt
  <2> QED
    BY <1>1, <1>3, <2>1 DEF NoneOf
<1> QED
  BY <1>1, <1>2, <1>3 DEF LastIs

LEMMA LastIsTail ==
  ASSUME NEW S, NEW s \in Seq(S), s # <<>>, NEW p, NEW status, LastIs(s, p, status)
  PROVE \/ LastIs(Tail(s), p, status)
        \/ /\ NoneOf(Tail(s), p)
           /\ IsToolOf(Head(s), p) /\ Head(s).status = status
<1>1. PICK i \in 1..Len(s) :
        /\ IsToolOf(s[i], p) /\ s[i].status = status
        /\ \A j \in 1..Len(s) : j > i => ~IsToolOf(s[j], p)
  BY DEF LastIs
<1>2. \A j \in 1..Len(Tail(s)) : j + 1 \in 1..Len(s) /\ Tail(s)[j] = s[j + 1]
  BY TailAt
<1>3. CASE i = 1
  <2>1. NoneOf(Tail(s), p)
    BY <1>1, <1>2, <1>3 DEF NoneOf
  <2>2. Head(s) = s[i]
    BY <1>3, TailAt
  <2> QED
    BY <1>1, <2>1, <2>2
<1>4. CASE i > 1
  <2> DEFINE k == i - 1
  <2>1. k \in 1..Len(Tail(s)) /\ Tail(s)[k] = s[i]
    BY <1>4, TailAt
  <2>2. \A j \in 1..Len(Tail(s)) : j > k => ~IsToolOf(Tail(s)[j], p)
    BY <1>1, <1>2, <1>4
  <2> QED
    BY <1>1, <2>1, <2>2 DEF LastIs
<1> QED
  BY <1>3, <1>4

LEMMA NoneOfTail ==
  ASSUME NEW S, NEW s \in Seq(S), s # <<>>, NEW p, NoneOf(s, p)
  PROVE NoneOf(Tail(s), p) /\ ~IsToolOf(Head(s), p)
<1>1. Head(s) = s[1] /\ 1 \in 1..Len(s)
  BY TailAt
<1>2. \A j \in 1..Len(Tail(s)) : j + 1 \in 1..Len(s) /\ Tail(s)[j] = s[j + 1]
  BY TailAt
<1> QED
  BY <1>1, <1>2 DEF NoneOf

\* One event.
LEMMA SingleTool ==
  ASSUME NEW e, NEW p
  PROVE /\ IsToolOf(e, p) => LastIs(<<e>>, p, e.status)
        /\ ~IsToolOf(e, p) => NoneOf(<<e>>, p)
<1>1. Len(<<e>>) = 1 /\ <<e>>[1] = e
  OBVIOUS
<1> QED
  BY <1>1 DEF LastIs, NoneOf

-----------------------------------------------------------------------------
(* The last edit.                                                          *)

\* What a step that leaves the rendering alone does not disturb.
LEMMA RenderingUntouched ==
  ASSUME ShowsWhatIsRendered, UNCHANGED <<mode, answer, tools, dirty, lastSent, result>>
  PROVE ShowsWhatIsRendered'
  BY DEF ShowsWhatIsRendered, Rendered, ToolLines

LEMMA FlushShows ==
  ASSUME NEW current \in Flushes, lastSent' = current, UNCHANGED <<mode, answer, tools>>
  PROVE ShowsWhatIsRendered'
<1>1. /\ current \in {Rendered, [Rendered EXCEPT !.notice = TRUE]}
      /\ current.notice => answer = <<>>
  BY DEF Flushes, Rendered
<1>2. Rendered' = Rendered
  BY DEF Rendered, ToolLines
<1> HIDE DEF Rendered
<1> QED
  BY <1>1, <1>2 DEF ShowsWhatIsRendered

LEMMA ApplyShows == ASSUME ShowsWhatIsRendered, Apply PROVE ShowsWhatIsRendered'
<1>1. CASE dirty'
  BY <1>1 DEF ShowsWhatIsRendered
<1>2. CASE ~dirty'
  <2>1. UNCHANGED <<answer, tools>> /\ ~dirty
    <3>1. CASE ApplyTextDelta(Head(events))
      BY <3>1, <1>2 DEF ApplyTextDelta
    <3>2. CASE ApplyTextSet(Head(events))
      <4>1. dirty' = (dirty \/ answer' # answer) /\ tools' = tools
        BY <3>2 DEF ApplyTextSet
      <4> QED
        BY <4>1, <1>2, Zenon
    <3>3. CASE UpsertTool(Head(events))
      <4>1. dirty' = (dirty \/ tools' # tools) /\ answer' = answer
        BY <3>3, Zenon DEF UpsertTool
      <4> QED
        BY <4>1, <1>2, Zenon
    <3>4. CASE UNCHANGED <<answer, tools, dirty>>
      BY <3>4, <1>2
    <3> QED
      BY <3>1, <3>2, <3>3, <3>4 DEF Apply
  <2>2. UNCHANGED <<mode, lastSent, result>>
    BY DEF Apply
  <2> QED
    BY <2>1, <2>2 DEF ShowsWhatIsRendered, Rendered, ToolLines
<1> QED
  BY <1>1, <1>2

LEMMA TickShows == ASSUME ShowsWhatIsRendered, Tick PROVE ShowsWhatIsRendered'
<1>1. PICK current \in Flushes :
        IF current = lastSent /\ ~current.notice
        THEN dirty' = FALSE /\ UNCHANGED <<lastSent, result>>
        ELSE Update(current)
  BY DEF Tick
<1>2. UNCHANGED <<mode, answer, tools>>
  BY DEF Tick
<1>3. CASE lastSent' = current
  BY <1>2, <1>3, FlushShows
<1>4. CASE result' = "failed"
  BY <1>4 DEF ShowsWhatIsRendered
<1> QED
  BY <1>1, <1>3, <1>4 DEF Update

LEMMA FinishShows == ASSUME Finish PROVE ShowsWhatIsRendered'
<1>1. PICK current \in Flushes : lastSent' = current \/ result' = "failed"
  BY DEF Finish
<1>2. UNCHANGED <<mode, answer, tools>>
  BY DEF Finish
<1>3. CASE lastSent' = current
  BY <1>2, <1>3, FlushShows
<1>4. CASE result' = "failed"
  BY <1>4 DEF ShowsWhatIsRendered
<1> QED
  BY <1>1, <1>3, <1>4

(***************************************************************************)
(* Between two ticks the reply may lag behind, and then it is marked; a    *)
(* reply that is not marked, and the last one above all, shows what the    *)
(* renderer has.                                                           *)
(***************************************************************************)
THEOREM RepliesAreNotLeftBehind == Spec => []ShowsWhatIsRendered
<1>1. Init => ShowsWhatIsRendered
  BY DEF Init, Placeholder, ShowsWhatIsRendered, Rendered, ToolLines
<1>2. ASSUME ShowsWhatIsRendered, [Next]_vars PROVE ShowsWhatIsRendered'
  <2>1. CASE Reducer \/ UNCHANGED vars
    BY <1>2, <2>1, RenderingUntouched DEF Reducer, replyVars, vars
  <2>2. CASE Collect \/ WriteOnce
    BY <2>2 DEF Collect, WriteOnce, Collecting, ShowsWhatIsRendered
  <2>3. CASE ContextDone
    BY <2>3 DEF ContextDone, ShowsWhatIsRendered
  <2> QED
    BY <1>2, <2>1, <2>2, <2>3, ApplyShows, TickShows, FinishShows DEF Next
<1> QED
  BY <1>1, <1>2, PTL DEF Spec

-----------------------------------------------------------------------------
(* The end of the stream.                                                  *)

\* Nothing more comes from a reader that has closed its channel.
LEMMA ReadersCloseLast == ReducerNext => reader # "closed"
  BY DEF ReducerNext, MessageUpdated, TextUpdated, TextDelta, ToolUpdated, SessionIdle,
         Listening, Send, CloseChannel, StreamStops

\* The lines before session.idle.
Line == (\E m \in Messages : MessageUpdated(m))
          \/ \E p \in Parts : TextUpdated(p) \/ TextDelta(p) \/ ToolUpdated(p)

LEMMA LineFacts ==
  ASSUME Line
  PROVE /\ reader = "reading" /\ todo = <<>> /\ ~idled
        /\ UNCHANGED <<reader, idled, events>>
  BY DEF Line, MessageUpdated, TextUpdated, TextDelta, ToolUpdated, Listening

LEMMA LinesKeepRoles ==
  ASSUME Line, told = assistantMsgIDs
  PROVE told' = assistantMsgIDs'
  BY DEF Line, MessageUpdated, TextUpdated, TextDelta, ToolUpdated

LEMMA EndInit == Init => EndInv
<1> SUFFICES ASSUME Init PROVE EndInv
  OBVIOUS
<1>1. ~idled /\ reader = "reading" /\ told = {} /\ assistantMsgIDs = {}
  BY DEF Init, ReducerInit
<1>2. mode \in Modes /\ result = "running"
  BY DEF Init
<1> QED
  BY <1>1, <1>2 DEF EndInv

LEMMA ReducerKeepsEndInv ==
  ASSUME EchoInv, EndInv, ReducerNext, UNCHANGED replyVars
  PROVE EndInv'
<1>1. UNCHANGED <<mode, result>> /\ result # "sent"
  BY ReadersCloseLast DEF replyVars, EndInv, StreamEnded
<1>2. mode' \in Modes /\ result' \in {"running", "failed"}
  BY <1>1 DEF EndInv
<1>3. CASE Line
  <2>1. reader' = "reading" /\ ~idled'
    BY <1>3, LineFacts
  <2>2. told' = assistantMsgIDs'
    BY <1>3, LinesKeepRoles DEF EndInv
  <2> QED
    BY <1>2, <2>1, <2>2 DEF EndInv
<1>4. CASE SessionIdle
  <2>1. reader' = "closing" /\ idled' /\ todo' = <<Done>> /\ told' = told
        /\ assistantMsgIDs' = assistantMsgIDs
    BY <1>4 DEF SessionIdle, Emit, streamState
  <2>2. RolesReported'
    BY <1>4 DEF SessionIdle, RolesReported
  <2> QED
    BY <1>2, <2>1, <2>2 DEF EndInv
<1>5. CASE Send \/ CloseChannel \/ StreamStops
  <2>1. UNCHANGED <<idled, told, assistantMsgIDs, toolStatus, written>>
    BY <1>5 DEF Send, CloseChannel, StreamStops, server, streamState
  <2>2. idled => RolesReported'
    BY <2>1 DEF EndInv, RolesReported
  <2>3. CASE Send
    <3>1. Tail(<<Done>>) = <<>>
      OBVIOUS
    <3>2. reader' = reader /\ todo' = Tail(todo) /\ todo # <<>> /\ reader # "closed"
      BY <2>3 DEF Send
    <3>3. idled => todo' = <<>>
      BY <3>1, <3>2 DEF EndInv
    <3> QED
      BY <1>2, <2>1, <2>2, <3>2, <3>3 DEF EndInv
  <2>4. CASE CloseChannel
    <3>1. reader = "closing" /\ reader' = "closed" /\ todo' = <<>>
      BY <2>4 DEF CloseChannel
    <3> QED
      BY <1>2, <2>1, <2>2, <3>1 DEF EndInv
  <2>5. CASE StreamStops
    <3>1. reader' = "closed" /\ todo' = <<>>
      BY <2>5 DEF StreamStops
    <3> QED
      BY <1>2, <2>1, <2>2, <3>1 DEF EndInv
  <2> QED
    BY <1>5, <2>3, <2>4, <2>5
<1> QED
  BY <1>3, <1>4, <1>5 DEF ReducerNext, Line

\* Only the steps of a running reply are left.
LEMMA ReplyKeepsEndInv ==
  ASSUME EndInv, Apply \/ Tick \/ Finish \/ Collect \/ WriteOnce \/ ContextDone
  PROVE EndInv'
<1>1. /\ UNCHANGED <<mode, told, assistantMsgIDs, idled, reader, todo, toolStatus, written>>
      /\ result' \in {"running", "sent", "failed"}
      /\ result = "running"
  <2>1. CASE Apply \/ Collect
    BY <2>1 DEF Apply, Collect, Rendering, Collecting, Receive, server, streamState, goroutine
  <2>2. CASE Tick
    BY <2>2 DEF Tick, Update, Rendering, reducerVars, server, streamState, goroutine
  <2>3. CASE Finish \/ WriteOnce \/ ContextDone
    BY <2>3 DEF Finish, WriteOnce, ContextDone, Rendering, Collecting, reducerVars, server,
                streamState, goroutine
  <2> QED
    BY <2>1, <2>2, <2>3
<1>2. idled' => RolesReported'
  BY <1>1 DEF EndInv, RolesReported
<1>3. CASE Apply \/ Collect \/ Tick \/ ContextDone
  <2>1. result' # "sent"
    BY <1>1, <1>3 DEF Apply, Collect, Tick, Update, ContextDone
  <2> QED
    BY <1>1, <1>2, <2>1 DEF EndInv
<1>4. CASE Finish \/ WriteOnce
  <2>1. StreamEnded'
    BY <1>4 DEF Finish, WriteOnce, StreamEnded, reducerVars, goroutine
  <2>2. Rendered' = Rendered
    BY <1>4 DEF Finish, WriteOnce, Rendered, ToolLines
  <2>3. result' = "sent" => IF mode' = "collect" THEN lastSent' = Rendered ELSE ~dirty'
    BY <1>4 DEF Finish, WriteOnce, Rendering, Collecting
  <2> QED
    BY <1>1, <1>2, <2>1, <2>2, <2>3 DEF EndInv
<1> QED
  BY <1>3, <1>4

LEMMA NextKeepsEndInv == ASSUME EchoInv, EndInv, [Next]_vars PROVE EndInv'
<1>1. CASE UNCHANGED vars
  BY <1>1 DEF vars, reducerVars, replyVars, server, streamState, goroutine, EndInv,
     RolesReported, StreamEnded, Rendered, ToolLines
<1> QED
  BY <1>1, ReducerKeepsEndInv, ReplyKeepsEndInv DEF Next, Reducer

LEMMA ReplyEchoInv == EchoInv /\ [Next]_vars => EchoInv'
  BY NextIsAReducerStep, ReducerKeepsEchoInv

-----------------------------------------------------------------------------
(* What is underway.                                                       *)

LEMMA UnderwayTypes ==
  EchoInv => events \in Seq(Harmless) /\ todo \in Seq(Harmless) /\ Underway \in Seq(Harmless)
  BY ConcatAt DEF EchoInv, Underway

LEMMA MoveHead ==
  ASSUME NEW S, NEW s \in Seq(S), NEW u \in Seq(S), u # <<>>
  PROVE Append(s, Head(u)) \o Tail(u) = s \o u
<1> DEFINE a == Append(s, Head(u))
           l == a \o Tail(u)
           r == s \o u
<1>1. Head(u) \in S /\ Head(u) = u[1] /\ Tail(u) \in Seq(S) /\ Len(u) \in Nat \ {0}
      /\ Len(Tail(u)) = Len(u) - 1
      /\ \A i \in 1..Len(Tail(u)) : Tail(u)[i] = u[i + 1]
  BY TailAt
<1>2. /\ a \in Seq(S) /\ Len(a) = Len(s) + 1 /\ Len(s) \in Nat
      /\ \A i \in 1..Len(s) : a[i] = s[i]
      /\ a[Len(s) + 1] = Head(u)
  BY <1>1, AppendProperties, LenProperties
<1>3. /\ l \in Seq(S) /\ Len(l) = Len(s) + Len(u)
      /\ \A i \in 1..(Len(s) + Len(u)) :
           l[i] = IF i <= Len(s) + 1 THEN a[i] ELSE Tail(u)[i - (Len(s) + 1)]
  <2> DEFINE v == Tail(u)
  <2>1. v \in Seq(S) /\ a \in Seq(S) /\ Len(a) = Len(s) + 1 /\ Len(v) = Len(u) - 1
    BY <1>1, <1>2
  <2> HIDE DEF a, v
  <2>2. /\ a \o v \in Seq(S) /\ Len(a \o v) = Len(a) + Len(v)
        /\ \A i \in 1..(Len(a) + Len(v)) :
             (a \o v)[i] = IF i <= Len(a) THEN a[i] ELSE v[i - Len(a)]
    BY <2>1, ConcatProperties
  <2>3. Len(a) + Len(v) = Len(s) + Len(u)
    BY <1>1, <1>2, <2>1
  <2> QED
    BY <2>1, <2>2, <2>3 DEF v
<1>4. /\ r \in Seq(S) /\ Len(r) = Len(s) + Len(u)
      /\ \A i \in 1..(Len(s) + Len(u)) : r[i] = IF i <= Len(s) THEN s[i] ELSE u[i - Len(s)]
  BY <1>1, <1>2, ConcatProperties
<1> HIDE DEF a, l, r
<1>5. ASSUME NEW i \in 1..(Len(s) + Len(u)) PROVE l[i] = r[i]
  <2>1. CASE i <= Len(s)
    <3>1. i \in 1..Len(s) /\ i <= Len(s) + 1
      BY <1>1, <1>2, <2>1
    <3>2. a[i] = s[i]
      BY <1>2, <3>1
    <3> QED
      BY <1>3, <1>4, <2>1, <3>1, <3>2
  <2>2. CASE i = Len(s) + 1
    BY <1>1, <1>2, <1>3, <1>4, <2>2
  <2>3. CASE i > Len(s) + 1
    <3>1. i - (Len(s) + 1) \in 1..Len(Tail(u))
      BY <1>1, <1>2, <2>3
    <3>2. Tail(u)[i - (Len(s) + 1)] = u[i - Len(s)]
      BY <1>1, <1>2, <2>3, <3>1
    <3> QED
      BY <1>2, <1>3, <1>4, <2>3, <3>2
  <2> QED
    BY <1>1, <1>2, <2>1, <2>2, <2>3
<1>6. l = r
  BY <1>3, <1>4, <1>5, SeqEqual
<1> QED
  BY <1>6 DEF a, l, r

LEMMA SendingMovesNothing == EchoInv /\ Send => Underway' = Underway
<1> SUFFICES ASSUME EchoInv, Send PROVE Underway' = Underway
  OBVIOUS
<1>1. events \in Seq(Harmless) /\ todo \in Seq(Harmless) /\ todo # <<>>
  BY UnderwayTypes DEF Send
<1>2. Append(events, Head(todo)) \o Tail(todo) = events \o todo
  BY <1>1, MoveHead
<1> QED
  BY <1>2 DEF Send, Underway

LEMMA HeadOfConcat ==
  ASSUME NEW S, NEW s \in Seq(S), NEW u \in Seq(S), s # <<>>
  PROVE s \o u # <<>> /\ Head(s \o u) = Head(s) /\ Tail(s \o u) = Tail(s) \o u
<1>1. Len(s) \in Nat \ {0} /\ Len(u) \in Nat
  BY EmptySeq, LenProperties
<1>2. /\ s \o u \in Seq(S) /\ Len(s \o u) = Len(s) + Len(u)
      /\ \A i \in 1..(Len(s) + Len(u)) :
           (s \o u)[i] = IF i <= Len(s) THEN s[i] ELSE u[i - Len(s)]
  BY ConcatProperties
<1>3. s \o u # <<>>
  BY <1>1, <1>2, EmptySeq
<1>4. Head(s \o u) = Head(s)
  BY <1>1, <1>2, <1>3, TailAt
<1> DEFINE l == Tail(s \o u)
           r == Tail(s) \o u
<1>5. /\ l \in Seq(S) /\ Len(l) = Len(s) + Len(u) - 1
      /\ \A i \in 1..Len(l) : l[i] = (s \o u)[i + 1]
  <2> DEFINE c == s \o u
  <2>1. c \in Seq(S) /\ c # <<>> /\ Len(c) = Len(s) + Len(u)
    BY <1>2, <1>3
  <2> HIDE DEF c
  <2>2. /\ Tail(c) \in Seq(S) /\ Len(Tail(c)) = Len(s) + Len(u) - 1
        /\ \A i \in 1..Len(Tail(c)) : Tail(c)[i] = c[i + 1]
    BY <2>1, TailAt
  <2> QED
    BY <2>2 DEF c
<1>6. /\ Tail(s) \in Seq(S) /\ Len(Tail(s)) = Len(s) - 1
      /\ \A i \in 1..Len(Tail(s)) : Tail(s)[i] = s[i + 1]
  BY TailAt
<1>7. /\ r \in Seq(S) /\ Len(r) = Len(s) + Len(u) - 1
      /\ \A i \in 1..(Len(s) + Len(u) - 1) :
           r[i] = IF i <= Len(s) - 1 THEN Tail(s)[i] ELSE u[i - (Len(s) - 1)]
  <2> DEFINE v == Tail(s)
  <2>1. v \in Seq(S) /\ Len(v) = Len(s) - 1
    BY <1>6
  <2> HIDE DEF v
  <2>2. /\ v \o u \in Seq(S) /\ Len(v \o u) = Len(v) + Len(u)
        /\ \A i \in 1..(Len(v) + Len(u)) :
             (v \o u)[i] = IF i <= Len(v) THEN v[i] ELSE u[i - Len(v)]
    BY <2>1, ConcatProperties
  <2>3. Len(v) + Len(u) = Len(s) + Len(u) - 1
    BY <1>1, <2>1
  <2> QED
    BY <1>1, <2>1, <2>2, <2>3 DEF v
<1> HIDE DEF l, r
<1>8. ASSUME NEW i \in 1..(Len(s) + Len(u) - 1) PROVE l[i] = r[i]
  <2>1. l[i] = IF i + 1 <= Len(s) THEN s[i + 1] ELSE u[i + 1 - Len(s)]
    BY <1>1, <1>2, <1>5
  <2>2. r[i] = IF i <= Len(s) - 1 THEN s[i + 1] ELSE u[i - (Len(s) - 1)]
    BY <1>1, <1>6, <1>7
  <2> QED
    BY <1>1, <2>1, <2>2
<1>9. l = r
  BY <1>1, <1>5, <1>7, <1>8, SeqEqual
<1> QED
  BY <1>3, <1>4, <1>9 DEF l, r

LEMMA ReceivingTakesTheHead ==
  EchoInv /\ Receive =>
    /\ Underway # <<>>
    /\ Head(Underway) = Head(events)
    /\ Underway' = Tail(Underway)
<1> SUFFICES ASSUME EchoInv, Receive
             PROVE  /\ Underway # <<>>
                    /\ Head(Underway) = Head(events)
                    /\ Underway' = Tail(Underway)
  OBVIOUS
<1>1. events \in Seq(Harmless) /\ todo \in Seq(Harmless) /\ events # <<>>
  BY UnderwayTypes DEF Receive
<1>2. /\ events \o todo # <<>> /\ Head(events \o todo) = Head(events)
      /\ Tail(events \o todo) = Tail(events) \o todo
  BY <1>1, HeadOfConcat
<1> QED
  BY <1>2 DEF Receive, goroutine, Underway

\* A line's events come after everything else.
LEMMA LinesAppend ==
  EchoInv /\ Line => Underway = events /\ Underway' = events \o todo'
<1> SUFFICES ASSUME EchoInv, Line PROVE Underway = events /\ Underway' = events \o todo'
  OBVIOUS
<1>1. events \in Seq(Harmless) /\ todo = <<>> /\ events' = events
  BY UnderwayTypes, LineFacts
<1> QED
  BY <1>1, ConcatEmptySeq DEF Underway

-----------------------------------------------------------------------------
(* Tool calls.                                                             *)

\* What was last without the events of others was last before them.
LEMMA LastIsOfLeft ==
  ASSUME NEW S, NEW s \in Seq(S), NEW u \in Seq(S), NEW p, NEW status,
         LastIs(s \o u, p, status), NoneOf(u, p)
  PROVE LastIs(s, p, status)
<1>1. PICK i \in 1..Len(s \o u) :
        /\ IsToolOf((s \o u)[i], p) /\ (s \o u)[i].status = status
        /\ \A j \in 1..Len(s \o u) : j > i => ~IsToolOf((s \o u)[j], p)
  BY DEF LastIs
<1>2. i \in 1..Len(s) /\ (s \o u)[i] = s[i]
  <2>1. \/ i \in 1..Len(s) /\ (s \o u)[i] = s[i]
        \/ i - Len(s) \in 1..Len(u) /\ (s \o u)[i] = u[i - Len(s)]
    BY ConcatAt
  <2> QED
    BY <1>1, <2>1 DEF NoneOf
<1>3. \A j \in 1..Len(s) : j \in 1..Len(s \o u) /\ (s \o u)[j] = s[j]
  BY ConcatAt
<1> QED
  BY <1>1, <1>2, <1>3 DEF LastIs

\* Steps that say nothing of a call.
LEMMA ToolCarried ==
  ASSUME EchoInv, NEW p \in ToolParts, ToolInv(p), Line, NoneOf(todo', p), todo' \in Seq(Harmless),
         MessageOf[p] \in assistantMsgIDs <=> MessageOf[p] \in assistantMsgIDs',
         tools' = tools, toolStatus'[p] = toolStatus[p], pendingToolParts'[p] = pendingToolParts[p]
  PROVE ToolInv(p)'
<1>1. events \in Seq(Harmless) /\ Underway = events /\ Underway' = events \o todo'
  BY UnderwayTypes, LinesAppend
<1>2. NoneOf(Underway, p) => NoneOf(Underway', p)
  BY <1>1, NoneOfConcat
<1>3. \A status : LastIs(Underway, p, status) => LastIs(Underway', p, status)
  BY <1>1, LastIsLeft
<1> HIDE DEF Underway
<1> QED
  BY <1>2, <1>3 DEF ToolInv, Row

LEMMA ToolTold ==
  ASSUME EchoInv, NEW p \in ToolParts, Line, todo' \in Seq(Harmless),
         LastIs(todo', p, toolStatus'[p]), pendingToolParts'[p] = "none",
         MessageOf[p] \in assistantMsgIDs'
  PROVE ToolInv(p)'
<1>1. events \in Seq(Harmless) /\ Underway' = events \o todo'
  BY UnderwayTypes, LinesAppend
<1>2. LastIs(Underway', p, toolStatus'[p])
  BY <1>1, LastIsRight
<1> HIDE DEF Underway
<1> QED
  BY <1>2 DEF ToolInv

LEMMA FunctionLen ==
  ASSUME NEW S, NEW n \in Nat, NEW f \in [1..n -> S]
  PROVE f \in Seq(S) /\ Len(f) = n
<1>1. f \in Seq(S)
  BY FunctionIsSeq
<1>2. Len(f) \in Nat /\ DOMAIN f = 1..Len(f)
  BY <1>1, LenProperties
<1>3. DOMAIN f = 1..n
  OBVIOUS
<1>4. Len(f) = n
  <2>1. n > 0 => n \in 1..Len(f)
    BY <1>2, <1>3
  <2>2. Len(f) > 0 => Len(f) \in 1..n
    BY <1>2, <1>3
  <2> QED
    BY <1>2, <2>1, <2>2
<1> QED
  BY <1>1, <1>4

\* What MessageUpdated emits.
HeldBackEvents(ps, ts) ==
    [i \in DOMAIN ps |-> Set(ps[i], pendingParts[ps[i]])]
      \o [i \in DOMAIN ts |-> Tool(ts[i], pendingToolParts[ts[i]])]

\* Held-back calls come out once, those of other messages stay.
LEMMA HeldBackCalls ==
  ASSUME EchoInv, NEW m \in Messages,
         NEW tools0 \in SUBSET ToolParts, IsFiniteSet(tools0),
         NEW ps \in SetToSeqs(HeldBackTexts(m)), NEW ts \in SetToSeqs(tools0),
         NEW p \in ToolParts
  PROVE /\ p \in tools0 => LastIs(HeldBackEvents(ps, ts), p, pendingToolParts[p])
        /\ p \notin tools0 => NoneOf(HeldBackEvents(ps, ts), p)
<1> DEFINE texts == HeldBackTexts(m)
           n == Cardinality(texts)
           k == Cardinality(tools0)
           textEvents == [i \in DOMAIN ps |-> Set(ps[i], pendingParts[ps[i]])]
           toolEvents == [i \in DOMAIN ts |-> Tool(ts[i], pendingToolParts[ts[i]])]
           S == ToSet(textEvents) \cup ToSet(toolEvents)
           evs == textEvents \o toolEvents
<1>1. IsFiniteSet(texts)
  <2>1. texts \subseteq Parts
    BY DEF HeldBackTexts, Parts
  <2> QED
    BY <2>1, PartsAssumption, FS_Subset
<1>2. n \in Nat /\ ps \in [1..n -> texts]
  BY <1>1, OrderHasAll
<1>3. k \in Nat /\ ts \in [1..k -> tools0] /\ \A q \in tools0 : \E i \in 1..k : ts[i] = q
  BY OrderHasAll
<1>4. \A i, j \in 1..k : ts[i] = ts[j] => i = j
  BY <1>3 DEF SetToSeqs
<1>5. textEvents \in Seq(S) /\ Len(textEvents) = n
  <2>1. textEvents \in [1..n -> S]
    BY <1>2 DEF ToSet
  <2> HIDE DEF textEvents, S, n, k
  <2> QED
    BY <1>2, <2>1, FunctionLen
<1>6. toolEvents \in Seq(S) /\ Len(toolEvents) = k
  <2>1. toolEvents \in [1..k -> S]
    BY <1>3 DEF ToSet
  <2> HIDE DEF toolEvents, S, n, k
  <2> QED
    BY <1>3, <2>1, FunctionLen
<1>7. NoneOf(textEvents, p)
  BY <1>2, <1>5 DEF NoneOf, IsToolOf, Set
<1>8. \A i \in 1..k : /\ toolEvents[i].type = "tool" /\ toolEvents[i].part = ts[i]
                      /\ toolEvents[i].status = pendingToolParts[ts[i]]
  BY <1>3 DEF Tool
<1> HIDE DEF textEvents, toolEvents, n, k, S
<1>9. ASSUME p \in tools0 PROVE LastIs(evs, p, pendingToolParts[p])
  <2>1. PICK i \in 1..k : ts[i] = p
    BY <1>3, <1>9
  <2>2. IsToolOf(toolEvents[i], p) /\ toolEvents[i].status = pendingToolParts[p]
    BY <1>8, <2>1 DEF IsToolOf
  <2>3. \A j \in 1..k : j > i => ~IsToolOf(toolEvents[j], p)
    BY <1>3, <1>4, <1>8, <2>1 DEF IsToolOf
  <2>4. LastIs(toolEvents, p, pendingToolParts[p])
    BY <1>6, <2>2, <2>3 DEF LastIs
  <2> QED
    BY <1>5, <1>6, <2>4, LastIsRight
<1>10. ASSUME p \notin tools0 PROVE NoneOf(evs, p)
  <2>1. \A i \in 1..k : ts[i] # p
    BY <1>3, <1>10
  <2>2. NoneOf(toolEvents, p)
    BY <1>6, <1>8, <2>1 DEF NoneOf, IsToolOf
  <2> QED
    BY <1>5, <1>6, <1>7, <2>2, NoneOfConcat
<1> QED
  BY <1>9, <1>10 DEF HeldBackEvents, textEvents, toolEvents

LEMMA MessageUpdatedKeepsTools ==
  ASSUME EchoInv, NEW m \in Messages, MessageUpdated(m), tools' = tools,
         NEW p \in ToolParts, ToolInv(p)
  PROVE ToolInv(p)'
<1> DEFINE tools0 == {q \in ToolParts : MessageOf[q] = m /\ pendingToolParts[q] # "none"}
<1>1. Line /\ EchoInv'
  BY MessageUpdatedKeepsEchoInv DEF Line
<1>2. todo' \in Seq(Harmless)
  BY <1>1 DEF EchoInv
<1>3. PICK ps \in SetToSeqs(HeldBackTexts(m)), ts \in SetToSeqs(tools0) :
        todo' = HeldBackEvents(ps, ts)
  BY DEF MessageUpdated, Emit, HeldBackEvents
<1>4. /\ toolStatus' = toolStatus /\ assistantMsgIDs' = assistantMsgIDs \cup {m}
      /\ pendingToolParts' = [q \in ToolParts |->
                                IF q \in tools0 THEN "none" ELSE pendingToolParts[q]]
  BY DEF MessageUpdated
<1>5. tools0 \in SUBSET ToolParts /\ IsFiniteSet(tools0)
  <2>1. tools0 \subseteq ToolParts /\ tools0 \subseteq Parts
    BY DEF Parts
  <2> QED
    BY <2>1, PartsAssumption, FS_Subset
<1>6. p \in tools0 <=> MessageOf[p] = m /\ pendingToolParts[p] # "none"
  OBVIOUS
<1> HIDE DEF tools0
<1>7. /\ p \in tools0 => LastIs(todo', p, pendingToolParts[p])
      /\ p \notin tools0 => NoneOf(todo', p)
  BY <1>3, <1>5, HeldBackCalls
<1>8. CASE p \in tools0
  <2>1. pendingToolParts[p] = toolStatus[p]
    BY <1>6, <1>8 DEF ToolInv
  <2>2. LastIs(todo', p, toolStatus'[p]) /\ pendingToolParts'[p] = "none"
    BY <1>4, <1>7, <1>8, <2>1
  <2> QED
    BY <1>1, <1>2, <1>4, <1>6, <1>8, <2>2, ToolTold
<1>9. CASE p \notin tools0
  <2>1. pendingToolParts'[p] = pendingToolParts[p] /\ toolStatus'[p] = toolStatus[p]
    BY <1>4, <1>9
  <2>2. CASE MessageOf[p] \in assistantMsgIDs <=> MessageOf[p] \in assistantMsgIDs'
    BY <1>1, <1>2, <1>7, <1>9, <2>1, <2>2, ToolCarried
  <2>3. CASE ~(MessageOf[p] \in assistantMsgIDs <=> MessageOf[p] \in assistantMsgIDs')
    <3>1. MessageOf[p] = m /\ MessageOf[p] \notin assistantMsgIDs
      BY <1>4, <2>3
    <3>2. toolStatus'[p] = "none" /\ pendingToolParts'[p] = "none"
      BY <1>6, <1>9, <2>1, <3>1 DEF ToolInv
    <3> QED
      BY <3>2 DEF ToolInv
  <2> QED
    BY <2>2, <2>3
<1> QED
  BY <1>8, <1>9

\* A step that reports one event, of something else.
LEMMA EmptyOrOneEvent ==
  ASSUME NEW p, NEW evs, evs = <<>> \/ \E e : evs = <<e>> /\ ~IsToolOf(e, p)
  PROVE NoneOf(evs, p)
<1>1. CASE evs = <<>>
  BY <1>1 DEF NoneOf
<1>2. CASE \E e : evs = <<e>> /\ ~IsToolOf(e, p)
  BY <1>2, SingleTool
<1> QED
  BY <1>1, <1>2

LEMMA TextsKeepTools ==
  ASSUME EchoInv, NEW q \in Parts, TextUpdated(q) \/ TextDelta(q), tools' = tools,
         NEW p \in ToolParts, ToolInv(p)
  PROVE ToolInv(p)'
<1>1. Line /\ EchoInv' /\ todo = <<>>
  BY TextUpdatedKeepsEchoInv, TextDeltaKeepsEchoInv, LineFacts DEF Line
<1>2. \A text : ~IsToolOf(Set(q, text), p) /\ ~IsToolOf(Delta(q, text), p)
  BY DEF IsToolOf, Set, Delta
<1>3. NoneOf(todo', p)
  <2>1. CASE TextUpdated(q)
    <3>1. todo' = todo \/ \E prev, next : todo' = Difference(q, prev, next)
      BY <2>1 DEF TextUpdated, Emit, Quiet
    <3>2. \A prev, next : \/ Difference(q, prev, next) = <<>>
                          \/ \E text : Difference(q, prev, next) \in {<<Set(q, text)>>, <<Delta(q, text)>>}
      BY DEF Difference
    <3> QED
      BY <1>1, <1>2, <3>1, <3>2, EmptyOrOneEvent
  <2>2. CASE TextDelta(q)
    <3>1. todo' = todo \/ \E text : todo' = <<Delta(q, text)>>
      BY <2>2 DEF TextDelta, Emit, Quiet
    <3> QED
      BY <1>1, <1>2, <3>1, EmptyOrOneEvent
  <2> QED
    BY <2>1, <2>2
<1>4. UNCHANGED <<toolStatus, assistantMsgIDs, pendingToolParts>>
  BY DEF TextUpdated, TextDelta
<1> QED
  BY <1>1, <1>3, <1>4, ToolCarried DEF EchoInv

LEMMA ToolUpdatedKeepsTools ==
  ASSUME EchoInv, NEW q \in Parts, ToolUpdated(q), tools' = tools,
         NEW p \in ToolParts, ToolInv(p)
  PROVE ToolInv(p)'
<1>1. Line /\ EchoInv' /\ todo = <<>> /\ q \in ToolParts
  BY ToolUpdatedKeepsEchoInv, LineFacts DEF Line, ToolUpdated
<1>2. PICK status \in After(toolStatus[q]) :
        /\ toolStatus' = [toolStatus EXCEPT ![q] = status]
        /\ IF MessageOf[q] \in assistantMsgIDs
           THEN Emit(<<Tool(q, status)>>) /\ UNCHANGED pendingToolParts
           ELSE /\ pendingToolParts' = [pendingToolParts EXCEPT ![q] = status]
                /\ Quiet
  BY DEF ToolUpdated
<1>3. assistantMsgIDs' = assistantMsgIDs
  BY DEF ToolUpdated
<1>4. /\ toolStatus' \in [ToolParts -> Status] /\ toolStatus'[q] = status
      /\ p # q => toolStatus'[p] = toolStatus[p]
  BY <1>1, <1>2 DEF EchoInv, TypeOK
<1>5. CASE MessageOf[q] \in assistantMsgIDs
  <2>1. todo' = <<Tool(q, status)>> /\ pendingToolParts' = pendingToolParts
    BY <1>2, <1>5 DEF Emit
  <2>2. CASE p = q
    <3>1. IsToolOf(Tool(q, status), p) /\ Tool(q, status).status = status
      BY <2>2 DEF IsToolOf, Tool
    <3>2. LastIs(todo', p, toolStatus'[p])
      BY <1>4, <2>1, <2>2, <3>1, SingleTool
    <3>3. pendingToolParts'[p] = "none"
      BY <1>5, <2>1, <2>2 DEF ToolInv
    <3> QED
      BY <1>1, <1>3, <1>5, <2>2, <3>2, <3>3, ToolTold DEF EchoInv
  <2>3. CASE p # q
    <3>1. ~IsToolOf(Tool(q, status), p)
      BY <2>3 DEF IsToolOf, Tool
    <3>2. NoneOf(todo', p)
      BY <2>1, <3>1, SingleTool
    <3> QED
      BY <1>1, <1>3, <1>4, <2>1, <2>3, <3>2, ToolCarried DEF EchoInv
  <2> QED
    BY <2>2, <2>3
<1>6. CASE MessageOf[q] \notin assistantMsgIDs
  <2>1. todo' = <<>> /\ pendingToolParts' = [pendingToolParts EXCEPT ![q] = status]
    BY <1>1, <1>2, <1>6 DEF Quiet
  <2>2. CASE p = q
    <3>1. pendingToolParts'[p] = toolStatus'[p]
      BY <1>1, <1>4, <2>1, <2>2 DEF EchoInv, TypeOK
    <3> QED
      BY <1>3, <1>6, <2>2, <3>1 DEF ToolInv
  <2>3. CASE p # q
    <3>1. pendingToolParts'[p] = pendingToolParts[p]
      BY <2>1, <2>3 DEF EchoInv, TypeOK
    <3>2. NoneOf(todo', p)
      BY <2>1, EmptyOrOneEvent
    <3> QED
      BY <1>1, <1>3, <1>4, <2>3, <3>1, <3>2, ToolCarried DEF EchoInv
  <2> QED
    BY <2>2, <2>3
<1> QED
  BY <1>5, <1>6

\* upsertTool changes one row, or adds one.
LEMMA UpsertedRows ==
  ASSUME tools \in Seq(Rows), OneRowEach(tools),
         NEW ev, ev.part \in Parts, ev.status \in Status, UpsertTool(ev)
  PROVE /\ tools' \in Seq(Rows)
        /\ OneRowEach(tools')
        /\ \E i \in DOMAIN tools' : tools'[i] = [part |-> ev.part, status |-> ev.status]
        /\ \A i \in DOMAIN tools : tools[i].part # ev.part =>
             \E j \in DOMAIN tools' : tools'[j] = tools[i]
<1> DEFINE known == {i \in DOMAIN tools : tools[i].part = ev.part}
           call == [part |-> ev.part, status |-> ev.status]
<1>1. call \in Rows /\ call.part = ev.part
  BY DEF Rows
<1>2. Len(tools) \in Nat /\ DOMAIN tools = 1..Len(tools)
  BY LenProperties
<1>3. tools' = IF known = {} THEN Append(tools, call)
               ELSE [tools EXCEPT ![CHOOSE i \in known : TRUE] = call]
  BY DEF UpsertTool
<1>4. \A i \in 1..Len(tools) : i \in known <=> tools[i].part = ev.part
  BY <1>2
<1>5. known # {} => (CHOOSE i \in known : TRUE) \in known
  OBVIOUS
<1>6. known \subseteq 1..Len(tools)
  BY <1>2
<1> HIDE DEF known, call
<1>7. CASE known = {}
  <2>1. /\ tools' \in Seq(Rows) /\ Len(tools') = Len(tools) + 1
        /\ \A i \in 1..Len(tools) : tools'[i] = tools[i]
        /\ tools'[Len(tools) + 1] = call
    BY <1>1, <1>3, <1>7, AppendProperties
  <2>2. DOMAIN tools' = 1..(Len(tools) + 1)
    BY <2>1, LenProperties
  <2>3. OneRowEach(tools')
    BY <1>1, <1>2, <1>4, <1>7, <2>1 DEF OneRowEach
  <2>4. tools'[Len(tools) + 1] = call /\ Len(tools) + 1 \in DOMAIN tools'
    BY <1>2, <2>1, <2>2
  <2>5. \A i \in DOMAIN tools : i \in DOMAIN tools' /\ tools'[i] = tools[i]
    BY <1>2, <2>1, <2>2
  <2> QED
    BY <2>1, <2>3, <2>4, <2>5 DEF call
<1>8. CASE known # {}
  <2>1. PICK k \in known : tools' = [tools EXCEPT ![k] = call]
    BY <1>3, <1>5, <1>8
  <2>2. k \in 1..Len(tools) /\ tools[k].part = ev.part
    BY <1>4, <1>6, <2>1
  <2>3. /\ tools' \in Seq(Rows) /\ Len(tools') = Len(tools)
        /\ \A i \in 1..Len(tools) : tools'[i] = IF i = k THEN call ELSE tools[i]
    BY <1>1, <2>1, <2>2, ExceptSeq
  <2>4. DOMAIN tools' = 1..Len(tools)
    BY <2>3, LenProperties
  <2>5. \A i \in 1..Len(tools) : tools'[i].part = tools[i].part
    BY <1>1, <2>2, <2>3
  <2>6. OneRowEach(tools')
    BY <2>3, <2>5 DEF OneRowEach
  <2>7. k \in DOMAIN tools' /\ tools'[k] = call
    BY <2>2, <2>3, <2>4
  <2>8. \A i \in DOMAIN tools : tools[i].part # ev.part => i \in DOMAIN tools' /\ tools'[i] = tools[i]
    BY <1>2, <2>2, <2>3, <2>4
  <2> QED
    BY <2>3, <2>6, <2>7, <2>8 DEF call
<1> QED
  BY <1>7, <1>8

LEMMA ApplyKeepsTools ==
  ASSUME ToolsInv, Apply
  PROVE /\ tools' \in Seq(Rows) /\ OneRowEach(tools')
        /\ \A p \in ToolParts : ToolInv(p) => ToolInv(p)'
<1> DEFINE ev == Head(events)
<1>1. EchoInv /\ Receive /\ tools \in Seq(Rows) /\ OneRowEach(tools)
  BY DEF ToolsInv, Apply
<1>2. ev \in Harmless
  BY <1>1, TailAt, UnderwayTypes DEF Receive
<1>3. /\ Underway \in Seq(Harmless) /\ Underway # <<>>
      /\ Head(Underway) = ev /\ Underway' = Tail(Underway)
  BY <1>1, UnderwayTypes, ReceivingTakesTheHead
<1>4. UNCHANGED <<toolStatus, assistantMsgIDs, pendingToolParts>>
  BY <1>1 DEF Receive, server, streamState
<1>5. CASE ev.type = "tool" /\ UpsertTool(ev)
  <2>1. ev.part \in Parts /\ ev.status \in Status
    BY <1>2, <1>5 DEF Harmless, RenderEvents, Done
  <2>2. /\ tools' \in Seq(Rows) /\ OneRowEach(tools')
        /\ \E i \in DOMAIN tools' : tools'[i] = [part |-> ev.part, status |-> ev.status]
        /\ \A i \in DOMAIN tools : tools[i].part # ev.part =>
             \E j \in DOMAIN tools' : tools'[j] = tools[i]
    <3> HIDE DEF ev
    <3> QED
      BY <1>1, <1>5, <2>1, UpsertedRows
  <2> HIDE DEF ev
  <2>3. ASSUME NEW p \in ToolParts, ToolInv(p) PROVE ToolInv(p)'
    <3>1. Row(p) = [part |-> p, status |-> toolStatus[p]] /\ Row(p)' = Row(p) /\ Row(p).part = p
      BY <1>4 DEF Row
    <3>2. ASSUME LastIs(Underway, p, toolStatus[p])
          PROVE  \/ LastIs(Underway', p, toolStatus[p])
                 \/ NoneOf(Underway', p) /\ \E i \in DOMAIN tools' : tools'[i] = Row(p)
      <4>1. \/ LastIs(Underway', p, toolStatus[p])
            \/ NoneOf(Underway', p) /\ IsToolOf(ev, p) /\ ev.status = toolStatus[p]
        BY <1>3, <3>2, LastIsTail
      <4>2. IsToolOf(ev, p) /\ ev.status = toolStatus[p] => \E i \in DOMAIN tools' : tools'[i] = Row(p)
        BY <2>2, <3>1 DEF IsToolOf
      <4> QED
        BY <4>1, <4>2
    <3>3. ASSUME NoneOf(Underway, p), NEW i \in DOMAIN tools, tools[i] = Row(p)
          PROVE  NoneOf(Underway', p) /\ \E j \in DOMAIN tools' : tools'[j] = Row(p)
      <4>1. NoneOf(Underway', p) /\ ~IsToolOf(ev, p)
        BY <1>3, <3>3, NoneOfTail
      <4>2. tools[i].part # ev.part
        BY <1>5, <3>1, <3>3, <4>1 DEF IsToolOf
      <4> QED
        BY <2>2, <3>3, <4>1, <4>2
    <3> HIDE DEF Underway
    <3> QED
      BY <1>4, <2>3, <3>1, <3>2, <3>3 DEF ToolInv
  <2> QED
    BY <2>2, <2>3
<1>6. CASE ev.type # "tool" /\ tools' = tools
  <2>1. ASSUME NEW p \in ToolParts, ToolInv(p) PROVE ToolInv(p)'
    <3>1. ~IsToolOf(ev, p)
      BY <1>6 DEF IsToolOf
    <3> HIDE DEF ev
    <3>2. NoneOf(Underway, p) => NoneOf(Underway', p)
      BY <1>3, NoneOfTail
    <3>3. LastIs(Underway, p, toolStatus[p]) => LastIs(Underway', p, toolStatus[p])
      BY <1>3, <3>1, LastIsTail
    <3> HIDE DEF Underway
    <3> QED
      BY <1>4, <1>6, <2>1, <3>2, <3>3 DEF ToolInv, Row
  <2> QED
    BY <1>1, <1>6, <2>1
<1>7. \/ ev.type = "tool" /\ UpsertTool(ev)
      \/ ev.type # "tool" /\ tools' = tools
  BY DEF Apply, ApplyTextDelta, ApplyTextSet
<1> QED
  BY <1>5, <1>6, <1>7

LEMMA ReducerKeepsTools ==
  ASSUME ToolsInv, ReducerNext, UNCHANGED replyVars
  PROVE ToolsInv'
<1>1. EchoInv /\ EndInv /\ EchoInv' /\ EndInv'
  BY ReducerKeepsEchoInv, ReducerKeepsEndInv DEF ToolsInv
<1>2. UNCHANGED <<mode, tools>>
  BY DEF replyVars
<1>3. ASSUME mode # "collect", Unbroken', NEW p \in ToolParts PROVE ToolInv(p)'
  <2>1. CASE Line
    <3>1. ToolInv(p)
      BY <1>3, <2>1, LineFacts DEF ToolsInv, Unbroken
    <3> QED
      BY <1>1, <1>2, <2>1, <3>1, MessageUpdatedKeepsTools, TextsKeepTools, ToolUpdatedKeepsTools
      DEF Line
  <2>2. CASE SessionIdle
    <3>1. /\ ToolInv(p) /\ todo = <<>>
          /\ UNCHANGED <<toolStatus, assistantMsgIDs, pendingToolParts, events>>
          /\ todo' = <<Done>>
      BY <1>3, <2>2 DEF SessionIdle, Emit, Listening, streamState, ToolsInv, Unbroken
    <3>2. ~IsToolOf(Done, p) /\ <<Done>> \in Seq(Harmless)
      BY DoneHarmless DEF IsToolOf, Done
    <3>3. NoneOf(<<Done>>, p)
      BY <3>2, SingleTool
    <3>4. events \in Seq(Harmless) /\ Underway = events /\ Underway' = events \o <<Done>>
      BY <1>1, <3>1, UnderwayTypes, ConcatEmptySeq DEF Underway
    <3>5. NoneOf(Underway, p) => NoneOf(Underway', p)
      BY <3>2, <3>3, <3>4, NoneOfConcat
    <3>6. LastIs(Underway, p, toolStatus[p]) => LastIs(Underway', p, toolStatus[p])
      BY <3>2, <3>3, <3>4, LastIsLeft
    <3> HIDE DEF Underway
    <3> QED
      BY <1>2, <3>1, <3>5, <3>6 DEF ToolInv, Row
  <2>3. CASE Send \/ CloseChannel \/ StreamStops
    <3>1. UNCHANGED <<toolStatus, assistantMsgIDs, pendingToolParts, idled>>
      BY <2>3 DEF Send, CloseChannel, StreamStops, server, streamState
    <3>2. Unbroken
      BY <1>1, <1>3, <2>3, <3>1 DEF Unbroken, Send, CloseChannel, StreamStops, EndInv
    <3>3. ToolInv(p)
      BY <1>3, <3>2 DEF ToolsInv
    <3>4. CASE Send \/ CloseChannel
      <4>1. Underway' = Underway
        BY <1>1, <3>4, SendingMovesNothing DEF CloseChannel, Underway
      <4> HIDE DEF Underway
      <4> QED
        BY <1>2, <3>1, <3>3, <4>1 DEF ToolInv, Row
    <3>5. CASE StreamStops
      <4>1. idled
        BY <1>3, <3>1, <3>5 DEF Unbroken, StreamStops
      <4>2. todo \in {<<>>, <<Done>>}
        BY <1>1, <4>1 DEF EndInv
      <4>3. ~IsToolOf(Done, p)
        BY DEF IsToolOf, Done
      <4>4. NoneOf(todo, p)
        BY <4>2, <4>3, EmptyOrOneEvent
      <4>5. events \in Seq(Harmless) /\ todo \in Seq(Harmless) /\ Underway = events \o todo
        BY <1>1, UnderwayTypes DEF Underway
      <4>6. Underway' = events
        BY <3>5, <4>5, ConcatEmptySeq DEF StreamStops, Underway
      <4>7. NoneOf(Underway, p) => NoneOf(Underway', p)
        BY <4>5, <4>6, NoneOfConcat
      <4>8. LastIs(Underway, p, toolStatus[p]) => LastIs(Underway', p, toolStatus[p])
        BY <4>4, <4>5, <4>6, LastIsOfLeft
      <4> HIDE DEF Underway
      <4> QED
        BY <1>2, <3>1, <3>3, <4>7, <4>8 DEF ToolInv, Row
    <3> QED
      BY <2>3, <3>4, <3>5
  <2> QED
    BY <2>1, <2>2, <2>3 DEF ReducerNext, Line
<1> QED
  BY <1>1, <1>2, <1>3 DEF ToolsInv

LEMMA NextKeepsToolsInv == ToolsInv /\ [Next]_vars => ToolsInv'
<1> SUFFICES ASSUME ToolsInv, [Next]_vars PROVE ToolsInv'
  OBVIOUS
<1>1. EchoInv /\ EndInv /\ EchoInv' /\ EndInv'
  BY ReplyEchoInv, NextKeepsEndInv DEF ToolsInv
<1>2. CASE Reducer
  BY <1>2, ReducerKeepsTools DEF Reducer
<1>3. CASE Apply
  <2>1. UNCHANGED <<mode, reader, idled>>
    BY <1>3 DEF Apply, Receive, server, goroutine
  <2> QED
    BY <1>1, <1>3, <2>1, ApplyKeepsTools DEF ToolsInv, Unbroken
<1>4. CASE Collect
  <2>1. mode = "collect" /\ UNCHANGED <<mode, tools>>
    BY <1>4 DEF Collect, Collecting
  <2> QED
    BY <1>1, <2>1 DEF ToolsInv
<1>5. CASE Tick \/ Finish \/ WriteOnce \/ ContextDone \/ UNCHANGED vars
  <2>1. UNCHANGED <<reducerVars, mode, tools>>
    BY <1>5 DEF Tick, Finish, WriteOnce, ContextDone, vars, replyVars
  <2>2. UNCHANGED <<Underway, toolStatus, assistantMsgIDs, pendingToolParts, reader, idled>>
    BY <2>1 DEF reducerVars, server, streamState, goroutine, Underway
  <2> HIDE DEF Underway
  <2> QED
    BY <1>1, <2>1, <2>2 DEF ToolsInv, ToolInv, Row, Unbroken
<1> QED
  BY <1>2, <1>3, <1>4, <1>5 DEF Next

LEMMA ToolsInit == Init => ToolsInv
<1> SUFFICES ASSUME Init PROVE ToolsInv
  OBVIOUS
<1>1. EchoInv /\ EndInv
  BY EchoInit, EndInit DEF Init
<1>2. tools = <<>> /\ Len(tools) = 0
  BY DEF Init
<1>3. \A p \in ToolParts : ToolInv(p)
  BY DEF Init, ReducerInit, ToolInv
<1> QED
  BY <1>1, <1>2, <1>3 DEF ToolsInv, OneRowEach

LEMMA SentMeansArrived ==
  ASSUME EndInv, EchoInv, Answered
  PROVE /\ Underway = <<>> /\ Unbroken
        /\ \A p \in Parts : MessageOf[p] \in Assistants =>
             \/ MessageOf[p] \in assistantMsgIDs
             \/ written[p] = 0 /\ (p \in ToolParts => toolStatus[p] = "none")
<1>1. events = <<>> /\ todo = <<>> /\ idled /\ RolesReported /\ told = assistantMsgIDs
  BY DEF EndInv, Answered, StreamEnded
<1>2. Underway = <<>>
  BY <1>1 DEF Underway
<1> QED
  BY <1>1, <1>2 DEF Unbroken, RolesReported

\* A notice changes nothing else.
LEMMA ShownParts ==
  ASSUME ShowsWhatIsRendered, mode # "collect", result = "sent", ~dirty
  PROVE lastSent.tools = ToolLines /\ lastSent.text = answer
<1> DEFINE r == Rendered
<1>1. r.tools = ToolLines /\ r.text = answer /\ DOMAIN r = {"tools", "text", "notice"}
  BY DEF Rendered
<1>2. lastSent \in {r, [r EXCEPT !.notice = TRUE]}
  BY DEF ShowsWhatIsRendered
<1> HIDE DEF r
<1> QED
  BY <1>1, <1>2

LEMMA ToolsAreShown ==
  ASSUME ToolsInv, ShowsWhatIsRendered PROVE ToolsShownOnce
<1> SUFFICES ASSUME Answered, mode = "full", NEW p \in ToolParts,
                    MessageOf[p] \in Assistants, toolStatus[p] # "none"
             PROVE  /\ {i \in DOMAIN lastSent.tools : lastSent.tools[i][1] = p}
                         = {i \in DOMAIN lastSent.tools :
                              lastSent.tools[i] = <<p, Summary(toolStatus[p])>>}
                    /\ \E i \in DOMAIN lastSent.tools :
                         {j \in DOMAIN lastSent.tools : lastSent.tools[j][1] = p} = {i}
  BY DEF ToolsShownOnce
<1>1. Underway = <<>> /\ Unbroken /\ MessageOf[p] \in assistantMsgIDs
  BY SentMeansArrived DEF ToolsInv, Parts
<1>2. ~LastIs(Underway, p, toolStatus[p])
  BY <1>1 DEF LastIs
<1>3. PICK k \in DOMAIN tools : tools[k] = Row(p)
  BY <1>1, <1>2 DEF ToolsInv, ToolInv
<1>4. result = "sent" /\ ~dirty
  BY DEF Answered, ToolsInv, EndInv
<1>5. lastSent.tools = [i \in DOMAIN tools |-> <<tools[i].part, Summary(tools[i].status)>>]
  <2>1. lastSent.tools = ToolLines
    BY <1>4, ShownParts
  <2> QED
    BY <2>1 DEF ToolLines
<1>6. \A i \in DOMAIN tools : tools[i].part = p <=> i = k
  <2>1. DOMAIN tools = 1..Len(tools)
    BY LenProperties DEF ToolsInv
  <2> QED
    BY <1>3, <2>1 DEF ToolsInv, OneRowEach, Row
<1>7. DOMAIN lastSent.tools = DOMAIN tools
  BY <1>5
<1>8. \A i \in DOMAIN tools : lastSent.tools[i] = <<tools[i].part, Summary(tools[i].status)>>
  BY <1>5
<1>9. \A i \in DOMAIN tools : lastSent.tools[i][1] = p <=> i = k
  BY <1>6, <1>8
<1>10. \A i \in DOMAIN tools : lastSent.tools[i] = <<p, Summary(toolStatus[p])>> <=> i = k
  BY <1>3, <1>6, <1>8 DEF Row
<1> QED
  BY <1>3, <1>7, <1>9, <1>10

(***************************************************************************)
(* However the role of the message, the calls' states and the reader's     *)
(* progress interleave, a reply in the mode "full" that was sent after the *)
(* session became idle has one line for each call, with its last state.    *)
(***************************************************************************)
THEOREM ToolCallsAreShownOnce == Spec => []ToolsShownOnce
  BY ToolsInit, NextKeepsToolsInv, RepliesAreNotLeftBehind, ToolsAreShown, PTL DEF Spec

-----------------------------------------------------------------------------
(* Lemmas about the order of tokens.                                       *)

LEMMA HoldsConcat ==
  ASSUME NEW S, NEW s \in Seq(S), NEW u \in Seq(S), NEW t
  PROVE Holds(s \o u, t) <=> Holds(s, t) \/ Holds(u, t)
<1>1. ASSUME Holds(s \o u, t) PROVE Holds(s, t) \/ Holds(u, t)
  <2>1. PICK i \in 1..Len(s \o u) : IsText((s \o u)[i]) /\ t \in ToSet((s \o u)[i].text)
    BY <1>1 DEF Holds
  <2>2. \/ i \in 1..Len(s) /\ (s \o u)[i] = s[i]
        \/ i - Len(s) \in 1..Len(u) /\ (s \o u)[i] = u[i - Len(s)]
    BY ConcatAt
  <2> QED
    BY <2>1, <2>2 DEF Holds
<1>2. ASSUME Holds(s, t) PROVE Holds(s \o u, t)
  <2>1. PICK i \in 1..Len(s) : IsText(s[i]) /\ t \in ToSet(s[i].text)
    BY <1>2 DEF Holds
  <2>2. i \in 1..Len(s \o u) /\ (s \o u)[i] = s[i]
    BY ConcatAt
  <2> QED
    BY <2>1, <2>2 DEF Holds
<1>3. ASSUME Holds(u, t) PROVE Holds(s \o u, t)
  <2>1. PICK i \in 1..Len(u) : IsText(u[i]) /\ t \in ToSet(u[i].text)
    BY <1>3 DEF Holds
  <2>2. Len(s) + i \in 1..Len(s \o u) /\ (s \o u)[Len(s) + i] = u[i]
    BY ConcatAt
  <2> QED
    BY <2>1, <2>2 DEF Holds
<1> QED
  BY <1>1, <1>2, <1>3

LEMMA HoldsTail ==
  ASSUME NEW S, NEW s \in Seq(S), s # <<>>, NEW t
  PROVE Holds(s, t) <=> Holds(Tail(s), t) \/ (IsText(Head(s)) /\ t \in ToSet(Head(s).text))
<1>1. Head(s) = s[1] /\ 1 \in 1..Len(s) /\ Len(s) \in Nat /\ Len(Tail(s)) = Len(s) - 1
  BY TailAt
<1>2. \A i \in 1..Len(Tail(s)) : i + 1 \in 1..Len(s) /\ Tail(s)[i] = s[i + 1]
  BY TailAt
<1>3. ASSUME Holds(s, t)
      PROVE  Holds(Tail(s), t) \/ (IsText(Head(s)) /\ t \in ToSet(Head(s).text))
  <2>1. PICK i \in 1..Len(s) : IsText(s[i]) /\ t \in ToSet(s[i].text)
    BY <1>3 DEF Holds
  <2>2. CASE i = 1
    BY <1>1, <2>1, <2>2
  <2>3. CASE i # 1
    <3>1. i - 1 \in 1..Len(Tail(s)) /\ Tail(s)[i - 1] = s[i]
      BY <1>1, <1>2, <2>3
    <3> QED
      BY <2>1, <3>1 DEF Holds
  <2> QED
    BY <2>2, <2>3
<1>4. Holds(Tail(s), t) => Holds(s, t)
  BY <1>2 DEF Holds
<1>5. IsText(Head(s)) /\ t \in ToSet(Head(s).text) => Holds(s, t)
  BY <1>1 DEF Holds
<1> QED
  BY <1>3, <1>4, <1>5

\* A sequence that has this token in its text number i.
LEMMA HoldsAt ==
  ASSUME NEW s, NEW i \in 1..Len(s), IsText(s[i]), NEW t \in ToSet(s[i].text)
  PROVE Holds(s, t)
  BY DEF Holds

LEMMA InOrderConcat ==
  ASSUME NEW S, NEW s \in Seq(S), NEW u \in Seq(S), InOrder(s), InOrder(u),
         \A t, v : Holds(s, t) /\ Holds(u, v) => Before(t, v)
  PROVE InOrder(s \o u)
<1> DEFINE c == s \o u
<1>1. \A i \in 1..Len(c) : \/ i \in 1..Len(s) /\ c[i] = s[i]
                           \/ i - Len(s) \in 1..Len(u) /\ c[i] = u[i - Len(s)]
  BY ConcatAt
<1>2. Len(s) \in Nat /\ Len(u) \in Nat /\ Len(c) = Len(s) + Len(u)
  BY ConcatAt
<1> HIDE DEF c
<1>3. ASSUME NEW i \in 1..Len(c), IsText(c[i]) PROVE Ordered(c[i].text)
  BY <1>1, <1>3 DEF InOrder
<1>4. ASSUME NEW i \in 1..Len(c), NEW j \in 1..Len(c), i < j, IsText(c[i]), IsText(c[j]),
             NEW t \in ToSet(c[i].text), NEW v \in ToSet(c[j].text)
      PROVE  Before(t, v)
  <2>1. CASE i \in 1..Len(s) /\ c[i] = s[i] /\ j \in 1..Len(s) /\ c[j] = s[j]
    BY <1>4, <2>1 DEF InOrder
  <2>2. CASE i \in 1..Len(s) /\ c[i] = s[i] /\ j - Len(s) \in 1..Len(u) /\ c[j] = u[j - Len(s)]
    <3>1. Holds(s, t) /\ Holds(u, v)
      BY <1>4, <2>2, HoldsAt
    <3> QED
      BY <3>1
  <2>3. CASE /\ i - Len(s) \in 1..Len(u) /\ c[i] = u[i - Len(s)]
             /\ j - Len(s) \in 1..Len(u) /\ c[j] = u[j - Len(s)]
    <3>1. i - Len(s) < j - Len(s)
      BY <1>2, <1>4
    <3> QED
      BY <1>4, <2>3, <3>1 DEF InOrder
  <2>4. CASE i - Len(s) \in 1..Len(u) /\ j \in 1..Len(s)
    BY <1>2, <1>4, <2>4
  <2> QED
    BY <1>1, <2>1, <2>2, <2>3, <2>4
<1>5. InOrder(c)
  BY <1>3, <1>4 DEF InOrder
<1> QED
  BY <1>5 DEF c

LEMMA InOrderLeft ==
  ASSUME NEW S, NEW s \in Seq(S), NEW u \in Seq(S), InOrder(s \o u)
  PROVE InOrder(s)
<1>1. \A i \in 1..Len(s) : i \in 1..Len(s \o u) /\ (s \o u)[i] = s[i]
  BY ConcatAt
<1> QED
  BY <1>1 DEF InOrder

LEMMA InOrderTail ==
  ASSUME NEW S, NEW s \in Seq(S), s # <<>>, InOrder(s)
  PROVE /\ InOrder(Tail(s))
        /\ IsText(Head(s)) =>
             /\ Ordered(Head(s).text)
             /\ \A t \in ToSet(Head(s).text) : \A v : Holds(Tail(s), v) => Before(t, v)
<1>1. Head(s) = s[1] /\ 1 \in 1..Len(s) /\ Len(s) \in Nat /\ Len(Tail(s)) = Len(s) - 1
  BY TailAt
<1>2. \A i \in 1..Len(Tail(s)) : i + 1 \in 1..Len(s) /\ Tail(s)[i] = s[i + 1]
  BY TailAt
<1> DEFINE r == Tail(s)
<1> HIDE DEF r
<1>3. /\ Len(r) = Len(s) - 1
      /\ \A i \in 1..Len(r) : i + 1 \in 1..Len(s) /\ r[i] = s[i + 1]
  BY <1>1, <1>2 DEF r
<1>4. ASSUME NEW i \in 1..Len(r), NEW j \in 1..Len(r), i < j, IsText(r[i]), IsText(r[j]),
             NEW t \in ToSet(r[i].text), NEW v \in ToSet(r[j].text)
      PROVE  Before(t, v)
  <2>1. i + 1 < j + 1
    BY <1>3, <1>1, <1>4
  <2> QED
    BY <1>3, <1>4, <2>1 DEF InOrder
<1>5. InOrder(r)
  BY <1>3, <1>4 DEF InOrder
<1>6. ASSUME IsText(Head(s)), NEW t \in ToSet(Head(s).text), NEW v, Holds(r, v)
      PROVE  Before(t, v)
  <2>1. PICK j \in 1..Len(r) : IsText(r[j]) /\ v \in ToSet(r[j].text)
    BY <1>6 DEF Holds
  <2>2. 1 < j + 1 /\ j + 1 \in 1..Len(s) /\ s[j + 1] = r[j]
    BY <1>3, <1>1
  <2> QED
    BY <1>1, <1>6, <2>1, <2>2 DEF InOrder
<1>7. IsText(Head(s)) => Ordered(Head(s).text)
  BY <1>1 DEF InOrder
<1> QED
  BY <1>5, <1>6, <1>7 DEF r

LEMMA OrderedConcat ==
  ASSUME NEW S, NEW a \in Seq(S), NEW b \in Seq(S), Ordered(a), Ordered(b),
         \A t \in ToSet(a), v \in ToSet(b) : Before(t, v)
  PROVE Ordered(a \o b)
<1> DEFINE c == a \o b
<1>1. \A i \in 1..Len(c) : \/ i \in 1..Len(a) /\ c[i] = a[i]
                           \/ i - Len(a) \in 1..Len(b) /\ c[i] = b[i - Len(a)]
  BY ConcatAt
<1>2. Len(a) \in Nat /\ Len(b) \in Nat /\ Len(c) = Len(a) + Len(b)
  BY ConcatAt
<1>3. /\ \A i \in 1..Len(a) : a[i] \in ToSet(a)
      /\ \A i \in 1..Len(b) : b[i] \in ToSet(b)
  BY LenProperties DEF ToSet
<1> HIDE DEF c
<1>4. ASSUME NEW i \in 1..Len(c), NEW j \in 1..Len(c), i < j PROVE Before(c[i], c[j])
  <2>1. CASE i \in 1..Len(a) /\ c[i] = a[i] /\ j \in 1..Len(a) /\ c[j] = a[j]
    BY <1>4, <2>1 DEF Ordered
  <2>2. CASE i \in 1..Len(a) /\ c[i] = a[i] /\ j - Len(a) \in 1..Len(b) /\ c[j] = b[j - Len(a)]
    BY <1>3, <2>2
  <2>3. CASE /\ i - Len(a) \in 1..Len(b) /\ c[i] = b[i - Len(a)]
             /\ j - Len(a) \in 1..Len(b) /\ c[j] = b[j - Len(a)]
    <3>1. i - Len(a) < j - Len(a)
      BY <1>2, <1>4
    <3> QED
      BY <2>3, <3>1 DEF Ordered
  <2>4. CASE i - Len(a) \in 1..Len(b) /\ j \in 1..Len(a)
    BY <1>2, <1>4, <2>4
  <2> QED
    BY <1>1, <2>1, <2>2, <2>3, <2>4
<1> QED
  BY <1>4 DEF Ordered, c

LEMMA OwnTextsConcat ==
  ASSUME NEW S, NEW s \in Seq(S), NEW u \in Seq(S)
  PROVE /\ OwnTexts(s) /\ OwnTexts(u) => OwnTexts(s \o u)
        /\ OwnTexts(s \o u) => OwnTexts(s)
<1>1. \A i \in 1..Len(s \o u) : \/ i \in 1..Len(s) /\ (s \o u)[i] = s[i]
                                \/ i - Len(s) \in 1..Len(u) /\ (s \o u)[i] = u[i - Len(s)]
  BY ConcatAt
<1>2. \A i \in 1..Len(s) : i \in 1..Len(s \o u) /\ (s \o u)[i] = s[i]
  BY ConcatAt
<1> QED
  BY <1>1, <1>2 DEF OwnTexts

LEMMA OwnTextsTail ==
  ASSUME NEW S, NEW s \in Seq(S), s # <<>>, OwnTexts(s)
  PROVE OwnTexts(Tail(s)) /\ (IsText(Head(s)) => OwnText(Head(s)))
<1>1. Head(s) = s[1] /\ 1 \in 1..Len(s)
  BY TailAt
<1>2. \A i \in 1..Len(Tail(s)) : i + 1 \in 1..Len(s) /\ Tail(s)[i] = s[i + 1]
  BY TailAt
<1> QED
  BY <1>1, <1>2 DEF OwnTexts

-----------------------------------------------------------------------------
(* The texts of a line.                                                    *)

LEMMA NoTexts ==
  ASSUME NEW evs, evs = <<>> \/ \E e : evs = <<e>> /\ ~IsText(e)
  PROVE /\ InOrder(evs) /\ OwnTexts(evs)
        /\ \A u : ~Holds(evs, u)
<1>1. CASE evs = <<>>
  <2>1. Len(evs) = 0
    BY <1>1
  <2> QED
    BY <2>1 DEF InOrder, OwnTexts, Holds
<1>2. CASE \E e : evs = <<e>> /\ ~IsText(e)
  <2>1. \A i \in 1..Len(evs) : ~IsText(evs[i])
    BY <1>2
  <2> QED
    BY <2>1 DEF InOrder, OwnTexts, Holds, IsText
<1> QED
  BY <1>1, <1>2

LEMMA OneText ==
  ASSUME NEW e, IsText(e), Ordered(e.text), OwnText(e)
  PROVE /\ InOrder(<<e>>) /\ OwnTexts(<<e>>)
        /\ \A u : Holds(<<e>>, u) <=> u \in ToSet(e.text)
<1> DEFINE evs == <<e>>
<1>1. Len(evs) = 1 /\ evs[1] = e
  OBVIOUS
<1> HIDE DEF evs
<1>2. \A i \in 1..Len(evs) : i = 1 /\ evs[i] = e
  BY <1>1
<1>3. InOrder(evs) /\ OwnTexts(evs)
  BY <1>2 DEF InOrder, OwnTexts
<1>4. \A u : Holds(evs, u) <=> u \in ToSet(e.text)
  BY <1>1, <1>2 DEF Holds
<1> QED
  BY <1>3, <1>4 DEF evs

LEMMA TextTokens ==
  ASSUME NEW p \in Parts, NEW k \in Nat
  PROVE /\ Ordered(Text(p, k))
        /\ \A u : u \in ToSet(Text(p, k)) <=> \E i \in 1..k : u = <<p, i>>
<1> DEFINE t == Text(p, k)
<1>1. Len(t) = k /\ DOMAIN t = 1..k /\ \A i \in 1..k : t[i] = <<p, i>>
  BY TextFacts
<1> HIDE DEF t
<1>2. Ordered(t)
  BY <1>1 DEF Ordered, Before
<1>3. \A u : u \in ToSet(t) <=> \E i \in 1..k : u = t[i]
  BY <1>1 DEF ToSet
<1>4. ASSUME NEW u PROVE u \in ToSet(t) <=> \E i \in 1..k : u = <<p, i>>
  <2>1. ASSUME NEW i \in 1..k, u = t[i] PROVE u = <<p, i>>
    BY <1>1, <2>1
  <2>2. ASSUME NEW i \in 1..k, u = <<p, i>> PROVE u = t[i]
    BY <1>1, <2>2
  <2> QED
    BY <1>3, <2>1, <2>2
<1> QED
  BY <1>2, <1>4 DEF t

\* The rest of a text.
LEMMA SuffixTokens ==
  ASSUME NEW p \in Parts, NEW k \in Nat, NEW l \in Nat, k <= l
  PROVE /\ Ordered(SubSeq(Text(p, l), k + 1, l))
        /\ \A u : u \in ToSet(SubSeq(Text(p, l), k + 1, l)) <=> \E i \in (k + 1)..l : u = <<p, i>>
<1> DEFINE r == SubSeq(Text(p, l), k + 1, l)
<1>1. /\ Text(p, l) \in Seq(Token) /\ Len(Text(p, l)) = l
      /\ \A i \in 1..l : Text(p, l)[i] = <<p, i>>
  BY TextType, TextFacts
<1>2. \A i \in (k + 1)..l : Text(p, l)[i] \in Token
  BY <1>1, ElementOfSeq
<1>3. /\ r \in Seq(Token)
      /\ Len(r) = IF k + 1 <= l THEN l - (k + 1) + 1 ELSE 0
      /\ \A i \in 1..(l - (k + 1) + 1) : r[i] = Text(p, l)[k + 1 + i - 1]
  BY <1>2, SubSeqProperties
<1>4. Len(r) = l - k /\ DOMAIN r = 1..(l - k) /\ \A i \in 1..(l - k) : r[i] = <<p, k + i>>
  BY <1>1, <1>3, LenProperties
<1> HIDE DEF r
<1>5. Ordered(r)
  BY <1>4 DEF Ordered, Before
<1>6. ASSUME NEW u PROVE u \in ToSet(r) <=> \E i \in (k + 1)..l : u = <<p, i>>
  <2>1. ASSUME NEW i \in (k + 1)..l, u = <<p, i>> PROVE u \in ToSet(r)
    <3>1. i - k \in 1..(l - k) /\ k + (i - k) = i
      OBVIOUS
    <3>2. r[i - k] = u
      BY <1>4, <2>1, <3>1
    <3> QED
      BY <1>4, <3>1, <3>2 DEF ToSet
  <2>2. ASSUME u \in ToSet(r) PROVE \E i \in (k + 1)..l : u = <<p, i>>
    <3>1. PICK i \in 1..(l - k) : u = <<p, k + i>>
      BY <1>4, <2>2 DEF ToSet
    <3>2. k + i \in (k + 1)..l
      OBVIOUS
    <3> QED
      BY <3>1, <3>2
  <2> QED
    BY <2>1, <2>2
<1> QED
  BY <1>5, <1>6 DEF r

\* What a snapshot adds.
LEMMA DifferenceTexts ==
  ASSUME NEW p \in Parts, NEW k \in Nat, NEW l \in Nat, k <= l,
         NEW evs, evs = Difference(p, Text(p, k), Text(p, l))
  PROVE /\ InOrder(evs) /\ OwnTexts(evs)
        /\ \A u : Holds(evs, u) <=> \E i \in (k + 1)..l : u = <<p, i>>
<1> DEFINE prev == Text(p, k)  next == Text(p, l)
           suffix == SubSeq(next, k + 1, l)
<1>1. /\ prev = <<>> <=> k = 0
      /\ next = <<>> <=> l = 0
      /\ Len(prev) = k /\ Len(next) = l
  BY TextFacts
<1>2. IsPrefix(prev, next)
  BY TextExtends
<1>3. Ordered(suffix) /\ \A u : u \in ToSet(suffix) <=> \E i \in (k + 1)..l : u = <<p, i>>
  BY SuffixTokens
<1>4. Ordered(next) /\ \A u : u \in ToSet(next) <=> \E i \in 1..l : u = <<p, i>>
  BY TextTokens
<1>5. prev = next <=> k = l
  BY <1>1
<1>6. evs = Difference(p, prev, next)
  OBVIOUS
<1> HIDE DEF prev, next, suffix
<1>7. CASE k = l
  <2>1. evs = <<>>
    BY <1>1, <1>2, <1>5, <1>6, <1>7 DEF Difference, IsStrictPrefix
  <2>2. \A i \in (k + 1)..l : FALSE
    BY <1>7
  <2> QED
    BY <2>1, <2>2, NoTexts
<1>8. CASE k = 0 /\ k < l
  <2>1. evs = <<Set(p, next)>>
    <3>1. prev = <<>> /\ next # <<>>
      BY <1>1, <1>8
    <3> QED
      BY <1>6, <3>1 DEF Difference
  <2> DEFINE e == Set(p, next)
  <2>2. IsText(e) /\ e.text = next /\ e.part = p
    BY DEF Set, IsText
  <2>3. <<p, 1>> \in ToSet(next) /\ \A u \in ToSet(next) : u[1] = p
    BY <1>4, <1>8
  <2> HIDE DEF e
  <2>5. OwnText(e)
    BY <2>2, <2>3 DEF OwnText
  <2>4. /\ InOrder(<<e>>) /\ OwnTexts(<<e>>)
        /\ \A u : Holds(<<e>>, u) <=> u \in ToSet(next)
    BY <1>4, <2>2, <2>5, OneText
  <2> QED
    BY <1>4, <1>8, <2>1, <2>4 DEF e
<1>9. CASE k # 0 /\ k < l
  <2>1. prev # next /\ prev # <<>> /\ next # <<>>
    BY <1>1, <1>5, <1>9
  <2>2. evs = <<Delta(p, suffix)>>
    BY <1>1, <1>2, <1>6, <2>1 DEF Difference, IsStrictPrefix, suffix
  <2> DEFINE e == Delta(p, suffix)
  <2>3. IsText(e) /\ e.text = suffix /\ e.type # "text_set" /\ e.part = p
    BY DEF Delta, IsText
  <2> HIDE DEF e
  <2>5. OwnText(e)
    BY <1>3, <2>3 DEF OwnText
  <2>4. /\ InOrder(<<e>>) /\ OwnTexts(<<e>>)
        /\ \A u : Holds(<<e>>, u) <=> u \in ToSet(suffix)
    BY <1>3, <2>3, <2>5, OneText
  <2> QED
    BY <1>3, <2>2, <2>4 DEF e
<1> QED
  BY <1>7, <1>8, <1>9

\* A line sends in order what it makes public, and nothing that was.
NewTexts ==
    /\ InOrder(todo') /\ OwnTexts(todo')
    /\ \A u : Holds(todo', u) => u \in Token /\ ~Published(u)
    /\ \A u \in Token : Published(u)' <=> Published(u) \/ Holds(todo', u)

\* A line without texts, and without effect on what is public.
LEMMA NothingNew ==
  ASSUME todo' = <<>> \/ \E e : todo' = <<e>> /\ ~IsText(e),
         assistantMsgIDs' = assistantMsgIDs,
         \A q \in TextParts : MessageOf[q] \in assistantMsgIDs => written'[q] = written[q]
  PROVE NewTexts
<1>1. InOrder(todo') /\ OwnTexts(todo') /\ \A u : ~Holds(todo', u)
  BY NoTexts
<1>2. \A u \in Token : Published(u)' <=> Published(u)
  BY DEF Published
<1> QED
  BY <1>1, <1>2 DEF NewTexts

\* A line that brings the tokens of one known part from number k + 1 to l.
LEMMA OnePartNew ==
  ASSUME EchoInv, NEW p \in TextParts, MessageOf[p] \in assistantMsgIDs,
         NEW l \in Nat, written[p] <= l, written' = [written EXCEPT ![p] = l],
         assistantMsgIDs' = assistantMsgIDs,
         InOrder(todo'), OwnTexts(todo'),
         \A u : Holds(todo', u) <=> \E i \in (written[p] + 1)..l : u = <<p, i>>
  PROVE NewTexts
<1>1. /\ written[p] \in Nat /\ p \in Parts /\ written'[p] = l
      /\ \A q \in TextParts : q # p => written'[q] = written[q]
  BY DEF EchoInv, TypeOK, Parts
<1>2. ASSUME NEW u, Holds(todo', u) PROVE u \in Token /\ ~Published(u)
  <2>1. PICK i \in (written[p] + 1)..l : u = <<p, i>>
    BY <1>2
  <2> QED
    BY <1>1, <2>1 DEF Token, Published
<1>3. ASSUME NEW u \in Token PROVE Published(u)' <=> Published(u) \/ Holds(todo', u)
  <2>1. u = <<u[1], u[2]>> /\ u[2] \in Nat
    BY DEF Token
  <2>2. CASE u[1] = p
    <3>1. Published(u)' <=> u[2] \in 1..l
      BY <1>1, <2>2 DEF Published
    <3>2. Published(u) <=> u[2] \in 1..written[p]
      BY <2>2 DEF Published
    <3>3. Holds(todo', u) <=> u[2] \in (written[p] + 1)..l
      BY <2>1, <2>2
    <3> QED
      BY <1>1, <2>1, <3>1, <3>2, <3>3
  <2>3. CASE u[1] # p
    <3>1. ~Holds(todo', u)
      BY <2>1, <2>3
    <3>2. Published(u)' <=> Published(u)
      BY <1>1, <2>3 DEF Published
    <3> QED
      BY <3>1, <3>2
  <2> QED
    BY <2>2, <2>3
<1> QED
  BY <1>2, <1>3 DEF NewTexts

LEMMA TextUpdatedIsNew ==
  ASSUME AddsUpInv, NEW p \in Parts, TextUpdated(p)
  PROVE NewTexts
<1>1. EchoInv /\ p \in TextParts /\ AddsUp(p) /\ assistantMsgIDs' = assistantMsgIDs /\ todo = <<>>
  BY DEF AddsUpInv, TextUpdated, Listening
<1>2. PICK l \in written[p]..MaxText[p] :
        /\ written' = [written EXCEPT ![p] = l]
        /\ IF MessageOf[p] \in assistantMsgIDs
           THEN /\ partText' = [partText EXCEPT ![p] = Text(p, l)]
                /\ Emit(Difference(p, partText[p], Text(p, l)))
                /\ UNCHANGED pendingParts
           ELSE /\ pendingParts' = [pendingParts EXCEPT ![p] = Text(p, l)]
                /\ Quiet
                /\ UNCHANGED partText
  BY DEF TextUpdated
<1>3. written[p] \in Nat /\ l \in Nat /\ written[p] <= l
  BY <1>1, <1>2, PartsAssumption DEF EchoInv, TypeOK
<1>4. CASE MessageOf[p] \in assistantMsgIDs
  <2>1. partText[p] = Text(p, written[p])
    BY <1>1, <1>4 DEF AddsUp
  <2>2. todo' = Difference(p, Text(p, written[p]), Text(p, l))
    BY <1>2, <1>4, <2>1 DEF Emit
  <2>3. /\ InOrder(todo') /\ OwnTexts(todo')
        /\ \A u : Holds(todo', u) <=> \E i \in (written[p] + 1)..l : u = <<p, i>>
    BY <1>3, <2>2, DifferenceTexts
  <2> QED
    BY <1>1, <1>2, <1>3, <1>4, <2>3, OnePartNew
<1>5. CASE MessageOf[p] \notin assistantMsgIDs
  <2>1. todo' = <<>>
    BY <1>1, <1>2, <1>5 DEF Quiet
  <2>2. \A q \in TextParts : MessageOf[q] \in assistantMsgIDs => written'[q] = written[q]
    BY <1>1, <1>2, <1>5 DEF EchoInv, TypeOK, Parts
  <2> QED
    BY <1>1, <2>1, <2>2, NothingNew
<1> QED
  BY <1>4, <1>5

LEMMA TextDeltaIsNew ==
  ASSUME AddsUpInv, NEW p \in Parts, TextDelta(p)
  PROVE NewTexts
<1> DEFINE token == << <<p, written[p] + 1>> >>
<1>1. EchoInv /\ EchoInv' /\ assistantMsgIDs' = assistantMsgIDs /\ todo = <<>>
  BY TextDeltaKeepsEchoInv DEF AddsUpInv, TextDelta, Listening
<1>2. written[p] \in Nat /\ written' = [written EXCEPT ![p] = written[p] + 1]
  BY <1>1 DEF TextDelta, EchoInv, TypeOK
<1>3. p \in TextParts => p \in textTyped'
  <2>1. p \in TextParts => p \in opened
    BY PartsAssumption DEF TextDelta
  <2> QED
    BY <2>1 DEF TextDelta, AddsUpInv
<1>4. CASE p \in textTyped' /\ MessageOf[p] \in assistantMsgIDs
  <2>1. p \in TextParts
    BY <1>1, <1>4 DEF EchoInv, RolesAndTypesAreRight
  <2> DEFINE e == Delta(p, token)
  <2>2. todo' = <<e>>
    BY <1>4 DEF TextDelta, Emit
  <2>3. IsText(e) /\ e.text = token /\ e.type # "text_set" /\ e.part = p
    BY DEF Delta, IsText
  <2>4. Len(token) = 1 /\ ToSet(token) = {<<p, written[p] + 1>>}
    BY SingleEvent
  <2>5. Ordered(token)
    BY <2>4 DEF Ordered
  <2> HIDE DEF e
  <2>10. OwnText(e)
    BY <2>3, <2>4 DEF OwnText
  <2>6. /\ InOrder(<<e>>) /\ OwnTexts(<<e>>)
        /\ \A u : Holds(<<e>>, u) <=> u \in ToSet(token)
    BY <2>3, <2>5, <2>10, OneText
  <2> HIDE DEF token
  <2>7. \A u : Holds(todo', u) <=> \E i \in (written[p] + 1)..(written[p] + 1) : u = <<p, i>>
    BY <1>2, <2>2, <2>4, <2>6
  <2>8. InOrder(todo') /\ OwnTexts(todo')
    BY <2>2, <2>6
  <2>9. written[p] + 1 \in Nat /\ written[p] <= written[p] + 1
    BY <1>2
  <2> QED
    BY <1>1, <1>2, <1>4, <2>1, <2>7, <2>8, <2>9, OnePartNew
<1>5. CASE ~(p \in textTyped' /\ MessageOf[p] \in assistantMsgIDs)
  <2>1. todo' = <<>>
    BY <1>1, <1>5 DEF TextDelta, Quiet
  <2>2. \A q \in TextParts : MessageOf[q] \in assistantMsgIDs => written'[q] = written[q]
    BY <1>1, <1>2, <1>3, <1>5 DEF EchoInv, TypeOK, Parts
  <2> QED
    BY <1>1, <2>1, <2>2, NothingNew
<1> QED
  BY <1>4, <1>5

LEMMA ToolUpdatedIsNew ==
  ASSUME EchoInv, NEW p \in Parts, ToolUpdated(p)
  PROVE NewTexts
<1>1. todo = <<>> /\ assistantMsgIDs' = assistantMsgIDs /\ written' = written
  BY DEF ToolUpdated, Listening
<1>2. todo' = <<>> \/ \E status : todo' = <<Tool(p, status)>>
  BY <1>1 DEF ToolUpdated, Emit, Quiet
<1>3. \A status : ~IsText(Tool(p, status))
  BY DEF IsText, Tool
<1> QED
  BY <1>1, <1>2, <1>3, NothingNew

\* What was held back comes out part by part.
LEMMA MessageUpdatedIsNew ==
  ASSUME AddsUpInv, NEW m \in Messages, MessageUpdated(m)
  PROVE NewTexts
<1> DEFINE texts == HeldBackTexts(m)
           tools0 == {q \in ToolParts : MessageOf[q] = m /\ pendingToolParts[q] # "none"}
           n == Cardinality(texts)
           k == Cardinality(tools0)
<1>1. /\ EchoInv /\ written' = written
      /\ assistantMsgIDs' = assistantMsgIDs \cup {m}
  BY DEF AddsUpInv, MessageUpdated
<1>2. PICK ps \in SetToSeqs(texts), ts \in SetToSeqs(tools0) : todo' = HeldBackEvents(ps, ts)
  BY DEF MessageUpdated, Emit, HeldBackEvents
<1> DEFINE textEvents == [i \in DOMAIN ps |-> Set(ps[i], pendingParts[ps[i]])]
           toolEvents == [i \in DOMAIN ts |-> Tool(ts[i], pendingToolParts[ts[i]])]
           S == ToSet(textEvents) \cup ToSet(toolEvents)
<1>3. IsFiniteSet(texts) /\ IsFiniteSet(tools0)
  <2>1. texts \subseteq Parts /\ tools0 \subseteq Parts
    BY DEF HeldBackTexts, Parts
  <2> QED
    BY <2>1, PartsAssumption, FS_Subset
<1>4. /\ n \in Nat /\ ps \in [1..n -> texts]
      /\ \A q \in texts : \E i \in 1..n : ps[i] = q
  BY <1>3, OrderHasAll
<1>5. k \in Nat /\ ts \in [1..k -> tools0]
  BY <1>3, OrderHasAll
<1>6. \A i, j \in 1..n : ps[i] = ps[j] => i = j
  BY <1>4 DEF SetToSeqs
<1>7. textEvents \in Seq(S) /\ Len(textEvents) = n
  <2>1. textEvents \in [1..n -> S]
    BY <1>4 DEF ToSet
  <2> HIDE DEF textEvents, S, n, k
  <2> QED
    BY <1>4, <2>1, FunctionLen
<1>8. toolEvents \in Seq(S) /\ Len(toolEvents) = k
  <2>1. toolEvents \in [1..k -> S]
    BY <1>5 DEF ToSet
  <2> HIDE DEF toolEvents, S, n, k
  <2> QED
    BY <1>5, <2>1, FunctionLen
<1>9. \A i \in 1..n : /\ IsText(textEvents[i]) /\ textEvents[i].part = ps[i]
                      /\ textEvents[i].text = pendingParts[ps[i]]
  BY <1>4 DEF IsText, Set
<1>10. \A i \in 1..k : ~IsText(toolEvents[i])
  BY <1>5 DEF IsText, Tool
<1>11. todo' = textEvents \o toolEvents
  BY <1>2 DEF HeldBackEvents
\* What each of the parts held back.
<1>12. ASSUME NEW q \in texts
       PROVE  /\ q \in TextParts /\ q \in Parts /\ written[q] \in Nat /\ written[q] # 0
              /\ MessageOf[q] = m /\ m \notin assistantMsgIDs
              /\ pendingParts[q] = Text(q, written[q])
              /\ Ordered(pendingParts[q])
              /\ \A u : u \in ToSet(pendingParts[q]) <=> \E i \in 1..written[q] : u = <<q, i>>
  <2>1. q \in TextParts /\ q \in Parts /\ MessageOf[q] = m /\ pendingParts[q] # <<>>
    BY DEF HeldBackTexts, Parts
  <2>2. AddsUp(q) /\ written[q] \in Nat
    BY <2>1 DEF AddsUpInv, EchoInv, TypeOK
  <2>3. m \notin assistantMsgIDs /\ pendingParts[q] = Text(q, written[q])
    BY <2>1, <2>2 DEF AddsUp
  <2>4. written[q] # 0
    BY <2>1, <2>2, <2>3, TextFacts
  <2>5. /\ Ordered(Text(q, written[q]))
        /\ \A u : u \in ToSet(Text(q, written[q])) <=> \E i \in 1..written[q] : u = <<q, i>>
    BY <2>1, <2>2, TextTokens
  <2> QED
    BY <2>1, <2>2, <2>3, <2>4, <2>5
<1>13. \A q \in TextParts : MessageOf[q] = m /\ m \notin assistantMsgIDs /\ q \notin texts => written[q] = 0
  <2> SUFFICES ASSUME NEW q \in TextParts, MessageOf[q] = m, m \notin assistantMsgIDs, q \notin texts
               PROVE  written[q] = 0
    OBVIOUS
  <2>1. pendingParts[q] = <<>> /\ AddsUp(q)
    BY DEF HeldBackTexts, AddsUpInv
  <2>2. written[q] \in Nat /\ Text(q, written[q]) = <<>> /\ q \in Parts
    BY <1>1, <2>1 DEF AddsUp, EchoInv, TypeOK, Parts
  <2> QED
    BY <2>2, TextFacts
<1> HIDE DEF textEvents, toolEvents, S, n, k, texts, tools0
<1>14. InOrder(textEvents)
  <2>1. ASSUME NEW i \in 1..n PROVE Ordered(textEvents[i].text)
    BY <1>4, <1>9, <1>12
  <2>2. ASSUME NEW i \in 1..n, NEW j \in 1..n, i < j,
               NEW t \in ToSet(textEvents[i].text), NEW u \in ToSet(textEvents[j].text)
        PROVE  Before(t, u)
    <3>1. ps[i] \in texts /\ ps[j] \in texts /\ ps[i] # ps[j]
      BY <1>4, <1>6, <2>2
    <3>2. t[1] = ps[i]
      BY <1>9, <1>12, <3>1
    <3>3. u[1] = ps[j]
      BY <1>9, <1>12, <3>1
    <3> QED
      BY <3>1, <3>2, <3>3 DEF Before
  <2> QED
    BY <1>7, <2>1, <2>2 DEF InOrder
<1>15. OwnTexts(textEvents)
  <2>1. ASSUME NEW i \in 1..n PROVE OwnText(textEvents[i])
    <3>1. ps[i] \in texts
      BY <1>4
    <3>2. 1 \in 1..written[ps[i]]
      BY <1>12, <3>1
    <3>3. <<ps[i], 1>> \in ToSet(pendingParts[ps[i]])
      BY <1>12, <3>1, <3>2
    <3>4. \A u \in ToSet(pendingParts[ps[i]]) : u[1] = ps[i]
      BY <1>12, <3>1
    <3> QED
      BY <1>9, <3>3, <3>4 DEF OwnText
  <2> QED
    BY <1>7, <2>1 DEF OwnTexts
<1>16. ASSUME NEW u
       PROVE  Holds(textEvents, u) <=> \E q \in texts : \E i \in 1..written[q] : u = <<q, i>>
  <2>1. Holds(textEvents, u) <=> \E j \in 1..n : u \in ToSet(pendingParts[ps[j]])
    BY <1>7, <1>9 DEF Holds
  <2>2. Holds(textEvents, u) <=> \E q \in texts : u \in ToSet(pendingParts[q])
    BY <1>4, <2>1
  <2> QED
    BY <1>12, <2>2
<1>17. InOrder(toolEvents) /\ OwnTexts(toolEvents) /\ \A u : ~Holds(toolEvents, u)
  BY <1>8, <1>10 DEF InOrder, OwnTexts, Holds, IsText
<1>18. InOrder(todo') /\ OwnTexts(todo') /\ \A u : Holds(todo', u) <=> Holds(textEvents, u)
  BY <1>7, <1>8, <1>11, <1>14, <1>15, <1>17, InOrderConcat, OwnTextsConcat, HoldsConcat
<1>19. ASSUME NEW u, Holds(todo', u) PROVE u \in Token /\ ~Published(u)
  <2>1. PICK q \in texts : \E i \in 1..written[q] : u = <<q, i>>
    BY <1>16, <1>18, <1>19
  <2> QED
    BY <1>12, <2>1 DEF Token, Published
<1>20. ASSUME NEW u \in Token PROVE Published(u)' <=> Published(u) \/ Holds(todo', u)
  <2>1. u = <<u[1], u[2]>> /\ u[2] \in Nat
    BY DEF Token
  <2>2. Holds(todo', u) <=> u[1] \in texts /\ u[2] \in 1..written[u[1]]
    BY <1>16, <1>18, <2>1
  <2>3. Published(u)' <=> /\ u[1] \in TextParts
                          /\ MessageOf[u[1]] \in assistantMsgIDs \/ MessageOf[u[1]] = m
                          /\ u[2] \in 1..written[u[1]]
    BY <1>1 DEF Published
  <2>4. u[1] \in TextParts /\ MessageOf[u[1]] = m /\ m \notin assistantMsgIDs /\ u[1] \notin texts
          => ~(u[2] \in 1..written[u[1]])
    BY <1>13, <2>1
  <2>5. u[1] \in texts => u[1] \in TextParts /\ MessageOf[u[1]] = m
    BY <1>12
  <2> QED
    BY <2>2, <2>3, <2>4, <2>5 DEF Published
<1> QED
  BY <1>18, <1>19, <1>20 DEF NewTexts

LEMMA LinesAreNew == AddsUpInv /\ Line => NewTexts
  BY MessageUpdatedIsNew, TextUpdatedIsNew, TextDeltaIsNew, ToolUpdatedIsNew DEF Line, AddsUpInv

-----------------------------------------------------------------------------
(* OrderInv is inductive.                                                  *)

LEMMA HeldAreTokens ==
  ASSUME NEW s \in Seq(Harmless)
  PROVE /\ \A u : Holds(s, u) => u \in Token
        /\ \A i \in 1..Len(s) : IsText(s[i]) => s[i].text \in Seq(Token)
<1>1. \A i \in 1..Len(s) : s[i] \in RenderEvents
  BY ElementOfSeq DEF Harmless
<1>2. \A i \in 1..Len(s) : IsText(s[i]) => s[i].text \in Seq(Token)
  BY <1>1 DEF RenderEvents, Done, IsText
<1>3. ASSUME NEW u, Holds(s, u) PROVE u \in Token
  <2>1. PICK i \in 1..Len(s) : IsText(s[i]) /\ u \in ToSet(s[i].text)
    BY <1>3 DEF Holds
  <2> DEFINE t == s[i].text
  <2>2. t \in Seq(Token) /\ u \in ToSet(t)
    BY <1>2, <2>1
  <2> HIDE DEF t
  <2> QED
    BY <2>2, LenProperties DEF ToSet
<1> QED
  BY <1>2, <1>3

\* What is made public later is later.
LEMMA OldBeforeNew ==
  ASSUME EchoInv, NEW t \in Token, NEW v \in Token, Published(t), ~Published(v), Published(v)'
  PROVE Before(t, v)
<1> SUFFICES ASSUME t[1] = v[1] PROVE t[2] < v[2]
  BY DEF Before
<1>1. /\ v[1] \in TextParts /\ MessageOf[v[1]] \in assistantMsgIDs
      /\ t[2] \in 1..written[v[1]] /\ v[2] \notin 1..written[v[1]]
  BY DEF Published
<1>2. v[2] \in 1..written'[v[1]] /\ v[2] \in Nat /\ t[2] \in Nat
  BY DEF Published, Token
<1>3. written[v[1]] \in Nat
  BY <1>1 DEF EchoInv, TypeOK, Parts
<1>4. v[2] >= 1
  BY <1>2, SMT
<1> QED
  BY <1>1, <1>2, <1>3, <1>4

LEMMA NewTextsKeepOrder ==
  ASSUME OrderInv, AddsUpInv', events' = events, todo = <<>>, NewTexts,
         UNCHANGED <<mode, answer, chunkText>>
  PROVE OrderInv'
<1>1. /\ events \in Seq(Harmless) /\ todo' \in Seq(Harmless) /\ Underway = events
      /\ Underway' = events \o todo'
  BY UnderwayTypes, ConcatEmptySeq DEF OrderInv, AddsUpInv, EchoInv, Underway
<1>2. EchoInv
  BY DEF OrderInv, AddsUpInv
<1>3. \A u \in Token : Published(u) => Published(u)'
  BY DEF NewTexts
<1>4. \A u : Holds(todo', u) => u \in Token /\ ~Published(u) /\ Published(u)'
  BY DEF NewTexts
<1>5. \A u : Holds(events, u) => u \in Token /\ Published(u)
  BY <1>1, HeldAreTokens DEF OrderInv
<1>6. \A u \in ToSet(answer) : u \in Token /\ Published(u)
  BY LenProperties DEF OrderInv, ToSet
<1>7. \A u : Holds(Underway', u) <=> Holds(events, u) \/ Holds(todo', u)
  BY <1>1, HoldsConcat
<1>8. InOrder(Underway')
  <2>1. \A t, v : Holds(events, t) /\ Holds(todo', v) => Before(t, v)
    BY <1>2, <1>4, <1>5, OldBeforeNew
  <2> QED
    BY <1>1, <2>1, InOrderConcat DEF OrderInv, NewTexts
<1>9. OwnTexts(Underway')
  BY <1>1, OwnTextsConcat DEF OrderInv, NewTexts
<1>10. \A u \in Token : Holds(Underway', u) => Published(u)'
  BY <1>3, <1>4, <1>5, <1>7
<1>11. \A u \in ToSet(answer) : Published(u)'
  BY <1>3, <1>6
<1>12. \A t \in ToSet(answer), u \in Token : Holds(Underway', u) => Before(t, u)
  BY <1>1, <1>2, <1>4, <1>6, <1>7, OldBeforeNew DEF OrderInv
<1> HIDE DEF Underway
<1> QED
  BY <1>8, <1>9, <1>10, <1>11, <1>12 DEF OrderInv

\* Steps that bring nothing new and leave the answer as it is.
LEMMA OrderUntouched ==
  ASSUME OrderInv, AddsUpInv', UNCHANGED <<mode, answer, chunkText, written, assistantMsgIDs>>,
         Underway' = Underway \/ (Underway' = events /\ events' = events)
  PROVE OrderInv'
<1>1. events \in Seq(Harmless) /\ todo \in Seq(Harmless) /\ Underway = events \o todo
  BY UnderwayTypes DEF OrderInv, AddsUpInv, Underway
<1>2. \A u : Published(u)' <=> Published(u)
  BY DEF Published
<1>3. \A u : Holds(Underway', u) => Holds(Underway, u)
  BY <1>1, HoldsConcat
<1>4. InOrder(Underway') /\ OwnTexts(Underway')
  BY <1>1, InOrderLeft, OwnTextsConcat DEF OrderInv
<1> HIDE DEF Underway
<1> QED
  BY <1>2, <1>3, <1>4 DEF OrderInv

LEMMA ReducerKeepsOrderInv ==
  ASSUME OrderInv, ReducerNext, UNCHANGED replyVars
  PROVE OrderInv'
<1>1. AddsUpInv /\ EchoInv
  BY DEF OrderInv, AddsUpInv
<1>2. AddsUpInv'
  BY <1>1, ReducerKeepsAddsUpInv
<1>3. UNCHANGED <<mode, answer, chunkText>>
  BY DEF replyVars
<1>4. CASE Line
  BY <1>1, <1>2, <1>3, <1>4, LinesAreNew, LineFacts, NewTextsKeepOrder
<1>5. CASE SessionIdle
  <2>1. todo = <<>> /\ todo' = <<Done>> /\ events' = events /\ assistantMsgIDs' = assistantMsgIDs
        /\ written' = written
    BY <1>5 DEF SessionIdle, Emit, Listening, streamState
  <2>2. ~IsText(Done)
    BY DEF IsText, Done
  <2>3. NewTexts
    BY <2>1, <2>2, NothingNew
  <2> QED
    BY <1>2, <1>3, <2>1, <2>3, NewTextsKeepOrder
<1>6. CASE Send \/ CloseChannel \/ StreamStops
  <2>1. UNCHANGED <<written, assistantMsgIDs>>
    BY <1>6 DEF Send, CloseChannel, StreamStops, server, streamState
  <2>2. Underway' = Underway \/ (Underway' = events /\ events' = events)
    <3>1. CASE Send
      BY <1>1, <3>1, SendingMovesNothing
    <3>2. CASE CloseChannel
      BY <3>2 DEF CloseChannel, Underway
    <3>3. CASE StreamStops
      BY <1>1, <3>3, UnderwayTypes, ConcatEmptySeq DEF StreamStops, Underway
    <3> QED
      BY <1>6, <3>1, <3>2, <3>3
  <2> QED
    BY <1>2, <1>3, <2>1, <2>2, OrderUntouched
<1> QED
  BY <1>4, <1>5, <1>6 DEF ReducerNext, Line

\* What the next event is like.
LEMMA NextEvent ==
  ASSUME OrderInv, Receive, NEW e, e = Head(events)
  PROVE /\ AddsUpInv' /\ InOrder(Underway') /\ OwnTexts(Underway')
        /\ \A u \in Token : Holds(Underway', u) => Published(u)' /\ Holds(Underway, u)
        /\ \A u \in Token : Holds(Underway, u) =>
             Holds(Underway', u) \/ (IsText(e) /\ u \in ToSet(e.text))
        /\ \A u \in Token : Published(u)' <=> Published(u)
        /\ e \in Harmless
        /\ IsText(e) =>
             /\ e.part \in Parts /\ e.text \in Seq(Token) /\ Ordered(e.text) /\ OwnText(e)
             /\ \A u \in ToSet(e.text) : u \in Token /\ Published(u) /\ Holds(Underway, u)
             /\ \A t \in ToSet(e.text), u \in Token : Holds(Underway', u) => Before(t, u)
             /\ \A t \in ToSet(answer), u \in ToSet(e.text) : Before(t, u)
<1>1. EchoInv /\ AddsUpInv'
  BY ReducerKeepsAddsUpInv DEF OrderInv, AddsUpInv
<1>2. /\ Underway \in Seq(Harmless) /\ Underway # <<>>
      /\ Head(Underway) = e /\ Underway' = Tail(Underway)
  BY <1>1, UnderwayTypes, ReceivingTakesTheHead
<1>3. UNCHANGED <<written, assistantMsgIDs>>
  BY DEF Receive, server, streamState
<1>4. \A u \in Token : Published(u)' <=> Published(u)
  BY <1>3 DEF Published
<1> DEFINE s == Underway
<1>5. /\ s \in Seq(Harmless) /\ s # <<>> /\ Head(s) = e /\ Underway' = Tail(s)
      /\ InOrder(s) /\ OwnTexts(s)
      /\ \A u \in Token : Holds(s, u) => Published(u)
      /\ \A t \in ToSet(answer), u \in Token : Holds(s, u) => Before(t, u)
  BY <1>2 DEF OrderInv
<1> HIDE DEF s
<1>6. e \in Harmless
  BY <1>5, TailAt
<1>7. InOrder(Tail(s)) /\ OwnTexts(Tail(s))
  BY <1>5, InOrderTail, OwnTextsTail
<1>8. \A u : Holds(s, u) <=> Holds(Tail(s), u) \/ (IsText(e) /\ u \in ToSet(e.text))
  BY <1>5, HoldsTail
<1>9. ASSUME IsText(e)
      PROVE  /\ e.part \in Parts /\ e.text \in Seq(Token) /\ Ordered(e.text) /\ OwnText(e)
             /\ \A t \in ToSet(e.text), u \in Token : Holds(Tail(s), u) => Before(t, u)
  <2>1. e.part \in Parts /\ e.text \in Seq(Token)
    BY <1>6, <1>9 DEF Harmless, RenderEvents, Done, IsText
  <2>2. /\ Ordered(e.text) /\ OwnText(e)
        /\ \A t \in ToSet(e.text) : \A u : Holds(Tail(s), u) => Before(t, u)
    BY <1>5, <1>9, InOrderTail, OwnTextsTail
  <2> QED
    BY <2>1, <2>2
<1>10. ASSUME IsText(e), NEW u \in ToSet(e.text) PROVE u \in Token /\ Holds(s, u)
  <2>1. Holds(s, u)
    BY <1>8, <1>10
  <2> QED
    BY <1>5, <2>1, HeldAreTokens
<1>11. ASSUME IsText(e), NEW t \in ToSet(answer), NEW u \in ToSet(e.text) PROVE Before(t, u)
  BY <1>5, <1>10, <1>11
<1> QED
  BY <1>1, <1>4, <1>5, <1>6, <1>7, <1>8, <1>9, <1>10, <1>11 DEF s

\* An answer that the event's text extends or replaces is in order again.
LEMMA TextTaken ==
  ASSUME OrderInv, Receive, NEW e, e = Head(events), IsText(e), NEW text,
         text \in Seq(Token), Ordered(text), \A u \in ToSet(text) : u \in ToSet(e.text),
         answer' \in {text, answer \o text}
  PROVE /\ answer' \in Seq(Token) /\ Ordered(answer')
        /\ \A u \in ToSet(answer') : Published(u)'
        /\ \A t \in ToSet(answer'), u \in Token : Holds(Underway', u) => Before(t, u)
<1>1. /\ \A u \in Token : Holds(Underway', u) => Holds(Underway, u)
      /\ \A u \in Token : Published(u)' <=> Published(u)
      /\ \A u \in ToSet(e.text) : u \in Token /\ Published(u)
      /\ \A t \in ToSet(e.text), u \in Token : Holds(Underway', u) => Before(t, u)
      /\ \A t \in ToSet(answer), u \in ToSet(e.text) : Before(t, u)
  BY NextEvent
<1>2. /\ answer \in Seq(Token) /\ Ordered(answer)
      /\ \A u \in ToSet(answer) : Published(u)
      /\ \A t \in ToSet(answer), u \in Token : Holds(Underway, u) => Before(t, u)
  BY DEF OrderInv
<1>3. answer \o text \in Seq(Token) /\ ToSet(answer \o text) = ToSet(answer) \cup ToSet(text)
  BY <1>2, ToSetConcat
<1>4. Ordered(answer \o text)
  BY <1>1, <1>2, OrderedConcat
<1>5. \A u \in ToSet(answer) : u \in Token
  BY <1>2, LenProperties DEF ToSet
<1>6. ToSet(answer') \subseteq ToSet(answer) \cup ToSet(e.text)
  BY <1>3
<1>7. \A t \in ToSet(answer), u \in Token : Holds(Underway', u) => Before(t, u)
  BY <1>1, <1>2
<1> HIDE DEF Underway
<1>8. \A t \in ToSet(answer'), u \in Token : Holds(Underway', u) => Before(t, u)
  BY <1>1, <1>6, <1>7
<1>9. \A u \in ToSet(answer') : Published(u)'
  BY <1>1, <1>2, <1>5, <1>6
<1> QED
  BY <1>3, <1>4, <1>8, <1>9

LEMMA ApplyKeepsOrderInv == ASSUME OrderInv, EndInv, Apply PROVE OrderInv'
<1> DEFINE e == Head(events)
<1>1. Receive /\ mode' = mode /\ mode # "collect" /\ chunkText' = chunkText
  BY DEF Apply, Rendering
<1>2. /\ AddsUpInv' /\ InOrder(Underway') /\ OwnTexts(Underway')
      /\ \A u \in Token : Holds(Underway', u) => Published(u)' /\ Holds(Underway, u)
      /\ \A u \in Token : Published(u)' <=> Published(u)
  BY <1>1, NextEvent
<1>3. CASE IsText(e)
  <2>1. /\ answer' \in {e.text, answer \o e.text}
        /\ e.text \in Seq(Token) /\ Ordered(e.text)
    BY <1>1, <1>3, NextEvent DEF Apply, IsText, ApplyTextDelta, ApplyTextSet
  <2>2. /\ answer' \in Seq(Token) /\ Ordered(answer')
        /\ \A u \in ToSet(answer') : Published(u)'
        /\ \A t \in ToSet(answer'), u \in Token : Holds(Underway', u) => Before(t, u)
    BY <1>1, <1>3, <2>1, TextTaken
  <2> HIDE DEF Underway
  <2> QED
    BY <1>1, <1>2, <2>2 DEF OrderInv
<1>4. CASE ~IsText(e)
  <2>1. answer' = answer
    BY <1>4 DEF Apply, IsText, UpsertTool
  <2>2. \A u \in ToSet(answer) : u \in Token
    BY LenProperties DEF ToSet, OrderInv
  <2> HIDE DEF Underway
  <2> QED
    BY <1>1, <1>2, <2>1, <2>2 DEF OrderInv
<1> QED
  BY <1>3, <1>4

\* No text that replaces another comes after the other was joined.
LEMMA ChunksAreTexts ==
  ASSUME OrderInv, mode = "collect", Receive, NEW e, e = Head(events), IsText(e)
  PROVE /\ Chunk(e) = e.text
        /\ e.type = "text_set" => chunkText[e.part] = <<>>
<1>1. ASSUME e.type = "text_set", chunkText[e.part] # <<>> PROVE FALSE
  <2> DEFINE prev == chunkText[e.part]
             first == <<e.part, 1>>
  <2>1. /\ e.part \in Parts /\ OwnText(e)
        /\ \A t \in ToSet(answer), u \in ToSet(e.text) : Before(t, u)
    BY NextEvent
  <2>2. first \in ToSet(e.text)
    BY <1>1, <2>1 DEF OwnText
  <2>3. prev \in Seq(Token) /\ prev # <<>> /\ \A u \in ToSet(prev) : u[1] = e.part /\ u \in ToSet(answer)
    BY <1>1, <2>1 DEF OrderInv
  <2> HIDE DEF prev
  <2>4. PICK u : u \in ToSet(prev)
    <3>1. Len(prev) \in Nat \ {0} /\ DOMAIN prev = 1..Len(prev)
      BY <2>3, EmptySeq, LenProperties
    <3> QED
      BY <3>1 DEF ToSet
  <2>5. u[1] = e.part /\ u \in ToSet(answer) /\ Published(u)
    BY <2>3, <2>4 DEF OrderInv
  <2>6. Before(u, first)
    BY <2>1, <2>2, <2>5
  <2>7. u[2] < 1 /\ u[2] \in 1..written[u[1]]
    BY <2>5, <2>6 DEF Before, Published
  <2>8. written[u[1]] \in Nat
    BY <2>1, <2>5 DEF OrderInv, AddsUpInv, EchoInv, TypeOK
  <2> QED
    BY <2>7, <2>8
<1> QED
  BY <1>1 DEF Chunk

LEMMA CollectKeepsOrderInv == ASSUME OrderInv, Collect PROVE OrderInv'
<1> DEFINE e == Head(events)
<1>1. Receive /\ mode' = mode /\ mode = "collect"
  BY DEF Collect, Collecting
<1>2. /\ AddsUpInv' /\ InOrder(Underway') /\ OwnTexts(Underway')
      /\ \A u \in Token : Holds(Underway', u) => Published(u)' /\ Holds(Underway, u)
      /\ \A u \in Token : Published(u)' <=> Published(u)
  BY <1>1, NextEvent
<1>3. /\ answer \in Seq(Token) /\ chunkText \in [Parts -> Seq(Token)]
      /\ \A p \in Parts : \A u \in ToSet(chunkText[p]) : u[1] = p /\ u \in ToSet(answer)
  BY <1>1 DEF OrderInv
<1>4. CASE IsText(e)
  <2>1. /\ Chunk(e) = e.text /\ (e.type = "text_set" => chunkText[e.part] = <<>>)
        /\ e.part \in Parts /\ e.text \in Seq(Token) /\ Ordered(e.text) /\ OwnText(e)
    BY <1>1, <1>4, ChunksAreTexts, NextEvent
  <2>2. answer' = answer \o e.text
    BY <1>4, <2>1 DEF Collect, IsText
  <2>3. /\ answer' \in Seq(Token) /\ Ordered(answer')
        /\ \A u \in ToSet(answer') : Published(u)'
        /\ \A t \in ToSet(answer'), u \in Token : Holds(Underway', u) => Before(t, u)
    BY <1>1, <1>4, <2>1, <2>2, TextTaken
  <2>4. ToSet(answer') = ToSet(answer) \cup ToSet(e.text)
    BY <1>3, <2>1, <2>2, ToSetConcat
  <2> DEFINE c == chunkText[e.part]
             new == IF e.type = "text_delta" THEN c \o e.text ELSE e.text
  <2>5. c \in Seq(Token) /\ \A u \in ToSet(c) : u[1] = e.part /\ u \in ToSet(answer)
    BY <1>3, <2>1
  <2>6. chunkText' = [chunkText EXCEPT ![e.part] = new]
    BY <1>4 DEF Collect, IsText
  <2> HIDE DEF e, c
  <2>7. c \o e.text \in Seq(Token) /\ ToSet(c \o e.text) = ToSet(c) \cup ToSet(e.text)
    BY <2>1, <2>5, ToSetConcat
  <2>8. new \in Seq(Token) /\ \A u \in ToSet(new) : u[1] = e.part /\ u \in ToSet(answer')
    BY <2>1, <2>4, <2>5, <2>7 DEF OwnText
  <2> HIDE DEF new
  <2>9. /\ chunkText' \in [Parts -> Seq(Token)] /\ chunkText'[e.part] = new
        /\ \A p \in Parts : p # e.part => chunkText'[p] = chunkText[p]
    BY <1>3, <2>1, <2>6, <2>8
  <2>10. ASSUME NEW p \in Parts, NEW u \in ToSet(chunkText'[p])
         PROVE u[1] = p /\ u \in ToSet(answer')
    BY <1>3, <2>4, <2>8, <2>9, <2>10
  <2> HIDE DEF Underway
  <2> QED
    BY <1>1, <1>2, <2>3, <2>9, <2>10 DEF OrderInv
<1>5. CASE ~IsText(e)
  <2>1. UNCHANGED <<answer, chunkText>>
    BY <1>5 DEF Collect, IsText
  <2>2. \A u \in ToSet(answer) : u \in Token
    BY LenProperties DEF ToSet, OrderInv
  <2> HIDE DEF Underway
  <2> QED
    BY <1>1, <1>2, <2>1, <2>2 DEF OrderInv
<1> QED
  BY <1>4, <1>5

LEMMA OrderInit == Init => OrderInv
<1> SUFFICES ASSUME Init PROVE OrderInv
  OBVIOUS
<1>1. AddsUpInv
  BY AddsUpInit DEF Init
<1>2. answer = <<>> /\ events = <<>> /\ todo = <<>> /\ chunkText = [p \in Parts |-> <<>>]
  BY DEF Init, ReducerInit
<1>3. ToSet(<<>>) = {} /\ Len(<<>>) = 0
  BY DEF ToSet
<1>4. answer \in Seq(Token) /\ Ordered(answer) /\ \A u : u \notin ToSet(answer)
  BY <1>2, <1>3 DEF Ordered
<1>5. Underway = <<>>
  BY <1>2 DEF Underway
<1>6. InOrder(Underway) /\ OwnTexts(Underway) /\ \A u : ~Holds(Underway, u)
  BY <1>5, NoTexts
<1>7. chunkText \in [Parts -> Seq(Token)] /\ \A p \in Parts : ToSet(chunkText[p]) = {}
  BY <1>2, <1>3
<1> HIDE DEF Underway
<1> QED
  BY <1>1, <1>4, <1>6, <1>7 DEF OrderInv

LEMMA NextKeepsOrderInv ==
  (OrderInv /\ EndInv) /\ [Next]_vars => (OrderInv /\ EndInv)'
<1> SUFFICES ASSUME OrderInv, EndInv, [Next]_vars PROVE OrderInv' /\ EndInv'
  OBVIOUS
<1>1. EchoInv /\ EndInv'
  BY NextKeepsEndInv DEF OrderInv, AddsUpInv
<1>2. CASE Reducer
  BY <1>1, <1>2, ReducerKeepsOrderInv DEF Reducer
<1>3. CASE Apply \/ Collect
  BY <1>1, <1>3, ApplyKeepsOrderInv, CollectKeepsOrderInv
<1>4. CASE Tick \/ Finish \/ WriteOnce \/ ContextDone \/ UNCHANGED vars
  <2>1. UNCHANGED <<reducerVars, mode, answer, chunkText>>
    BY <1>4 DEF Tick, Finish, WriteOnce, ContextDone, vars, replyVars
  <2>2. UNCHANGED <<Underway, written, assistantMsgIDs>>
    BY <2>1 DEF reducerVars, server, streamState, goroutine, Underway
  <2>3. AddsUpInv'
    BY <2>1, ReducerKeepsAddsUpInv DEF OrderInv
  <2> HIDE DEF Underway
  <2> QED
    BY <1>1, <2>1, <2>2, <2>3, OrderUntouched
<1> QED
  BY <1>1, <1>2, <1>3, <1>4 DEF Next

LEMMA OrderedHasNothingTwice == OrderInv => NothingTwice
<1> SUFFICES ASSUME OrderInv, NEW i \in DOMAIN answer, NEW j \in DOMAIN answer,
                    answer[i] = answer[j], i # j
             PROVE  FALSE
  BY DEF NothingTwice, IsInjective
<1>1. DOMAIN answer = 1..Len(answer) /\ Len(answer) \in Nat
  BY LenProperties DEF OrderInv
<1>2. answer[i] \in Token
  BY <1>1, ElementOfSeq DEF OrderInv
<1>3. answer[i][2] \in Nat
  BY <1>2 DEF Token
<1>4. Before(answer[i], answer[j]) \/ Before(answer[j], answer[i])
  BY <1>1 DEF OrderInv, Ordered
<1> QED
  BY <1>3, <1>4 DEF Before

(***************************************************************************)
(* No token is in a reply twice: text that was held back, snapshots that   *)
(* repeat what deltas brought and texts that replace others never bring    *)
(* back what the answer already has, in any mode and at any time.          *)
(***************************************************************************)
THEOREM NothingIsRepeated == Spec => []NothingTwice
<1>1. Init => OrderInv /\ EndInv
  BY OrderInit, EndInit
<1> QED
  BY <1>1, NextKeepsOrderInv, OrderedHasNothingTwice, PTL DEF Spec

-----------------------------------------------------------------------------
(* The whole answer.                                                       *)

LEMMA TextsOnlyGrow ==
  ASSUME EchoInv, ReducerNext
  PROVE TextsWritten \subseteq TextsWritten'
<1>1. \A p \in Parts : written[p] \in Nat
  BY DEF EchoInv, TypeOK
<1>2. \A p \in Parts : written'[p] \in Nat /\ written'[p] >= written[p]
  <2>1. CASE \E p \in Parts : TextUpdated(p)
    <3>1. PICK p \in Parts : TextUpdated(p)
      BY <2>1
    <3>2. PICK k \in written[p]..MaxText[p] : written' = [written EXCEPT ![p] = k]
      BY <3>1 DEF TextUpdated
    <3>3. k \in Nat /\ k >= written[p]
      BY <1>1, PartsAssumption
    <3> QED
      BY <1>1, <3>2, <3>3 DEF EchoInv, TypeOK
  <2>2. CASE \E p \in Parts : TextDelta(p)
    BY <1>1, <2>2 DEF TextDelta, EchoInv, TypeOK
  <2>3. CASE written' = written
    BY <1>1, <2>3
  <2> QED
    BY <2>1, <2>2, <2>3
    DEF ReducerNext, MessageUpdated, ToolUpdated, SessionIdle, Send, CloseChannel, StreamStops, server
<1> QED
  BY <1>1, <1>2 DEF TextsWritten, Parts

LEMMA ReducerKeepsWholeInv ==
  ASSUME WholeInv, ReducerNext, UNCHANGED replyVars
  PROVE WholeInv'
<1>1. OrderInv /\ EndInv /\ EchoInv /\ AddsUpInv
  BY DEF WholeInv, OrderInv, AddsUpInv
<1>2. OrderInv' /\ EndInv' /\ TextsWritten \subseteq TextsWritten'
  BY <1>1, ReducerKeepsOrderInv, ReducerKeepsEndInv, TextsOnlyGrow
<1>3. UNCHANGED <<mode, answer>>
  BY DEF replyVars
<1>4. ASSUME Unbroken', NEW p \in TextParts, mode = "collect" \/ TextsWritten' \subseteq {p}
      PROVE  Arrives(p)'
  <2>1. Unbroken => Arrives(p)
    BY <1>2, <1>4 DEF WholeInv
  <2>2. events \in Seq(Harmless) /\ todo \in Seq(Harmless) /\ Underway = events \o todo
    BY <1>1, UnderwayTypes DEF Underway
  <2>3. CASE Line \/ SessionIdle
    <3>1. reader = "reading" /\ todo = <<>> /\ events' = events
      BY <2>3, LineFacts DEF SessionIdle, Listening
    <3>2. NewTexts
      <4>1. CASE Line
        BY <1>1, <4>1, LinesAreNew
      <4>2. CASE SessionIdle
        <5>1. /\ todo' = <<Done>> /\ assistantMsgIDs' = assistantMsgIDs /\ written' = written
              /\ ~IsText(Done)
          BY <4>2 DEF SessionIdle, Emit, streamState, IsText, Done
        <5> QED
          BY <5>1, NothingNew
      <4> QED
        BY <2>3, <4>1, <4>2
    <3>3. todo' \in Seq(Harmless) /\ Underway = events /\ Underway' = events \o todo'
      BY <1>2, <2>2, <3>1, UnderwayTypes, ConcatEmptySeq DEF OrderInv, AddsUpInv, EchoInv, Underway
    <3>4. \A u : Holds(Underway', u) <=> Holds(Underway, u) \/ Holds(todo', u)
      BY <2>2, <3>3, HoldsConcat
    <3>5. Arrives(p)
      BY <2>1, <3>1 DEF Unbroken
    <3> HIDE DEF Underway
    <3> QED
      BY <1>3, <3>2, <3>4, <3>5 DEF Arrives, NewTexts
  <2>4. CASE Send \/ CloseChannel \/ StreamStops
    <3>1. UNCHANGED <<written, assistantMsgIDs, idled>>
      BY <2>4 DEF Send, CloseChannel, StreamStops, server, streamState
    <3>2. \A u \in Token : Published(u)' <=> Published(u)
      BY <3>1 DEF Published
    <3>3. Arrives(p)
      BY <1>1, <1>4, <2>1, <2>4, <3>1 DEF Unbroken, Send, CloseChannel, StreamStops, EndInv
    <3>4. \A u : Holds(Underway, u) => Holds(Underway', u)
      <4>1. CASE Send \/ CloseChannel
        <5>1. Underway' = Underway
          BY <1>1, <4>1, SendingMovesNothing DEF CloseChannel, Underway
        <5> QED
          BY <5>1
      <4>2. CASE StreamStops
        <5>1. todo = <<>> \/ todo = <<Done>>
          BY <1>1, <1>4, <3>1, <4>2 DEF Unbroken, StreamStops, EndInv
        <5>2. ~IsText(Done)
          BY DEF IsText, Done
        <5>3. \A u : ~Holds(todo, u)
          BY <5>1, <5>2, NoTexts
        <5>4. Underway' = events
          BY <2>2, <4>2, ConcatEmptySeq DEF StreamStops, Underway
        <5> QED
          BY <2>2, <5>3, <5>4, HoldsConcat
      <4> QED
        BY <2>4, <4>1, <4>2
    <3> HIDE DEF Underway
    <3> QED
      BY <1>3, <3>2, <3>3, <3>4 DEF Arrives
  <2> QED
    BY <2>3, <2>4 DEF ReducerNext, Line
<1> QED
  BY <1>2, <1>3, <1>4 DEF WholeInv

\* A text that replaces the answer is the first of its part.
LEMMA ReplacementsComeFirst ==
  ASSUME OrderInv, Receive, NEW e, e = Head(events), e.type = "text_set",
         NEW p \in TextParts, TextsWritten \subseteq {p}
  PROVE \A u \in ToSet(answer) : u[1] # p
<1> SUFFICES ASSUME NEW u \in ToSet(answer), u[1] = p PROVE FALSE
  OBVIOUS
<1> DEFINE first == <<e.part, 1>>
<1>1. IsText(e)
  BY DEF IsText
<1>2. /\ e.part \in Parts /\ OwnText(e)
      /\ \A v \in ToSet(e.text) : v \in Token /\ Published(v)
      /\ \A t \in ToSet(answer), v \in ToSet(e.text) : Before(t, v)
  BY <1>1, NextEvent
<1>3. first \in ToSet(e.text)
  BY <1>2 DEF OwnText
<1>4. Published(first) /\ Before(u, first) /\ Published(u)
  BY <1>2, <1>3 DEF OrderInv
<1>5. /\ e.part \in TextParts /\ MessageOf[e.part] \in Assistants /\ 1 \in 1..written[e.part]
      /\ \A q \in Parts : written[q] \in Nat
  BY <1>4 DEF Published, OrderInv, AddsUpInv, EchoInv, TypeOK, RolesAndTypesAreRight
<1>6. e.part \in TextsWritten
  BY <1>2, <1>5 DEF TextsWritten
<1>7. e.part = p /\ u[2] < 1 /\ u[2] \in 1..written[p] /\ written[p] \in Nat
  BY <1>2, <1>4, <1>5, <1>6 DEF Before, Published
<1> QED
  BY <1>7

LEMMA ReceivingKeepsArrivals ==
  ASSUME WholeInv, Apply \/ Collect, NEW p \in TextParts, Arrives(p),
         mode = "collect" \/ TextsWritten \subseteq {p}
  PROVE Arrives(p)'
<1> DEFINE e == Head(events)
<1>1. OrderInv /\ Receive /\ (Collect => mode = "collect")
  BY DEF WholeInv, Apply, Collect, Collecting
<1>2. /\ \A u \in Token : Holds(Underway, u) =>
           Holds(Underway', u) \/ (IsText(e) /\ u \in ToSet(e.text))
      /\ \A u \in Token : Published(u)' <=> Published(u)
      /\ IsText(e) => e.text \in Seq(Token)
  BY <1>1, NextEvent
<1>3. ToSet(answer \o e.text) = ToSet(answer) \cup ToSet(e.text) \/ ~IsText(e)
  BY <1>1, <1>2, ToSetConcat DEF OrderInv
<1>4. \A u \in Token : u[1] = p /\ u \in ToSet(answer) => u \in ToSet(answer')
  <2>1. CASE ~IsText(e)
    BY <2>1 DEF IsText, Apply, Collect, UpsertTool
  <2>2. CASE IsText(e) /\ answer' = answer \o e.text
    BY <1>3, <2>2
  <2>3. CASE Apply /\ e.type = "text_set"
    <3>1. TextsWritten \subseteq {p}
      BY <2>3 DEF Apply, Rendering
    <3> QED
      BY <1>1, <2>3, <3>1, ReplacementsComeFirst
  <2>4. \/ ~IsText(e)
        \/ IsText(e) /\ answer' = answer \o e.text
        \/ Apply /\ e.type = "text_set"
    <3>1. CASE Apply
      BY <3>1 DEF Apply, IsText, ApplyTextDelta
    <3>2. CASE Collect
      <4>1. IsText(e) => Chunk(e) = e.text
        BY <1>1, <3>2, ChunksAreTexts
      <4> QED
        BY <3>2, <4>1 DEF Collect, IsText
    <3> QED
      BY <3>1, <3>2
  <2> QED
    BY <2>1, <2>2, <2>3, <2>4
<1>5. IsText(e) => \A u \in ToSet(e.text) : u \in ToSet(answer')
  <2> SUFFICES ASSUME IsText(e) PROVE \A u \in ToSet(e.text) : u \in ToSet(answer')
    OBVIOUS
  <2>1. answer' \in {e.text, answer \o e.text}
    <3>1. CASE Apply
      BY <3>1 DEF Apply, IsText, ApplyTextDelta, ApplyTextSet
    <3>2. CASE Collect
      <4>1. Chunk(e) = e.text
        BY <1>1, <3>2, ChunksAreTexts
      <4> QED
        BY <3>2, <4>1 DEF Collect, IsText
    <3> QED
      BY <3>1, <3>2
  <2> QED
    BY <1>3, <2>1
<1> HIDE DEF Underway, e
<1> QED
  BY <1>2, <1>4, <1>5 DEF Arrives

LEMMA NextKeepsWholeInv == WholeInv /\ [Next]_vars => WholeInv'
<1> SUFFICES ASSUME WholeInv, [Next]_vars PROVE WholeInv'
  OBVIOUS
<1>1. OrderInv' /\ EndInv'
  BY NextKeepsOrderInv DEF WholeInv
<1>2. CASE Reducer
  BY <1>2, ReducerKeepsWholeInv DEF Reducer
<1>3. CASE Apply \/ Collect
  <2>1. UNCHANGED <<mode, reader, idled, written>>
    BY <1>3 DEF Apply, Collect, Receive, server, goroutine
  <2>2. ASSUME Unbroken', NEW p \in TextParts, mode' = "collect" \/ TextsWritten' \subseteq {p}
        PROVE  Arrives(p)'
    <3>1. Unbroken /\ (mode = "collect" \/ TextsWritten \subseteq {p})
      BY <2>1, <2>2 DEF Unbroken, TextsWritten
    <3> QED
      BY <1>3, <3>1, ReceivingKeepsArrivals DEF WholeInv
  <2> QED
    BY <1>1, <2>2 DEF WholeInv
<1>4. CASE Tick \/ Finish \/ WriteOnce \/ ContextDone \/ UNCHANGED vars
  <2>1. UNCHANGED <<reducerVars, mode, answer>>
    BY <1>4 DEF Tick, Finish, WriteOnce, ContextDone, vars, replyVars
  <2>2. UNCHANGED <<Underway, written, assistantMsgIDs, reader, idled>>
    BY <2>1 DEF reducerVars, server, streamState, goroutine, Underway
  <2>3. /\ Unbroken' = Unbroken /\ TextsWritten' = TextsWritten
        /\ \A u \in Token : Published(u)' <=> Published(u)
    BY <2>2 DEF Unbroken, TextsWritten, Published
  <2> HIDE DEF Underway, Unbroken, TextsWritten
  <2>4. \A p \in TextParts : Arrives(p) => Arrives(p)'
    BY <2>1, <2>2, <2>3 DEF Arrives
  <2> QED
    BY <1>1, <2>1, <2>3, <2>4 DEF WholeInv
<1> QED
  BY <1>2, <1>3, <1>4 DEF Next

LEMMA WholeInit == Init => WholeInv
<1> SUFFICES ASSUME Init PROVE WholeInv
  OBVIOUS
<1>1. \A p \in Parts : written[p] = 0
  BY DEF Init, ReducerInit
<1>2. \A u \in Token : ~Published(u)
  BY <1>1 DEF Published, Parts
<1> QED
  BY <1>2, OrderInit, EndInit DEF WholeInv, Arrives

LEMMA TheWholeAnswerIsShown == ASSUME WholeInv, ShowsWhatIsRendered PROVE WholeAnswer
<1> SUFFICES ASSUME Answered, mode = "collect" \/ Cardinality(TextsWritten) = 1,
                    NEW p \in TextsWritten
             PROVE  HoldsInOrder(lastSent.text, p, written[p])
  BY DEF WholeAnswer
<1>1. OrderInv /\ EndInv /\ EchoInv
  BY DEF WholeInv, OrderInv, AddsUpInv
<1>2. p \in TextParts /\ p \in Parts /\ written[p] \in Nat /\ written[p] > 0
  BY <1>1 DEF TextsWritten, Parts, EchoInv, TypeOK
<1>3. Underway = <<>> /\ Unbroken /\ MessageOf[p] \in assistantMsgIDs
  BY <1>1, <1>2, SentMeansArrived DEF TextsWritten
<1>4. mode = "collect" \/ TextsWritten \subseteq {p}
  <2>1. IsFiniteSet(TextsWritten)
    BY PartsAssumption, FS_Subset, TextsWritten \subseteq Parts DEF TextsWritten, Parts
  <2>2. Cardinality(TextsWritten) = 1 => \E q : TextsWritten = {q}
    BY <2>1, FS_Singleton
  <2> HIDE DEF TextsWritten
  <2> QED
    BY <2>2
<1>5. Arrives(p) /\ \A u : ~Holds(Underway, u)
  BY <1>2, <1>3, <1>4, NoTexts DEF WholeInv
<1>6. lastSent.text = answer
  <2>1. CASE mode = "collect"
    BY <1>1, <2>1 DEF EndInv, Answered, Rendered
  <2>2. CASE mode # "collect"
    BY <1>1, <2>2, ShownParts DEF EndInv, Answered
  <2> QED
    BY <2>1, <2>2
<1>7. \A u : u \in ToSet(Text(p, written[p])) <=> \E i \in 1..written[p] : u = <<p, i>>
  BY <1>2, TextTokens
<1>8. answer \in Seq(Token) /\ DOMAIN answer = 1..Len(answer) /\ ToSet(answer) \subseteq Token
  BY <1>1, LenProperties DEF OrderInv, ToSet
<1>9. ASSUME NEW u \in ToSet(answer), u[1] = p PROVE \E i \in 1..written[p] : u = <<p, i>>
  <2>1. Published(u) /\ u \in Token
    BY <1>1, <1>8 DEF OrderInv
  <2> QED
    BY <1>9, <2>1 DEF Published, Token
<1>10. ASSUME NEW i \in 1..written[p] PROVE <<p, i>> \in ToSet(answer)
  <2> DEFINE u == <<p, i>>
  <2>1. u \in Token /\ u[1] = p /\ u[2] = i
    BY <1>2 DEF Token
  <2>2. Published(u)
    BY <1>2, <1>3, <2>1 DEF Published
  <2> HIDE DEF u, Underway
  <2>3. u \in ToSet(answer)
    BY <1>5, <2>1, <2>2 DEF Arrives
  <2> QED
    BY <2>3 DEF u
<1>11. {u \in ToSet(answer) : u[1] = p} = ToSet(Text(p, written[p]))
  BY <1>7, <1>9, <1>10
<1>12. \A i, j \in DOMAIN answer :
         i < j /\ answer[i][1] = p /\ answer[j][1] = p => answer[i][2] < answer[j][2]
  BY <1>1, <1>8 DEF OrderInv, Ordered, Before
<1> QED
  BY <1>6, <1>11, <1>12 DEF HoldsInOrder

(***************************************************************************)
(* A reply that was sent after session.idle has the whole of every text of *)
(* the answer when streamed output is off, and the whole of the one text   *)
(* there is when it is on: nothing is lost between what the server wrote   *)
(* and what Rocket.Chat shows.                                             *)
(***************************************************************************)
THEOREM AnswersAreWhole == Spec => []WholeAnswer
  BY WholeInit, NextKeepsWholeInv, RepliesAreNotLeftBehind, TheWholeAnswerIsShown, PTL DEF Spec
=============================================================================

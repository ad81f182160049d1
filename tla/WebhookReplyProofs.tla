------------------------- MODULE WebhookReplyProofs -------------------------
(* What WebhookReply shows in the room, for every webhook's texts, channels *)
(* of any capacity and any number of edits.                                 *)
EXTENDS WebhookReply, FiniteSetTheorems, FunctionTheorems, SequenceTheorems, TLAPS

Words == {Texts[j] : j \in DOMAIN Texts}
Events == {Message} \cup {Chunk(word) : word \in Words}

\* Only words of the webhook's texts are on the way to the reply.
OnTheWay ==
    /\ body \in Seq(Lines)
    /\ event \in Events /\ events \in Seq(Events)
    /\ converter = "send" => chunk \in Words
    /\ chunks \in Seq(Words) /\ buffer \in Seq(Words)

Begins(s, t) == Len(s) <= Len(t) /\ \A j \in 1..Len(s) : s[j] = t[j]

Waiting == responder \in {"post", "open", "collect", "ticking", "finishing"}

\* What the room shows, what the bot believes it shows, and what it sends.
Showing ==
    /\ lastUpdate \in {"none", "ok", "refused", "lost"}
    /\ responder \in {"post", "open", "collect", "ticking", "finishing", "done"}
    /\ responder \in {"post", "open"} => lastUpdate = "none" /\ buffer = <<>>
    /\ lastUpdate = "none" => shown \in {<<>>, Dots} /\ lastSent = <<>>
    /\ shown \in {<<>>} \cup Placeholders \/ (shown \in Seq(Words) /\ Begins(shown, buffer))
    /\ lastSent \in {<<>>, Notice} \/ (lastSent \in Seq(Words) /\ Begins(lastSent, buffer))
    /\ Waiting /\ lastUpdate = "ok" => shown = lastSent
    /\ responder = "collect" /\ lastSent = buffer /\ buffer # <<>> => lastUpdate = "ok"
    /\ responder = "ticking" => lastSent # buffer \/ buffer = <<>>
    /\ responder = "ticking" =>
         (update = buffer /\ buffer # <<>>) \/ (update = Notice /\ buffer = <<>>)
    /\ responder = "finishing" =>
         update = IF streamed /\ buffer = <<>> THEN NoResponse ELSE buffer
    /\ Waiting => result = FALSE
    /\ ResultTellsTheTruth /\ NoticeGivesWay

IInv == OnTheWay /\ Showing

-----------------------------------------------------------------------------
USE TextsAssumption, WebhookAssumption

LEMMA PlaceholdersDiffer ==
  /\ Dots # <<>> /\ Notice # <<>> /\ NoResponse # <<>>
  /\ Dots # Notice /\ Dots # NoResponse /\ Notice # NoResponse
<1>1. /\ Dots[1] = "..." /\ Notice[1] = "_Still working..._" /\ NoResponse[1] = "_No response produced._"
      /\ Len(Dots) = 1 /\ Len(Notice) = 1 /\ Len(NoResponse) = 1
  BY DEF Dots, Notice, NoResponse
<1>2. Dots # <<>> /\ Notice # <<>> /\ NoResponse # <<>>
  BY DEF Dots, Notice, NoResponse
<1>3. Dots[1] # Notice[1] /\ Dots[1] # NoResponse[1] /\ Notice[1] # NoResponse[1]
  BY <1>1
<1>4. Dots # Notice /\ Dots # NoResponse /\ Notice # NoResponse
  BY <1>3
<1>5. QED
  BY <1>2, <1>4

LEMMA NoWordIsAPlaceholder ==
  ASSUME NEW text \in Seq(Words)
  PROVE  text \notin Placeholders
<1>1. "..." \notin Words /\ "_Still working..._" \notin Words /\ "_No response produced._" \notin Words
  BY DEF Words, Placeholders, Dots, Notice, NoResponse
<1>2. Len(text) = 1 => text[1] \in Words
  BY ElementOfSeq
<1>3. \A p \in Placeholders : Len(p) = 1 /\ p[1] \notin Words
  <2>1. Len(Dots) = 1 /\ Dots[1] \notin Words
    BY <1>1 DEF Dots
  <2>2. Len(Notice) = 1 /\ Notice[1] \notin Words
    BY <1>1 DEF Notice
  <2>3. Len(NoResponse) = 1 /\ NoResponse[1] \notin Words
    BY <1>1 DEF NoResponse
  <2>4. QED
    BY <2>1, <2>2, <2>3 DEF Placeholders
<1>4. QED
  BY <1>2, <1>3

LEMMA Initially == Init => IInv
<1> SUFFICES ASSUME Init PROVE IInv
  OBVIOUS
<1>1. OnTheWay
  <2>1. Message \in Events
    BY DEF Events
  <2>2. /\ body = <<>> /\ event = Message /\ events = <<>> /\ converter # "send"
        /\ chunks = <<>> /\ buffer = <<>>
    BY DEF Init
  <2>3. QED
    BY <2>1, <2>2, EmptySeq DEF OnTheWay
<1>2. Showing
  BY PlaceholdersDiffer DEF Init, Showing, ResultTellsTheTruth, NoticeGivesWay, Waiting
<1>3. QED
  BY <1>1, <1>2 DEF IInv

-----------------------------------------------------------------------------
LEMMA HeadAndTail ==
  ASSUME NEW S, NEW s \in Seq(S), s # <<>>
  PROVE  Head(s) \in S /\ Tail(s) \in Seq(S)
BY HeadTailProperties

LEMMA LineOfItem ==
  ASSUME NEW line \in Lines, line.type = "item"
  PROVE  line.content \in Words
<1>1. line \notin [type : {"begin", "end", "other", "too long"}]
  OBVIOUS
<1>2. PICK j \in DOMAIN Texts : line = [type |-> "item", content |-> Texts[j]]
  BY <1>1 DEF Lines
<1>3. QED
  BY <1>2 DEF Words

LEMMA WaySteps ==
  ASSUME IInv, Next
  PROVE  OnTheWay'
<1> USE DEF IInv, OnTheWay
<1>1. ASSUME NEW line \in Lines, WriteLine(line)  PROVE OnTheWay'
  BY <1>1 DEF WriteLine, parsing, converting, responding
<1>2. CASE EndBody
  BY <1>2 DEF EndBody, parsing, converting, responding
<1>3. CASE SkipLine \/ BeginMessage
  BY <1>3, HeadAndTail DEF SkipLine, BeginMessage, parsing, converting, responding
<1>4. CASE ParseItem
  <2>1. Head(body) \in Lines /\ Tail(body) \in Seq(Lines) /\ Head(body).content \in Words
    BY <1>4, HeadAndTail, LineOfItem DEF ParseItem
  <2>2. QED
    BY <1>4, <2>1 DEF ParseItem, Events, converting, responding
<1>5. CASE EndMessage
  BY <1>5, HeadAndTail DEF EndMessage, Events, converting, responding
<1>6. CASE SendEvent \/ ParserEnds
  <2>1. Append(events, event) \in Seq(Events)
    BY AppendProperties
  <2>2. QED
    BY <1>6, <2>1 DEF SendEvent, ParserEnds, webhook, converting, responding
<1>7. CASE ReceiveEvent
  <2>1. Head(events) \in Events /\ Tail(events) \in Seq(Events)
    BY <1>7, HeadAndTail DEF ReceiveEvent
  <2>2. Head(events).type = "chunk" => Head(events).content \in Words
    BY <2>1 DEF Events, Message, Chunk
  <2>3. QED
    BY <1>7, <2>1, <2>2 DEF ReceiveEvent, webhook, responding
<1>8. CASE SendChunk \/ ConverterEnds
  <2>1. converter = "send" => Append(chunks, chunk) \in Seq(Words)
    BY AppendProperties
  <2>2. QED
    BY <1>8, <2>1 DEF SendChunk, ConverterEnds, webhook, parsing, responding
<1>9. CASE ReceiveChunk
  BY <1>9, HeadAndTail DEF ReceiveChunk, webhook, parsing
<1>10. CASE PostPlaceholder \/ GivesUp \/ OpenStream
  BY <1>10 DEF PostPlaceholder, GivesUp, OpenStream, webhook, parsing, converting
<1>11. CASE Tick \/ FinalUpdate \/ NoFinalUpdate
  BY <1>11 DEF Tick, FinalUpdate, NoFinalUpdate, StartUpdate, webhook, parsing, converting
<1>12. ASSUME NEW outcome \in {"ok", "refused", "lost"}, EndUpdate(outcome)  PROVE OnTheWay'
  BY <1>12 DEF EndUpdate, webhook, parsing, converting
<1>13. QED
  BY <1>1, <1>2, <1>3, <1>4, <1>5, <1>6, <1>7, <1>8, <1>9, <1>10, <1>11, <1>12
  DEF Next, ParserStep, ConverterStep, ResponderStep

-----------------------------------------------------------------------------
(* The responder.                                                          *)

\* A longer text is not one of the shorter ones it was made of.
LEMMA Grows ==
  ASSUME NEW text \in Seq(Words), NEW word \in Words
  PROVE  LET longer == Append(text, word) IN
         /\ longer \in Seq(Words) /\ longer # <<>>
         /\ \A s \in Seq(Words) : Begins(s, text) => Begins(s, longer) /\ s # longer
<1> DEFINE longer == Append(text, word)
<1>1. /\ longer \in Seq(Words) /\ longer # <<>> /\ Len(longer) = Len(text) + 1
      /\ \A j \in 1..Len(text) : longer[j] = text[j]
      /\ Len(text) \in Nat
  BY AppendProperties
<1>2. ASSUME NEW s \in Seq(Words), Begins(s, text)  PROVE Begins(s, longer) /\ s # longer
  <2>1. Len(s) \in Nat /\ Len(s) <= Len(text)
    BY <1>2 DEF Begins
  <2>2. QED
    BY <1>1, <1>2, <2>1 DEF Begins
<1>3. QED
  BY <1>1, <1>2

LEMMA Taking ==
  ASSUME IInv, ReceiveChunk
  PROVE  Showing'
<1> USE DEF IInv, ReceiveChunk, OnTheWay
<1>1. Head(chunks) \in Words
  BY HeadAndTail
<1>2. /\ buffer' \in Seq(Words) /\ buffer' # <<>> /\ buffer' \notin Placeholders
      /\ \A s \in Seq(Words) : Begins(s, buffer) => Begins(s, buffer') /\ s # buffer'
  BY <1>1, Grows, NoWordIsAPlaceholder
<1>3. lastSent' # buffer'
  BY <1>2 DEF Showing, Placeholders
<1>4. QED
  BY <1>2, <1>3 DEF Showing, Waiting, ResultTellsTheTruth, NoticeGivesWay

LEMMA Opening ==
  ASSUME IInv, PostPlaceholder \/ GivesUp \/ OpenStream
  PROVE  Showing'
<1> USE PlaceholdersDiffer DEF IInv, Placeholders
<1>1. CASE PostPlaceholder
  BY <1>1 DEF PostPlaceholder, Showing, Waiting, ResultTellsTheTruth, NoticeGivesWay
<1>2. CASE GivesUp
  BY <1>2 DEF GivesUp, Showing, Waiting, ResultTellsTheTruth, NoticeGivesWay
<1>3. CASE OpenStream
  BY <1>3 DEF OpenStream, Showing, Waiting, ResultTellsTheTruth, NoticeGivesWay
<1>4. QED
  BY <1>1, <1>2, <1>3

LEMMA Editing ==
  ASSUME IInv, Tick \/ FinalUpdate
  PROVE  Showing'
<1> USE DEF IInv, StartUpdate
<1>1. CASE Tick
  BY <1>1 DEF Tick, Showing, Waiting, ResultTellsTheTruth, NoticeGivesWay
<1>2. CASE FinalUpdate
  BY <1>2 DEF FinalUpdate, StreamIsEnded, Showing, Waiting, ResultTellsTheTruth, NoticeGivesWay
<1>3. QED
  BY <1>1, <1>2

LEMMA EndingWithout ==
  ASSUME IInv, NoFinalUpdate
  PROVE  Showing'
<1> USE DEF IInv, NoFinalUpdate, StreamIsEnded
<1>1. buffer \notin Placeholders
  BY NoWordIsAPlaceholder DEF OnTheWay
<1>2. ResultTellsTheTruth'
  BY DEF Showing, Waiting, ResultTellsTheTruth
<1>3. NoticeGivesWay'
  BY <1>1, PlaceholdersDiffer DEF Showing, Waiting, NoticeGivesWay, Placeholders
<1>4. QED
  BY <1>2, <1>3 DEF Showing, Waiting

LEMMA Answered ==
  ASSUME IInv, NEW outcome \in {"ok", "refused", "lost"}, EndUpdate(outcome)
  PROVE  Showing'
<1> USE DEF IInv, EndUpdate
<1>1. /\ buffer \in Seq(Words) /\ buffer \notin Placeholders /\ Begins(buffer, buffer)
      /\ Notice # NoResponse /\ Notice # <<>> /\ Notice \in Placeholders /\ NoResponse \in Placeholders
  BY NoWordIsAPlaceholder, PlaceholdersDiffer DEF OnTheWay, Begins, Placeholders
<1>2. CASE responder = "ticking"
  BY <1>1, <1>2 DEF Showing, Waiting, ResultTellsTheTruth, NoticeGivesWay
<1>3. CASE responder = "finishing"
  BY <1>1, <1>3 DEF Showing, Waiting, ResultTellsTheTruth, NoticeGivesWay
<1>4. QED
  BY <1>2, <1>3

LEMMA ShowingLeftAlone ==
  ASSUME Showing, UNCHANGED <<streamed, responding>>
  PROVE  Showing'
<1>1. /\ streamed' = streamed /\ responder' = responder /\ buffer' = buffer
      /\ lastSent' = lastSent /\ result' = result /\ update' = update
      /\ lastUpdate' = lastUpdate /\ shown' = shown
  BY DEF responding
<1>2. ResultTellsTheTruth' = ResultTellsTheTruth /\ NoticeGivesWay' = NoticeGivesWay
  BY <1>1 DEF ResultTellsTheTruth, NoticeGivesWay
<1>3. Waiting' = Waiting
  BY <1>1 DEF Waiting
<1> HIDE DEF ResultTellsTheTruth, NoticeGivesWay, Waiting
<1> QED BY <1>1, <1>2, <1>3 DEF Showing

LEMMA Step ==
  ASSUME IInv, [Next]_vars
  PROVE  IInv'
<1>1. CASE UNCHANGED vars
  <2>1. UNCHANGED <<streamed, body, event, events, converter, chunk, chunks, responding>>
    BY <1>1 DEF vars, webhook, parsing, converting
  <2>2. QED
    BY <2>1, ShowingLeftAlone DEF IInv, OnTheWay, responding
<1>2. CASE Next
  <2>1. CASE UNCHANGED <<streamed, responding>>
    BY <2>1, <1>2, WaySteps, ShowingLeftAlone DEF IInv
  <2>2. CASE EndBody \/ (\E line \in Lines : WriteLine(line)) \/ ParserStep \/ ConverterStep
    BY <2>1, <2>2
    DEF EndBody, WriteLine, ParserStep, SkipLine, BeginMessage, ParseItem, EndMessage, SendEvent,
        ParserEnds, ConverterStep, ReceiveEvent, SendChunk, ConverterEnds
  <2>3. CASE ResponderStep
    BY <1>2, <2>3, WaySteps, Taking, Opening, Editing, EndingWithout, Answered
    DEF IInv, ResponderStep
  <2>4. QED
    BY <1>2, <2>2, <2>3 DEF Next
<1>3. QED
  BY <1>1, <1>2

THEOREM Invariance == Spec => []IInv
BY Initially, Step, PTL DEF Spec

(***************************************************************************)
(* The result of a reply says whether the whole text was shown, and the    *)
(* bot told so, whichever edits failed or seemed to.                       *)
(***************************************************************************)
THEOREM ResultIsTrue == Spec => []ResultTellsTheTruth
<1>1. IInv => ResultTellsTheTruth
  BY DEF IInv, Showing
<1>2. QED
  BY <1>1, Invariance, PTL

(***************************************************************************)
(* "Still working" is the last word only after an edit that failed or      *)
(* seemed to fail.                                                         *)
(***************************************************************************)
THEOREM NoticesGiveWay == Spec => []NoticeGivesWay
<1>1. IInv => NoticeGivesWay
  BY DEF IInv, Showing
<1>2. QED
  BY <1>1, Invariance, PTL

LEMMA BeginsIsPrefix ==
  ASSUME NEW s \in Seq(Words), NEW t \in Seq(Words), Begins(s, t)
  PROVE  IsPrefix(s, t)
<1>1. Len(s) \in Nat /\ Len(t) \in Nat /\ Len(s) <= Len(t)
  BY DEF Begins
<1>2. SubSeq(s, 1, Len(s)) = s
  BY <1>1
<1>3. /\ SubSeq(t, 1, Len(s)) \in Seq(Words) /\ Len(SubSeq(t, 1, Len(s))) = Len(s)
      /\ \A j \in 1..Len(s) : SubSeq(t, 1, Len(s))[j] = t[j]
  BY <1>1
<1>4. SubSeq(t, 1, Len(s)) = s
  BY <1>3, SeqEqual DEF Begins
<1>5. QED
  BY <1>1, <1>2, <1>4 DEF IsPrefix

(***************************************************************************)
(* A text in the room only grows.                                          *)
(***************************************************************************)
THEOREM TextsOnlyGrow == Spec => ShownGrows
<1> DEFINE Growth == shown # <<>> /\ shown \notin Placeholders => IsPrefix(shown, shown')
<1>1. ASSUME IInv, [Next]_vars  PROVE Growth
  <2>1. SUFFICES ASSUME shown # <<>>, shown \notin Placeholders  PROVE IsPrefix(shown, shown')
    OBVIOUS
  <2>2. shown \in Seq(Words) /\ buffer \in Seq(Words) /\ Begins(shown, buffer)
    BY <1>1, <2>1 DEF IInv, Showing, OnTheWay
  <2>3. buffer # <<>> /\ responder \notin {"post", "open"}
    BY <1>1, <2>1, <2>2 DEF IInv, Showing, Begins
  <2>4. shown' \in {shown, buffer}
    BY <1>1, <2>3
    DEF IInv, Showing, Next, vars, responding, webhook, EndBody, WriteLine, ParserStep, SkipLine,
        BeginMessage, ParseItem, EndMessage, SendEvent, ParserEnds, ConverterStep, ReceiveEvent,
        SendChunk, ConverterEnds, ResponderStep, PostPlaceholder, GivesUp, OpenStream,
        ReceiveChunk, Tick, FinalUpdate, NoFinalUpdate, StartUpdate, EndUpdate
  <2>5. Begins(shown, shown') /\ shown' \in Seq(Words)
    BY <2>2, <2>4 DEF Begins
  <2>6. QED
    BY <2>2, <2>5, BeginsIsPrefix
<1>2. ASSUME IInv, [Next]_vars  PROVE [Growth]_vars
  BY <1>1, <1>2
<1>3. QED
  BY <1>2, Invariance, PTL DEF Spec, ShownGrows

-----------------------------------------------------------------------------
(* The pipeline.  Rank counts the members of a type up to an index: the     *)
(* items among the lines, and the chunks among the events.                  *)

Rank(s, type, i) == Cardinality({j \in 1..i : s[j].type = type})

LEMMA RanksAreFinite ==
  ASSUME NEW s, NEW type, NEW i \in Nat
  PROVE  IsFiniteSet({j \in 1..i : s[j].type = type})
<1>1. IsFiniteSet(1..i)
  BY FS_Interval
<1>2. {j \in 1..i : s[j].type = type} \subseteq 1..i
  OBVIOUS
<1> QED BY <1>1, <1>2, FS_Subset

LEMMA RankIsNat ==
  ASSUME NEW s, NEW type, NEW i \in Nat
  PROVE  Rank(s, type, i) \in Nat
BY RanksAreFinite, FS_CardinalityType DEF Rank

LEMMA RankOfNone ==
  ASSUME NEW s, NEW type
  PROVE  Rank(s, type, 0) = 0
<1>1. {j \in 1..0 : s[j].type = type} = {}
  OBVIOUS
<1> QED BY <1>1, FS_EmptySet DEF Rank

LEMMA RankAppend ==
  ASSUME NEW S, NEW s \in Seq(S), NEW x \in S, NEW type
  PROVE  /\ \A i \in 0..Len(s) : Rank(Append(s, x), type, i) = Rank(s, type, i)
         /\ Rank(Append(s, x), type, Len(s) + 1)
              = Rank(s, type, Len(s)) + IF x.type = type THEN 1 ELSE 0
<1> DEFINE t == Append(s, x)
           A == {j \in 1..Len(s) : s[j].type = type}
           B == {j \in 1..(Len(s) + 1) : t[j].type = type}
<1>1. Len(s) \in Nat /\ t[Len(s) + 1] = x /\ \A j \in 1..Len(s) : t[j] = s[j]
  OBVIOUS
<1>2. ASSUME NEW i \in 0..Len(s) PROVE Rank(t, type, i) = Rank(s, type, i)
  <2>1. \A j \in 1..i : t[j] = s[j]
    BY <1>1
  <2>2. {j \in 1..i : t[j].type = type} = {j \in 1..i : s[j].type = type}
    BY <2>1
  <2> QED BY <2>2 DEF Rank
<1>3. B = IF x.type = type THEN A \cup {Len(s) + 1} ELSE A
  BY <1>1
<1>4. IsFiniteSet(A) /\ Len(s) + 1 \notin A
  <2>1. IsFiniteSet(A)
    BY <1>1, RanksAreFinite
  <2>2. Len(s) + 1 \notin 1..Len(s)
    BY <1>1
  <2> QED BY <2>1, <2>2
<1>5. Cardinality(A \cup {Len(s) + 1}) = Cardinality(A) + 1
  BY <1>4, FS_AddElement
<1>6. Rank(t, type, Len(s) + 1) = Cardinality(B) /\ Rank(s, type, Len(s)) = Cardinality(A)
  BY DEF Rank
<1>7. Cardinality(A) \in Nat
  BY <1>4, FS_CardinalityType
<1> HIDE DEF A, B
<1> QED BY <1>2, <1>3, <1>5, <1>6, <1>7

LEMMA RankTail ==
  ASSUME NEW S, NEW s \in Seq(S), s # <<>>, NEW type, NEW i \in 0..(Len(s) - 1)
  PROVE  Rank(s, type, i + 1) = Rank(Tail(s), type, i) + IF Head(s).type = type THEN 1 ELSE 0
<1> DEFINE t == Tail(s)
           A == {j \in 1..i : t[j].type = type}
           B == {j \in 1..(i + 1) : s[j].type = type}
           C == B \ {1}
           f == [j \in A |-> j + 1]
<1>1. Len(s) \in Nat /\ i \in Nat /\ \A j \in 1..i : t[j] = s[j + 1]
  OBVIOUS
<1>2. s[1] = Head(s)
  OBVIOUS
<1>3. \A j \in A : j + 1 \in C
  BY <1>1
<1>4. \A k \in C : k - 1 \in A /\ f[k - 1] = k
  <2> SUFFICES ASSUME NEW k \in C PROVE k - 1 \in A /\ f[k - 1] = k
    OBVIOUS
  <2>1. k \in 2..(i + 1) /\ s[k].type = type
    BY <1>1
  <2>2. k - 1 \in 1..i /\ t[k - 1] = s[k]
    BY <1>1, <2>1
  <2>3. k - 1 \in A
    BY <2>1, <2>2
  <2> QED BY <2>1, <2>3
<1>5. f \in Bijection(A, C)
  <2>1. f \in [A -> C]
    BY <1>3
  <2>2. \A a, b \in A : f[a] = f[b] => a = b
    OBVIOUS
  <2>3. \A k \in C : \E j \in A : f[j] = k
    BY <1>4
  <2> HIDE DEF f, A, C
  <2> QED BY <2>1, <2>2, <2>3, Fun_IsBij
<1>6. IsFiniteSet(A)
  BY <1>1, RanksAreFinite
<1>7. IsFiniteSet(C) /\ Cardinality(C) = Cardinality(A)
  <2> HIDE DEF f, A, C
  <2>1. ExistsBijection(A, C)
    BY <1>5 DEF ExistsBijection
  <2> QED BY <2>1, <1>6, FS_Bijection
<1>8. B = IF Head(s).type = type THEN C \cup {1} ELSE C
  BY <1>1, <1>2
<1>9. Cardinality(C \cup {1}) = Cardinality(C) + 1
  BY <1>7, FS_AddElement
<1>10. Rank(s, type, i + 1) = Cardinality(B) /\ Rank(t, type, i) = Cardinality(A)
  BY DEF Rank
<1>11. Cardinality(A) \in Nat
  BY <1>6, FS_CardinalityType
<1> HIDE DEF A, B, C
<1> QED BY <1>7, <1>8, <1>9, <1>10, <1>11

-----------------------------------------------------------------------------
(* Where everything is that was parsed and has not come out: in the         *)
(* channel of chunks, with the converter, in the channel of events, with    *)
(* the parser, and behind them the items still in the body.                 *)

Count == items - Rank(body, "item", Len(body))
Sent == Rank(events, "chunk", Len(events))
Converting == IF converter = "send" THEN 1 ELSE 0
Sending == IF parser = "send" /\ event.type = "chunk" THEN 1 ELSE 0

BodyIsNext(count) ==
    \A i \in DOMAIN body :
        body[i].type = "item" => body[i].content = Texts[count + Rank(body, "item", i)]
EventsAreNext(count) ==
    \A i \in DOMAIN events :
        events[i].type = "chunk" => events[i].content = Texts[count + Rank(events, "chunk", i)]
ChunksAreNext(count) == \A i \in DOMAIN chunks : chunks[i] = Texts[count + i]

\* What is left of the body continues what was parsed.
BodyInv ==
    /\ items \in 0..Len(Texts)
    /\ Count \in Nat
    /\ BodyIsNext(Count)

\* Nothing is lost, doubled or out of order between the body and the buffer.
FlowInv ==
    /\ Count = Len(buffer) + Len(chunks) + Converting + Sent + Sending
    /\ \A i \in DOMAIN buffer : buffer[i] = Texts[i]
    /\ ChunksAreNext(Len(buffer))
    /\ converter = "send" => chunk = Texts[Len(buffer) + Len(chunks) + 1]
    /\ EventsAreNext(Len(buffer) + Len(chunks) + Converting)
    /\ Sending = 1 => event.content = Texts[Count]

\* Who is at work while who else is.
PhaseInv ==
    /\ parser \in {"off", "scan", "send", "done"}
    /\ converter \in {"off", "receive", "send", "done"}
    /\ parser = "off" <=> converter = "off"
    /\ responder \in {"post", "open"} => parser = "off"
    /\ parser = "off" => items = 0 /\ responder \in {"post", "open", "done"}
    /\ converter = "done" => parser = "done" /\ events = <<>>
    /\ responder \in {"finishing", "done"} /\ parser # "off" =>
         converter = "done" /\ chunks = <<>>

PipeInv == OnTheWay /\ BodyInv /\ FlowInv /\ PhaseInv

LEMMA CountsAreNat ==
  ASSUME OnTheWay
  PROVE  /\ Len(body) \in Nat /\ Len(events) \in Nat /\ Len(chunks) \in Nat /\ Len(buffer) \in Nat
         /\ DOMAIN body = 1..Len(body) /\ DOMAIN events = 1..Len(events)
         /\ DOMAIN chunks = 1..Len(chunks) /\ DOMAIN buffer = 1..Len(buffer)
         /\ Sent \in Nat /\ Converting \in {0, 1} /\ Sending \in {0, 1}
         /\ \A i \in 0..Len(body) : Rank(body, "item", i) \in Nat
         /\ \A i \in 0..Len(events) : Rank(events, "chunk", i) \in Nat
<1>1. /\ Len(body) \in Nat /\ Len(events) \in Nat /\ Len(chunks) \in Nat /\ Len(buffer) \in Nat
      /\ DOMAIN body = 1..Len(body) /\ DOMAIN events = 1..Len(events)
      /\ DOMAIN chunks = 1..Len(chunks) /\ DOMAIN buffer = 1..Len(buffer)
  BY DEF OnTheWay
<1>2. ASSUME NEW i \in 0..Len(body) PROVE Rank(body, "item", i) \in Nat
  BY <1>1, RankIsNat
<1>3. ASSUME NEW i \in 0..Len(events) PROVE Rank(events, "chunk", i) \in Nat
  BY <1>1, RankIsNat
<1>4. Len(events) \in 0..Len(events)
  BY <1>1
<1> QED BY <1>1, <1>2, <1>3, <1>4 DEF Sent, Converting, Sending

LEMMA PipeInit == Init => PipeInv
<1> SUFFICES ASSUME Init PROVE PipeInv
  OBVIOUS
<1>1. OnTheWay
  BY Initially DEF IInv
<1>2. /\ body = <<>> /\ events = <<>> /\ chunks = <<>> /\ buffer = <<>> /\ items = 0
      /\ parser = "off" /\ converter = "off" /\ responder = "post"
  BY DEF Init
<1>3. Count = 0 /\ Sent = 0 /\ Converting = 0 /\ Sending = 0
  BY <1>2, RankOfNone DEF Count, Sent, Converting, Sending
<1>4. BodyInv
  BY <1>2, <1>3 DEF BodyInv, BodyIsNext
<1>5. FlowInv
  BY <1>2, <1>3 DEF FlowInv, ChunksAreNext, EventsAreNext
<1>6. PhaseInv
  BY <1>2 DEF PhaseInv
<1> QED BY <1>1, <1>4, <1>5, <1>6 DEF PipeInv

-----------------------------------------------------------------------------
(* The body.                                                               *)

LEMMA BodyGrows ==
  ASSUME OnTheWay, BodyInv, NEW line \in Lines, WriteLine(line)
  PROVE  BodyInv' /\ Count' = Count
<1> DEFINE one == IF line.type = "item" THEN 1 ELSE 0
<1>1. /\ body' = Append(body, line) /\ items' = items + one
      /\ line.type = "item" => items < Len(Texts) /\ line.content = Texts[items + 1]
  BY DEF WriteLine, BodyInv
<1>2. Len(body') = Len(body) + 1 /\ DOMAIN body' = 1..(Len(body) + 1)
  BY <1>1, CountsAreNat DEF OnTheWay
<1>3. /\ \A i \in 0..Len(body) : Rank(body', "item", i) = Rank(body, "item", i)
      /\ Rank(body', "item", Len(body) + 1) = Rank(body, "item", Len(body)) + one
  <2>1. body \in Seq(Lines) /\ body' = Append(body, line)
    BY <1>1 DEF OnTheWay
  <2>2. /\ \A i \in 0..Len(body) : Rank(Append(body, line), "item", i) = Rank(body, "item", i)
        /\ Rank(Append(body, line), "item", Len(body) + 1)
             = Rank(body, "item", Len(body)) + IF line.type = "item" THEN 1 ELSE 0
    BY <2>1, RankAppend
  <2> QED BY <2>1, <2>2
<1>4. Count' = Count
  <2>1. Rank(body', "item", Len(body')) = Rank(body, "item", Len(body)) + one
    BY <1>2, <1>3
  <2>2. items \in Nat /\ Rank(body, "item", Len(body)) \in Nat /\ one \in {0, 1}
    BY CountsAreNat DEF BodyInv
  <2> HIDE DEF one
  <2> QED BY <1>1, <2>1, <2>2 DEF Count
<1>5. items' \in 0..Len(Texts)
  BY <1>1 DEF BodyInv
<1>6. ASSUME NEW i \in DOMAIN body', body'[i].type = "item"
      PROVE  body'[i].content = Texts[Count + Rank(body', "item", i)]
  <2>1. CASE i = Len(body) + 1
    <3>1. body'[i] = line
      BY <1>1, <2>1 DEF OnTheWay
    <3>2. Count + Rank(body', "item", i) = items + 1
      BY <1>3, <1>6, <2>1, <3>1, CountsAreNat DEF Count, BodyInv
    <3> QED BY <1>1, <1>6, <3>1, <3>2
  <2>2. CASE i # Len(body) + 1
    <3>1. i \in DOMAIN body /\ i \in 0..Len(body) /\ body'[i] = body[i]
      BY <1>1, <1>2, <2>2, CountsAreNat DEF OnTheWay
    <3> QED BY <1>3, <1>6, <3>1 DEF BodyInv, BodyIsNext
  <2> QED BY <2>1, <2>2
<1> QED BY <1>4, <1>5, <1>6 DEF BodyInv, BodyIsNext

\* A line is read: an item is the next of the webhook's texts.
LEMMA BodyIsRead ==
  ASSUME OnTheWay, BodyInv, body # <<>>, body' = Tail(body), items' = items
  PROVE  /\ BodyInv'
         /\ Count' = Count + IF Head(body).type = "item" THEN 1 ELSE 0
         /\ Head(body).type = "item" => Head(body).content = Texts[Count + 1] /\ Count + 1 \in 1..Len(Texts)
<1> DEFINE one == IF Head(body).type = "item" THEN 1 ELSE 0
<1>1. /\ Len(body) \in Nat /\ Len(body) # 0 /\ Len(body') = Len(body) - 1
      /\ DOMAIN body' = 1..(Len(body) - 1)
      /\ \A i \in 1..(Len(body) - 1) : body'[i] = body[i + 1]
      /\ Head(body) = body[1]
  BY DEF OnTheWay
<1>2. \A i \in 0..(Len(body) - 1) :
        Rank(body, "item", i + 1) = Rank(body', "item", i) + one
  BY RankTail DEF OnTheWay
<1>3. ASSUME NEW i \in 0..(Len(body) - 1) PROVE Rank(body', "item", i) \in Nat
  <2>1. i \in Nat
    BY <1>1
  <2> QED BY <2>1, RankIsNat
<1>4. Rank(body, "item", Len(body)) = Rank(body', "item", Len(body')) + one
  <2>1. Len(body) - 1 \in 0..(Len(body) - 1) /\ (Len(body) - 1) + 1 = Len(body)
    BY <1>1
  <2> QED BY <1>1, <1>2, <2>1
<1>5. Rank(body', "item", Len(body')) \in Nat /\ items \in Nat /\ Count \in Nat /\ Len(Texts) \in Nat
  BY <1>1, <1>3 DEF BodyInv
<1>6. Count' = Count + one
  BY <1>4, <1>5 DEF Count, BodyInv
<1>7. ASSUME NEW i \in DOMAIN body', body'[i].type = "item"
      PROVE  body'[i].content = Texts[Count' + Rank(body', "item", i)]
  <2>1. i + 1 \in DOMAIN body /\ body'[i] = body[i + 1] /\ i \in 0..(Len(body) - 1)
    BY <1>1, CountsAreNat
  <2>2. body[i + 1].content = Texts[Count + Rank(body, "item", i + 1)]
    BY <1>7, <2>1 DEF BodyInv, BodyIsNext
  <2>3. Count + Rank(body, "item", i + 1) = Count' + Rank(body', "item", i)
    BY <1>2, <1>3, <1>5, <1>6, <2>1
  <2> QED BY <2>1, <2>2, <2>3
<1>8. ASSUME Head(body).type = "item"
      PROVE  Head(body).content = Texts[Count + 1] /\ Count + 1 \in 1..Len(Texts)
  <2>1. Rank(body, "item", 1) = 1
    <3>1. Rank(body', "item", 0) = 0
      BY RankOfNone
    <3>2. 0 \in 0..(Len(body) - 1) /\ 0 + 1 = 1
      BY <1>1
    <3> QED BY <1>2, <1>8, <3>1, <3>2
  <2>2. 1 \in DOMAIN body
    BY <1>1, CountsAreNat
  <2>3. Count + 1 <= items
    BY <1>4, <1>5, <1>8 DEF Count
  <2> QED BY <1>1, <1>5, <1>8, <2>1, <2>2, <2>3 DEF BodyInv, BodyIsNext
<1>9. Count' \in Nat /\ items' \in 0..Len(Texts)
  BY <1>5, <1>6 DEF BodyInv
<1> QED BY <1>6, <1>7, <1>8, <1>9 DEF BodyInv, BodyIsNext

LEMMA BodyIsLeft ==
  ASSUME BodyInv, UNCHANGED <<body, items>>
  PROVE  BodyInv' /\ Count' = Count
  BY DEF BodyInv, Count, BodyIsNext

-----------------------------------------------------------------------------
(* What is under way.                                                      *)

LEMMA FlowIsLeft ==
  ASSUME FlowInv, Count' = Count, UNCHANGED <<events, converter, chunk, chunks, buffer>>,
         Sending' = Sending, event' = event \/ Sending = 0
  PROVE  FlowInv'
<1>1. Sent' = Sent /\ Converting' = Converting
  BY DEF Sent, Converting
<1> QED BY <1>1 DEF FlowInv, ChunksAreNext, EventsAreNext

LEMMA FlowParseItem ==
  ASSUME PipeInv, ParseItem
  PROVE  FlowInv'
<1>1. /\ body # <<>> /\ body' = Tail(body) /\ items' = items /\ Head(body).type = "item"
      /\ event' = Chunk(Head(body).content) /\ parser = "scan" /\ parser' = "send"
      /\ UNCHANGED <<events, converter, chunk, chunks, buffer>>
  BY DEF ParseItem, converting, responding
<1>2. Count' = Count + 1 /\ Head(body).content = Texts[Count + 1]
  BY <1>1, BodyIsRead DEF PipeInv
<1>3. Sending = 0 /\ Sending' = 1 /\ event'.content = Texts[Count']
  BY <1>1, <1>2 DEF Sending, Chunk
<1>4. Sent' = Sent /\ Converting' = Converting
  BY <1>1 DEF Sent, Converting
<1>5. Count' = Len(buffer) + Len(chunks) + Converting + Sent + 1
  BY <1>2, <1>3, CountsAreNat DEF PipeInv, FlowInv
<1> QED BY <1>1, <1>3, <1>4, <1>5 DEF PipeInv, FlowInv, ChunksAreNext, EventsAreNext

LEMMA FlowSendEvent ==
  ASSUME PipeInv, SendEvent
  PROVE  FlowInv'
<1> DEFINE base == Len(buffer) + Len(chunks) + Converting
<1>1. /\ parser = "send" /\ parser' = "scan" /\ events' = Append(events, event)
      /\ events \in Seq(Events) /\ event \in Events
      /\ UNCHANGED <<body, items, event, converter, chunk, chunks, buffer>>
  BY DEF SendEvent, webhook, converting, responding, PipeInv, OnTheWay
<1>2. Count' = Count /\ Converting' = Converting /\ Sending' = 0
  BY <1>1 DEF Count, Converting, Sending
<1>3. /\ \A i \in 0..Len(events) : Rank(Append(events, event), "chunk", i) = Rank(events, "chunk", i)
      /\ Rank(Append(events, event), "chunk", Len(events) + 1)
           = Rank(events, "chunk", Len(events)) + IF event.type = "chunk" THEN 1 ELSE 0
  BY <1>1, RankAppend
<1>4. /\ Len(events) \in Nat /\ DOMAIN events = 1..Len(events)
      /\ Len(events') = Len(events) + 1 /\ DOMAIN events' = 1..(Len(events) + 1)
      /\ events'[Len(events) + 1] = event
      /\ \A i \in 1..Len(events) : events'[i] = events[i]
  BY <1>1
<1>5. Sent' = Sent + Sending
  BY <1>1, <1>3, <1>4 DEF Sent, Sending
<1>6. Count = base + Sent + Sending /\ base \in Nat
  BY CountsAreNat DEF PipeInv, FlowInv
<1>7. ASSUME NEW i \in DOMAIN events', events'[i].type = "chunk"
      PROVE  events'[i].content = Texts[base + Rank(events', "chunk", i)]
  <2>1. CASE i = Len(events) + 1
    <3>1. Sending = 1 /\ Rank(events', "chunk", i) = Sent + 1
      BY <1>1, <1>3, <1>4, <1>7, <2>1 DEF Sending, Sent
    <3>2. base + Rank(events', "chunk", i) = Count
      BY <1>6, <3>1, CountsAreNat DEF PipeInv
    <3> QED BY <1>4, <2>1, <3>1, <3>2 DEF PipeInv, FlowInv
  <2>2. CASE i # Len(events) + 1
    <3>1. i \in DOMAIN events /\ i \in 0..Len(events) /\ events'[i] = events[i]
      BY <1>4, <2>2
    <3>2. Rank(events', "chunk", i) = Rank(events, "chunk", i)
      BY <1>1, <1>3, <3>1
    <3> QED BY <1>7, <3>1, <3>2 DEF PipeInv, FlowInv, EventsAreNext
  <2> QED BY <2>1, <2>2
<1>8. EventsAreNext(Len(buffer) + Len(chunks) + Converting)'
  BY <1>1, <1>2, <1>7 DEF EventsAreNext
<1>9. Count' = (Len(buffer) + Len(chunks) + Converting + Sent + Sending)'
  BY <1>1, <1>2, <1>5, <1>6, CountsAreNat DEF PipeInv
<1> QED BY <1>1, <1>2, <1>8, <1>9 DEF PipeInv, FlowInv, ChunksAreNext

LEMMA FlowReceiveEvent ==
  ASSUME PipeInv, ReceiveEvent
  PROVE  FlowInv'
<1> DEFINE base == Len(buffer) + Len(chunks)
           one == IF Head(events).type = "chunk" THEN 1 ELSE 0
<1>1. /\ converter = "receive" /\ events # <<>> /\ events' = Tail(events)
      /\ events \in Seq(Events)
      /\ UNCHANGED <<body, items, parser, event, chunks, buffer>>
  BY DEF ReceiveEvent, webhook, responding, PipeInv, OnTheWay
<1>2. Count' = Count /\ Sending' = Sending /\ Converting = 0
  BY <1>1 DEF Count, Converting, Sending
<1>3. /\ Len(events) \in Nat /\ Len(events) # 0 /\ Len(events') = Len(events) - 1
      /\ DOMAIN events' = 1..(Len(events) - 1) /\ DOMAIN events = 1..Len(events)
      /\ \A i \in 1..(Len(events) - 1) : events'[i] = events[i + 1]
      /\ Head(events) = events[1]
  BY <1>1
<1>4. \A i \in 0..(Len(events) - 1) :
        Rank(events, "chunk", i + 1) = Rank(events', "chunk", i) + one
  BY <1>1, RankTail
<1>5. ASSUME NEW i \in 0..(Len(events) - 1) PROVE Rank(events', "chunk", i) \in Nat
  <2>1. i \in Nat
    BY <1>3
  <2> QED BY <2>1, RankIsNat
<1>6. Sent = Sent' + one /\ Sent' \in Nat
  <2>1. Len(events) - 1 \in 0..(Len(events) - 1) /\ (Len(events) - 1) + 1 = Len(events)
    BY <1>3
  <2> QED BY <1>3, <1>4, <1>5, <2>1 DEF Sent
<1>7. Count = base + Sent + Sending /\ base \in Nat
  BY <1>2, CountsAreNat DEF PipeInv, FlowInv
<1>8. Converting' = one /\ (one = 1 => chunk' = Head(events).content)
  BY <1>1 DEF ReceiveEvent, Converting
<1>9. converter' = "send" => chunk' = Texts[base + 1]
  <2> SUFFICES ASSUME one = 1 PROVE Head(events).content = Texts[base + 1]
    BY <1>8 DEF Converting
  <2>1. Rank(events, "chunk", 1) = 1
    <3>1. Rank(events', "chunk", 0) = 0
      BY RankOfNone
    <3>2. 0 \in 0..(Len(events) - 1) /\ 0 + 1 = 1
      BY <1>3
    <3> QED BY <1>4, <3>1, <3>2
  <2>2. 1 \in DOMAIN events /\ events[1].type = "chunk"
    BY <1>3
  <2>3. events[1].content = Texts[base + 0 + 1]
    BY <1>2, <2>1, <2>2 DEF PipeInv, FlowInv, EventsAreNext
  <2> QED BY <1>3, <1>7, <2>3
<1>10. ASSUME NEW i \in DOMAIN events', events'[i].type = "chunk"
       PROVE  events'[i].content = Texts[base + one + Rank(events', "chunk", i)]
  <2>1. i + 1 \in DOMAIN events /\ events'[i] = events[i + 1] /\ i \in 0..(Len(events) - 1)
    BY <1>3
  <2>2. events[i + 1].content = Texts[base + 0 + Rank(events, "chunk", i + 1)]
    BY <1>2, <1>10, <2>1 DEF PipeInv, FlowInv, EventsAreNext
  <2>3. base + 0 + Rank(events, "chunk", i + 1) = base + one + Rank(events', "chunk", i)
    <3>1. Rank(events, "chunk", i + 1) = Rank(events', "chunk", i) + one
      BY <1>4, <2>1
    <3>2. Rank(events', "chunk", i) \in Nat
      BY <1>5, <2>1
    <3>3. one \in Nat /\ base \in Nat
      BY <1>7
    <3> HIDE DEF one, base
    <3> QED BY <3>1, <3>2, <3>3
  <2> QED BY <2>1, <2>2, <2>3
<1>11. EventsAreNext(Len(buffer) + Len(chunks) + Converting)'
  BY <1>1, <1>8, <1>10 DEF EventsAreNext
<1>12. Count' = (Len(buffer) + Len(chunks) + Converting + Sent + Sending)'
  <2>1. Len(buffer') + Len(chunks') = base
    BY <1>1
  <2>2. one \in Nat /\ Sending \in Nat
    BY CountsAreNat DEF PipeInv
  <2> HIDE DEF one, base
  <2> QED BY <1>2, <1>6, <1>7, <1>8, <2>1, <2>2
<1> QED BY <1>1, <1>2, <1>9, <1>11, <1>12 DEF PipeInv, FlowInv, ChunksAreNext

LEMMA FlowSendChunk ==
  ASSUME PipeInv, SendChunk
  PROVE  FlowInv'
<1>1. /\ converter = "send" /\ converter' = "receive" /\ chunks' = Append(chunks, chunk)
      /\ chunks \in Seq(Words) /\ UNCHANGED <<body, items, parser, event, events, chunk, buffer>>
  BY DEF SendChunk, webhook, parsing, responding, PipeInv, OnTheWay
<1>2. Count' = Count /\ Sending' = Sending /\ Sent' = Sent /\ Converting = 1 /\ Converting' = 0
  BY <1>1 DEF Count, Sending, Sent, Converting
<1>3. /\ Len(chunks') = Len(chunks) + 1 /\ DOMAIN chunks' = 1..(Len(chunks) + 1)
      /\ chunks'[Len(chunks) + 1] = chunk
      /\ DOMAIN chunks = 1..Len(chunks) /\ \A i \in 1..Len(chunks) : chunks'[i] = chunks[i]
  BY <1>1
<1>4. chunk = Texts[Len(buffer) + (Len(chunks) + 1)]
  <2>1. Len(buffer) + Len(chunks) + 1 = Len(buffer) + (Len(chunks) + 1)
    BY CountsAreNat DEF PipeInv
  <2> QED BY <1>1, <2>1 DEF PipeInv, FlowInv
<1>5. ChunksAreNext(Len(buffer))'
  BY <1>1, <1>3, <1>4 DEF PipeInv, FlowInv, ChunksAreNext
<1>6. Len(buffer) + Len(chunks) + 1 = Len(buffer') + Len(chunks') + 0
  BY <1>1, <1>3, CountsAreNat DEF PipeInv
<1>7. EventsAreNext(Len(buffer) + Len(chunks) + Converting)'
  BY <1>1, <1>2, <1>6 DEF PipeInv, FlowInv, EventsAreNext
<1>8. Count' = (Len(buffer) + Len(chunks) + Converting + Sent + Sending)'
  BY <1>1, <1>2, <1>6 DEF PipeInv, FlowInv
<1> QED BY <1>1, <1>2, <1>5, <1>7, <1>8 DEF PipeInv, FlowInv

LEMMA FlowReceiveChunk ==
  ASSUME PipeInv, ReceiveChunk
  PROVE  FlowInv' /\ Head(chunks) = Texts[Len(buffer) + 1] /\ Len(buffer) < Count
<1>1. /\ chunks # <<>> /\ chunks' = Tail(chunks) /\ buffer' = Append(buffer, Head(chunks))
      /\ chunks \in Seq(Words) /\ buffer \in Seq(Words)
      /\ UNCHANGED <<body, items, parser, event, events, converter, chunk>>
  BY DEF ReceiveChunk, webhook, parsing, PipeInv, OnTheWay
<1>2. Count' = Count /\ Sending' = Sending /\ Sent' = Sent /\ Converting' = Converting
  BY <1>1 DEF Count, Sending, Sent, Converting
<1>3. /\ Len(chunks) \in Nat /\ Len(chunks) # 0 /\ Len(chunks') = Len(chunks) - 1
      /\ DOMAIN chunks = 1..Len(chunks) /\ DOMAIN chunks' = 1..(Len(chunks) - 1)
      /\ \A i \in 1..(Len(chunks) - 1) : chunks'[i] = chunks[i + 1]
      /\ Head(chunks) = chunks[1]
  BY <1>1
<1>4. Head(chunks) = Texts[Len(buffer) + 1]
  BY <1>3 DEF PipeInv, FlowInv, ChunksAreNext
<1>5. Head(chunks) \in Words
  BY <1>1, HeadAndTail
<1>6. /\ Len(buffer') = Len(buffer) + 1 /\ DOMAIN buffer' = 1..(Len(buffer) + 1)
      /\ buffer'[Len(buffer) + 1] = Head(chunks)
      /\ DOMAIN buffer = 1..Len(buffer) /\ \A i \in 1..Len(buffer) : buffer'[i] = buffer[i]
  <2> DEFINE word == Head(chunks)
  <2>1. word \in Words /\ buffer' = Append(buffer, word)
    BY <1>1, <1>5
  <2> HIDE DEF word
  <2> QED BY <1>1, <2>1 DEF word
<1>7. \A i \in DOMAIN buffer' : buffer'[i] = Texts[i]
  BY <1>4, <1>6 DEF PipeInv, FlowInv
<1>8. ASSUME NEW i \in DOMAIN chunks' PROVE chunks'[i] = Texts[Len(buffer') + i]
  <2>1. i + 1 \in DOMAIN chunks /\ chunks'[i] = chunks[i + 1]
    BY <1>3, <1>8
  <2>2. chunks[i + 1] = Texts[Len(buffer) + (i + 1)]
    BY <2>1 DEF PipeInv, FlowInv, ChunksAreNext
  <2>3. Len(buffer) + (i + 1) = Len(buffer') + i
    BY <1>3, <1>6, CountsAreNat DEF PipeInv
  <2> QED BY <2>1, <2>2, <2>3
<1>9. Len(buffer) + Len(chunks) = Len(buffer') + Len(chunks')
  BY <1>3, <1>6, CountsAreNat DEF PipeInv
<1>10. FlowInv'
  BY <1>1, <1>2, <1>7, <1>8, <1>9 DEF PipeInv, FlowInv, ChunksAreNext, EventsAreNext
<1>11. Len(buffer) < Count
  BY <1>3, CountsAreNat DEF PipeInv, FlowInv
<1> QED BY <1>4, <1>10, <1>11

LEMMA PhaseStep ==
  ASSUME PipeInv, Next
  PROVE  PhaseInv'
<1> USE DEF PipeInv, PhaseInv
<1>1. ASSUME NEW line \in Lines, WriteLine(line)  PROVE PhaseInv'
  BY <1>1 DEF WriteLine, parsing, converting, responding
<1>2. CASE EndBody
  BY <1>2 DEF EndBody, parsing, converting, responding
<1>3. CASE ParserStep
  <2>1. /\ parser \in {"scan", "send"} /\ parser' \in {"scan", "send", "done"}
        /\ UNCHANGED <<items, converter, chunks, responder>>
    <3>1. CASE SkipLine \/ BeginMessage
      BY <3>1 DEF SkipLine, BeginMessage, parsing, converting, responding
    <3>2. CASE ParseItem \/ EndMessage
      BY <3>2 DEF ParseItem, EndMessage, converting, responding
    <3>3. CASE SendEvent \/ ParserEnds
      BY <3>3 DEF SendEvent, ParserEnds, webhook, converting, responding
    <3> QED BY <1>3, <3>1, <3>2, <3>3 DEF ParserStep
  <2> QED BY <2>1
<1>4. CASE ConverterStep
  BY <1>4 DEF ConverterStep, ReceiveEvent, SendChunk, ConverterEnds, webhook, parsing, responding
<1>5. CASE PostPlaceholder \/ GivesUp \/ OpenStream \/ ReceiveChunk
  BY <1>5 DEF PostPlaceholder, GivesUp, OpenStream, ReceiveChunk, webhook, parsing, converting
<1>6. CASE Tick \/ FinalUpdate \/ NoFinalUpdate
  BY <1>6 DEF Tick, FinalUpdate, NoFinalUpdate, StreamIsEnded, StartUpdate, webhook, parsing,
     converting
<1>7. ASSUME NEW outcome \in {"ok", "refused", "lost"}, EndUpdate(outcome)  PROVE PhaseInv'
  BY <1>7 DEF EndUpdate, webhook, parsing, converting
<1> QED
  BY <1>1, <1>2, <1>3, <1>4, <1>5, <1>6, <1>7 DEF Next, ResponderStep

\* Every step of the pipeline keeps the order, and only ParseItem adds to
\* what was parsed.
LEMMA PipeStep ==
  ASSUME PipeInv, Next
  PROVE  /\ BodyInv' /\ FlowInv'
         /\ Count' = Count + IF ParseItem THEN 1 ELSE 0
<1> USE DEF PipeInv
<1>0. Count \in Nat
  BY DEF BodyInv
<1>1. ASSUME NEW line \in Lines, WriteLine(line)
      PROVE  BodyInv' /\ FlowInv' /\ Count' = Count /\ ~ParseItem
  <2>1. BodyInv' /\ Count' = Count
    BY <1>1, BodyGrows
  <2>2. UNCHANGED <<parser, event, events, converter, chunk, chunks, buffer>>
    BY <1>1 DEF WriteLine, parsing, converting, responding
  <2>3. FlowInv'
    BY <2>1, <2>2, FlowIsLeft DEF Sending
  <2>4. ~ParseItem
    BY <2>1, <1>0, BodyIsRead DEF ParseItem
  <2> QED BY <2>1, <2>3, <2>4
<1>2. CASE SkipLine \/ BeginMessage \/ EndMessage
  <2>1. /\ body # <<>> /\ body' = Tail(body) /\ items' = items /\ Head(body).type # "item"
        /\ parser = "scan" /\ (parser' = "scan" \/ event'.type = "message")
        /\ UNCHANGED <<events, converter, chunk, chunks, buffer>>
    BY <1>2 DEF SkipLine, BeginMessage, EndMessage, Message, parsing, converting, responding
  <2>2. BodyInv' /\ Count' = Count
    BY <1>0, <2>1, BodyIsRead
  <2>3. Sending = 0 /\ Sending' = 0
    BY <2>1 DEF Sending
  <2>4. ~ParseItem
    BY <2>1 DEF ParseItem
  <2> QED BY <1>0, <2>1, <2>2, <2>3, <2>4, FlowIsLeft
<1>3. CASE ParseItem
  <2>1. body # <<>> /\ body' = Tail(body) /\ items' = items /\ Head(body).type = "item"
    BY <1>3 DEF ParseItem
  <2> QED BY <1>3, <2>1, BodyIsRead, FlowParseItem
<1>4. ASSUME UNCHANGED <<body, items>>, FlowInv' \/ (/\ UNCHANGED <<events, converter, chunk, chunks, buffer>>
                                                     /\ Sending' = Sending /\ event' = event)
      PROVE  BodyInv' /\ FlowInv' /\ Count' = Count + IF ParseItem THEN 1 ELSE 0
  <2>1. BodyInv' /\ Count' = Count
    BY <1>4, BodyIsLeft
  <2>2. FlowInv'
    BY <1>4, <2>1, FlowIsLeft
  <2>3. ~ParseItem
    BY <2>1, <1>0, BodyIsRead DEF ParseItem
  <2> QED BY <1>0, <2>1, <2>2, <2>3
<1>5. CASE SendEvent
  BY <1>4, <1>5, FlowSendEvent DEF SendEvent, webhook
<1>6. CASE ParserEnds \/ EndBody
  BY <1>4, <1>6 DEF ParserEnds, EndBody, Sending, webhook, parsing, converting, responding
<1>7. CASE ReceiveEvent
  BY <1>4, <1>7, FlowReceiveEvent DEF ReceiveEvent, webhook
<1>8. CASE SendChunk
  BY <1>4, <1>8, FlowSendChunk DEF SendChunk, webhook
<1>9. CASE ConverterEnds
  <2>1. FlowInv'
    <3>1. Count' = Count /\ Sent' = Sent /\ Sending' = Sending /\ Converting' = Converting
      BY <1>9 DEF ConverterEnds, Count, Sent, Sending, Converting, webhook, parsing, responding
    <3>2. UNCHANGED <<event, events, chunk, chunks, buffer>> /\ converter' # "send"
      BY <1>9 DEF ConverterEnds, parsing, responding
    <3> QED BY <3>1, <3>2 DEF FlowInv, ChunksAreNext, EventsAreNext
  <2> QED BY <1>4, <1>9, <2>1 DEF ConverterEnds, webhook
<1>10. CASE ReceiveChunk
  BY <1>4, <1>10, FlowReceiveChunk DEF ReceiveChunk, webhook
<1>11. CASE OpenStream
  <2>1. FlowInv'
    <3>1. parser = "off" /\ converter = "off"
      BY <1>11 DEF OpenStream, PhaseInv
    <3>2. Count' = Count /\ Sent' = Sent /\ Sending' = Sending /\ Converting' = Converting
      BY <1>11, <3>1 DEF OpenStream, Count, Sent, Sending, Converting, webhook
    <3>3. UNCHANGED <<event, events, chunk, chunks, buffer>> /\ converter' # "send"
      BY <1>11 DEF OpenStream
    <3> QED BY <3>2, <3>3 DEF FlowInv, ChunksAreNext, EventsAreNext
  <2> QED BY <1>4, <1>11, <2>1 DEF OpenStream, webhook
<1>12. CASE PostPlaceholder \/ GivesUp
  BY <1>4, <1>12 DEF PostPlaceholder, GivesUp, Sending, webhook, parsing, converting
<1>13. CASE Tick \/ FinalUpdate \/ NoFinalUpdate
  BY <1>4, <1>13 DEF Tick, FinalUpdate, NoFinalUpdate, StartUpdate, Sending, webhook, parsing,
     converting
<1>14. ASSUME NEW outcome \in {"ok", "refused", "lost"}, EndUpdate(outcome)
       PROVE  BodyInv' /\ FlowInv' /\ Count' = Count + IF ParseItem THEN 1 ELSE 0
  BY <1>4, <1>14 DEF EndUpdate, Sending, webhook, parsing, converting
<1> QED
  BY <1>0, <1>1, <1>2, <1>3, <1>5, <1>6, <1>7, <1>8, <1>9, <1>10, <1>11, <1>12, <1>13, <1>14
  DEF Next, ParserStep, ConverterStep, ResponderStep

LEMMA PipeInvariant == Spec => [](IInv /\ PipeInv)
<1>1. Init => IInv /\ PipeInv
  BY Initially, PipeInit
<1>2. ASSUME IInv, PipeInv, [Next]_vars PROVE PipeInv'
  <2>1. CASE Next
    BY <1>2, <2>1, WaySteps, PipeStep, PhaseStep DEF PipeInv
  <2>2. CASE UNCHANGED vars
    <3>1. UNCHANGED <<webhook, parsing, converting, buffer, responder>>
      BY <2>2 DEF vars, responding
    <3>2. OnTheWay'
      BY <1>2, <2>2, Step DEF IInv
    <3>3. BodyInv' /\ Count' = Count
      BY <1>2, <3>1, BodyIsLeft DEF PipeInv, webhook
    <3>4. FlowInv'
      BY <1>2, <3>1, <3>3, FlowIsLeft DEF PipeInv, Sending, parsing, converting
    <3>5. PhaseInv'
      BY <1>2, <3>1 DEF PipeInv, PhaseInv, webhook, parsing, converting
    <3> QED BY <3>2, <3>3, <3>4, <3>5 DEF PipeInv
  <2> QED BY <1>2, <2>1, <2>2
<1>3. IInv /\ PipeInv /\ [Next]_vars => (IInv /\ PipeInv)'
  BY <1>2, Step
<1> QED BY <1>1, <1>3, PTL DEF Spec

-----------------------------------------------------------------------------
(* The refinement.                                                         *)

\* What was parsed is that many of the webhook's texts.
LEMMA ParsedTexts ==
  ASSUME PipeInv
  PROVE  /\ Count \in Nat /\ Count <= Len(Texts)
         /\ Parsed = SubSeq(Texts, 1, Count) /\ Parsed \in Seq(STRING)
         /\ Len(Parsed) = Count /\ \A i \in 1..Count : Parsed[i] = Texts[i]
<1>1. ItemsLeft = {j \in 1..Len(body) : body[j].type = "item"}
  BY CountsAreNat DEF PipeInv, ItemsLeft
<1>2. Parsed = SubSeq(Texts, 1, Count)
  BY <1>1 DEF Parsed, Count, Rank
<1>3. Rank(body, "item", Len(body)) \in Nat /\ items \in 0..Len(Texts) /\ Count \in Nat
  BY CountsAreNat, RankIsNat DEF PipeInv, BodyInv
<1>4. Count <= Len(Texts)
  BY <1>3 DEF Count
<1> HIDE DEF Count
<1> QED BY <1>2, <1>3, <1>4

LEMMA ParsedNow == PipeInv => Parsed = SubSeq(Texts, 1, Count) /\ Count \in Nat /\ Count <= Len(Texts)
  BY ParsedTexts

LEMMA ParsedNext ==
  (PipeInv => Parsed = SubSeq(Texts, 1, Count) /\ Count \in Nat /\ Count <= Len(Texts))'
  BY ParsedNow, PTL

LEMMA StreamPut ==
  ASSUME PipeInv, PipeInv', ParseItem, Count' = Count + 1
  PROVE  Pipeline!StreamNext
<1> DEFINE word == Texts[Count + 1]
<1>1. /\ Count \in Nat /\ Count' \in Nat /\ Count' <= Len(Texts)
      /\ Parsed = SubSeq(Texts, 1, Count) /\ Parsed' = SubSeq(Texts, 1, Count + 1)
  BY ParsedNow, ParsedNext
<1>2. Parsed' = Append(Parsed, word)
  <2> DEFINE c == Count
  <2>1. c \in Nat /\ c + 1 <= Len(Texts)
    BY <1>1
  <2> HIDE DEF c
  <2>2. SubSeq(Texts, 1, c + 1) = Append(SubSeq(Texts, 1, c), Texts[c + 1])
    BY <2>1
  <2> QED BY <1>1, <2>2 DEF c
<1>3. word \in {Texts[i] : i \in DOMAIN Texts}
  BY <1>1
<1>4. responder \notin {"finishing", "done"} /\ UNCHANGED <<buffer, responder>>
  BY DEF ParseItem, PipeInv, PhaseInv, responding
<1>5. Pipeline!Put(word)
  BY <1>2, <1>4 DEF Pipeline!Put
<1> QED BY <1>3, <1>5 DEF Pipeline!StreamNext

LEMMA StreamTake ==
  ASSUME PipeInv, PipeInv', ReceiveChunk, Count' = Count
  PROVE  Pipeline!StreamNext
<1>0. Parsed' = Parsed
  BY ParsedNow, ParsedNext
<1>1. /\ Count \in Nat /\ Parsed = SubSeq(Texts, 1, Count) /\ Len(Parsed) = Count
      /\ \A i \in 1..Count : Parsed[i] = Texts[i]
  BY ParsedTexts
<1>2. Head(chunks) = Texts[Len(buffer) + 1] /\ Len(buffer) < Count
  BY FlowReceiveChunk
<1>3. Len(buffer) \in Nat
  BY CountsAreNat DEF PipeInv
<1>4. Parsed[Len(buffer) + 1] = Texts[Len(buffer) + 1]
  BY <1>1, <1>2, <1>3
<1>5. buffer' = Append(buffer, Parsed[Len(buffer) + 1]) /\ responder' = responder
  BY <1>2, <1>4 DEF ReceiveChunk
<1>6. Pipeline!Take
  BY <1>0, <1>1, <1>2, <1>5 DEF Pipeline!Take
<1> QED BY <1>6 DEF Pipeline!StreamNext

\* At the end of the stream nothing is left inside.
LEMMA AllCameOut ==
  ASSUME PipeInv, parser = "off" \/ (converter = "done" /\ chunks = <<>>)
  PROVE  buffer = Parsed
<1>1. /\ Len(buffer) \in Nat /\ Len(chunks) \in Nat /\ Sent \in Nat /\ Converting \in {0, 1}
      /\ Sending \in {0, 1} /\ DOMAIN buffer = 1..Len(buffer)
  BY CountsAreNat DEF PipeInv
<1>2. Count = Len(buffer) + Len(chunks) + Converting + Sent + Sending
  BY DEF PipeInv, FlowInv
<1>3. Count = Len(buffer)
  <2>0. Converting \in Nat /\ Sending \in Nat
    BY <1>1
  <2>1. CASE parser = "off"
    <3>1. items = 0 /\ Rank(body, "item", Len(body)) \in Nat /\ Count \in Nat
      BY <2>1, CountsAreNat, RankIsNat DEF PipeInv, PhaseInv, BodyInv
    <3>2. Count = 0
      BY <3>1 DEF Count
    <3>3. \A a, b, c, d, e \in Nat : a + b + c + d + e = 0 => a = 0
      OBVIOUS
    <3>4. Len(buffer) + Len(chunks) + Converting + Sent + Sending = 0
      BY <1>2, <3>2
    <3>5. Len(buffer) \in Nat /\ Len(chunks) \in Nat /\ Converting \in Nat /\ Sent \in Nat /\ Sending \in Nat
      BY <1>1, <2>0
    <3>6. Len(buffer) = 0
      BY <3>3, <3>4, <3>5
    <3> QED BY <3>2, <3>6
  <2>2. CASE converter = "done" /\ chunks = <<>>
    <3>1. parser = "done" /\ events = <<>>
      BY <2>2 DEF PipeInv, PhaseInv
    <3>2. Len(chunks) = 0 /\ Sent = 0 /\ Converting = 0 /\ Sending = 0
      BY <2>2, <3>1, RankOfNone DEF Sent, Converting, Sending
    <3> QED BY <1>1, <1>2, <3>2
  <2> QED BY <2>1, <2>2
<1>4. /\ Parsed \in Seq(STRING) /\ Len(Parsed) = Count
      /\ \A i \in 1..Count : Parsed[i] = Texts[i]
  BY ParsedTexts
<1>5. \A i \in 1..Len(buffer) : buffer[i] = Texts[i]
  BY <1>1 DEF PipeInv, FlowInv
<1>6. buffer \in Seq(Words)
  BY DEF PipeInv, OnTheWay
<1>7. \A i \in 1..Len(buffer) : buffer[i] = Parsed[i]
  BY <1>3, <1>4, <1>5
<1> HIDE DEF Parsed
<1> QED BY <1>3, <1>4, <1>6, <1>7

LEMMA StreamEnd ==
  ASSUME PipeInv, PipeInv', Count' = Count, UNCHANGED buffer,
         parser = "off" \/ (converter = "done" /\ chunks = <<>>),
         responder \notin {"finishing", "done"}, responder' \in {"finishing", "done"}
  PROVE  Pipeline!StreamNext
<1>1. buffer = Parsed
  BY AllCameOut
<1>2. Parsed' = Parsed
  BY ParsedNow, ParsedNext
<1>3. Pipeline!End
  BY <1>1, <1>2 DEF Pipeline!End
<1> QED BY <1>3 DEF Pipeline!StreamNext

LEMMA StreamStutters ==
  ASSUME PipeInv, PipeInv', Count' = Count, UNCHANGED buffer,
         (responder \in {"finishing", "done"})' = (responder \in {"finishing", "done"})
  PROVE  UNCHANGED Pipeline!streamVars
<1>1. Parsed' = Parsed
  BY ParsedNow, ParsedNext
<1> QED BY <1>1 DEF Pipeline!streamVars

LEMMA StreamStep ==
  ASSUME PipeInv, PipeInv', [Next]_vars
  PROVE  [Pipeline!StreamNext]_(Pipeline!streamVars)
<1> DEFINE Ended == responder \in {"finishing", "done"}
<1>1. CASE ParseItem
  <2>1. Count' = Count + 1
    BY <1>1, PipeStep DEF Next, ParserStep
  <2> QED BY <1>1, <2>1, StreamPut
<1>2. CASE ~ParseItem
  <2>1. Count' = Count
    <3>1. CASE Next
      BY <1>2, <3>1, PipeStep, CountsAreNat DEF PipeInv, BodyInv
    <3>2. CASE UNCHANGED vars
      BY <3>2 DEF vars, webhook, Count
    <3> QED BY <3>1, <3>2
  <2>2. CASE ReceiveChunk
    BY <2>1, <2>2, StreamTake
  <2>3. CASE FinalUpdate \/ NoFinalUpdate
    <3>1. /\ buffer' = buffer /\ responder = "collect" /\ responder' \in {"finishing", "done"}
          /\ converter = "done" /\ chunks = <<>>
      BY <2>3 DEF FinalUpdate, NoFinalUpdate, StreamIsEnded, StartUpdate
    <3> QED BY <2>1, <3>1, StreamEnd
  <2>4. CASE GivesUp
    <3>1. /\ buffer' = buffer /\ responder \in {"post", "open"} /\ responder' = "done"
          /\ parser = "off"
      BY <2>4 DEF GivesUp, PipeInv, PhaseInv
    <3> QED BY <2>1, <3>1, StreamEnd
  <2>5. ASSUME UNCHANGED buffer, Ended' = Ended
        PROVE  [Pipeline!StreamNext]_(Pipeline!streamVars)
    BY <2>1, <2>5, StreamStutters
  <2>6. CASE PostPlaceholder \/ OpenStream \/ Tick
    BY <2>5, <2>6 DEF PostPlaceholder, OpenStream, Tick, StartUpdate
  <2>7. ASSUME NEW outcome \in {"ok", "refused", "lost"}, EndUpdate(outcome)
        PROVE  [Pipeline!StreamNext]_(Pipeline!streamVars)
    BY <2>5, <2>7 DEF EndUpdate
  <2>8. ASSUME UNCHANGED responding
        PROVE  [Pipeline!StreamNext]_(Pipeline!streamVars)
    BY <2>5, <2>8 DEF responding
  <2>9. CASE EndBody \/ (\E line \in Lines : WriteLine(line)) \/ ParserStep \/ ConverterStep
    BY <2>8, <2>9
    DEF EndBody, WriteLine, ParserStep, SkipLine, BeginMessage, ParseItem, EndMessage, SendEvent,
        ParserEnds, ConverterStep, ReceiveEvent, SendChunk, ConverterEnds
  <2>10. CASE UNCHANGED vars
    BY <2>8, <2>10 DEF vars
  <2> QED
    BY <2>2, <2>3, <2>4, <2>6, <2>7, <2>9, <2>10 DEF Next, ResponderStep
<1> QED BY <1>1, <1>2

(***************************************************************************)
(* The parser, the converter and their two channels, of whatever capacity, *)
(* are one ordered stream from the webhook's body to the responder: every  *)
(* text that was parsed comes out once and in order, and the reply is      *)
(* finished only when nothing is left inside.                              *)
(***************************************************************************)
THEOREM PipelineIsAStream == Spec => PipelineSpec
<1>1. Init => Pipeline!StreamInit
  <2> SUFFICES ASSUME Init PROVE Pipeline!StreamInit
    OBVIOUS
  <2>1. buffer = <<>> /\ responder = "post" /\ parser = "off"
    BY DEF Init
  <2>2. buffer = Parsed
    BY <2>1, PipeInit, AllCameOut
  <2> QED BY <2>1, <2>2 DEF Pipeline!StreamInit
<1>2. PipeInv /\ PipeInv' /\ [Next]_vars => [Pipeline!StreamNext]_(Pipeline!streamVars)
  BY StreamStep
<1> QED BY <1>1, <1>2, PipeInvariant, PTL DEF Spec, PipelineSpec, Pipeline!StreamSpec
=============================================================================

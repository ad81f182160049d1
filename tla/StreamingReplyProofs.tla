------------------------ MODULE StreamingReplyProofs ------------------------
(* Theorems about the event reducer, for any parts, messages, bounds and    *)
(* capacity, and for the reply that reads its events.                       *)
EXTENDS StreamingReply, FiniteSetTheorems, SequenceTheorems, TLAPS

\* The events a reader may see.
Harmless == {e \in RenderEvents : e.type # "done" => ForTheReader(e.part)}

\* Only texts are taken for texts, and only assistants for assistants.
RolesAndTypesAreRight ==
    /\ textTyped \subseteq TextParts
    /\ assistantMsgIDs \subseteq Assistants

EchoInv ==
    /\ TypeOK
    /\ RolesAndTypesAreRight
    /\ todo \in Seq(Harmless)
    /\ events \in Seq(Harmless)

-----------------------------------------------------------------------------
(* Texts and the events made of them.                                      *)

LEMMA TextType ==
  ASSUME NEW p \in Parts, NEW k \in Nat
  PROVE Text(p, k) \in Seq(Token)
  BY DEF Text, Token

LEMMA FunctionIsSeq ==
  ASSUME NEW S, NEW n \in Nat, NEW f \in [1..n -> S]
  PROVE f \in Seq(S)
  OBVIOUS

LEMMA TextEventsHarmless ==
  ASSUME NEW p \in TextParts, MessageOf[p] \in Assistants, NEW text \in Seq(Token)
  PROVE Set(p, text) \in Harmless /\ Delta(p, text) \in Harmless
  BY DEF Set, Delta, Harmless, RenderEvents, ForTheReader, Parts, Status

LEMMA ToolEventHarmless ==
  ASSUME NEW p \in ToolParts, MessageOf[p] \in Assistants, NEW status \in Status
  PROVE Tool(p, status) \in Harmless
  BY DEF Tool, Harmless, RenderEvents, ForTheReader, Parts

LEMMA DoneHarmless == Done \in Harmless
  BY DEF Done, Harmless, RenderEvents

LEMMA SuffixType ==
  ASSUME NEW s \in Seq(Token), NEW i \in Nat \ {0}
  PROVE SubSeq(s, i, Len(s)) \in Seq(Token)
  OBVIOUS

LEMMA DifferenceHarmless ==
  ASSUME NEW p \in TextParts, MessageOf[p] \in Assistants,
         NEW prev \in Seq(Token), NEW next \in Seq(Token)
  PROVE Difference(p, prev, next) \in Seq(Harmless)
<1> DEFINE suffix == SubSeq(next, Len(prev) + 1, Len(next))
<1>1. Len(prev) + 1 \in Nat \ {0}
  OBVIOUS
<1>2. suffix \in Seq(Token)
  BY <1>1, SuffixType
<1>3. Set(p, next) \in Harmless /\ Delta(p, suffix) \in Harmless
  BY <1>2, TextEventsHarmless
<1>4. <<>> \in Seq(Harmless) /\ <<Set(p, next)>> \in Seq(Harmless)
       /\ <<Delta(p, suffix)>> \in Seq(Harmless)
  BY <1>3
<1> QED
  BY <1>4 DEF Difference

\* What Emit leaves behind.
LEMMA EmitKeepsTypes ==
  ASSUME NEW evs \in Seq(Harmless), sent \in [Parts -> Seq(Token)], Emit(evs)
  PROVE todo' \in Seq(Harmless) /\ sent' \in [Parts -> Seq(Token)]
<1> DEFINE sets(p) == {e \in ToSet(evs) : e.type = "text_set" /\ e.part = p}
           deltas(p) == {e \in ToSet(evs) : e.type = "text_delta" /\ e.part = p}
<1>1. \A e \in ToSet(evs) : e \in RenderEvents
  BY DEF ToSet, Harmless
<1>2. \A e \in ToSet(evs) : e.type \in {"text_set", "text_delta"} => e.text \in Seq(Token)
  BY <1>1 DEF RenderEvents, Done
<1>3. ASSUME NEW p \in Parts
      PROVE  (IF sets(p) # {} THEN (CHOOSE e \in sets(p) : TRUE).text
              ELSE IF deltas(p) # {} THEN sent[p] \o (CHOOSE e \in deltas(p) : TRUE).text
              ELSE sent[p]) \in Seq(Token)
  <2>1. CASE sets(p) # {}
    <3>1. (CHOOSE e \in sets(p) : TRUE) \in sets(p)
      BY <2>1
    <3> QED
      BY <2>1, <3>1, <1>2
  <2>2. CASE sets(p) = {} /\ deltas(p) # {}
    <3>1. (CHOOSE e \in deltas(p) : TRUE) \in deltas(p)
      BY <2>2
    <3>2. (CHOOSE e \in deltas(p) : TRUE).text \in Seq(Token)
      BY <3>1, <1>2
    <3>3. sent[p] \o (CHOOSE e \in deltas(p) : TRUE).text \in Seq(Token)
      BY <3>2, ConcatProperties
    <3> QED
      BY <2>2, <3>3
  <2>3. CASE sets(p) = {} /\ deltas(p) = {}
    BY <2>3
  <2> QED
    BY <2>1, <2>2, <2>3
<1>4. sent' = [p \in Parts |->
         IF sets(p) # {} THEN (CHOOSE e \in sets(p) : TRUE).text
            ELSE IF deltas(p) # {} THEN sent[p] \o (CHOOSE e \in deltas(p) : TRUE).text
            ELSE sent[p]]
  BY DEF Emit
<1>5. sent' \in [Parts -> Seq(Token)]
  BY <1>3, <1>4
<1> QED
  BY <1>5 DEF Emit

-----------------------------------------------------------------------------
(* EchoInv is inductive.                                                   *)

LEMMA EchoInit == ReducerInit => EchoInv
<1> SUFFICES ASSUME ReducerInit PROVE EchoInv
  OBVIOUS
<1>1. <<>> \in Seq(Harmless) /\ <<>> \in Seq(Token) /\ <<>> \in Seq(RenderEvents)
  OBVIOUS
<1> QED
  BY <1>1, PartsAssumption DEF ReducerInit, EchoInv, TypeOK, RolesAndTypesAreRight, Status

\* Harmless events have the right type.
LEMMA HarmlessType == ASSUME NEW s \in Seq(Harmless) PROVE s \in Seq(RenderEvents)
<1>1. Harmless \subseteq RenderEvents
  BY DEF Harmless
<1> QED
  BY <1>1, SeqMonotonic

LEMMA MessageUpdatedKeepsEchoInv ==
  ASSUME EchoInv, NEW m \in Messages, MessageUpdated(m)
  PROVE EchoInv'
<1> DEFINE texts == HeldBackTexts(m)
           tools0 == {p \in ToolParts : MessageOf[p] = m /\ pendingToolParts[p] # "none"}
           textEvents(ps) == [i \in DOMAIN ps |-> Set(ps[i], pendingParts[ps[i]])]
           toolEvents(ts) == [i \in DOMAIN ts |-> Tool(ts[i], pendingToolParts[ts[i]])]
<1>1. m \in Assistants
  BY DEF MessageUpdated
<1>2. IsFiniteSet(texts) /\ IsFiniteSet(tools0)
  BY PartsAssumption, FS_Subset, texts \subseteq Parts, tools0 \subseteq Parts
  DEF HeldBackTexts, Parts
<1>3. Cardinality(texts) \in Nat /\ Cardinality(tools0) \in Nat
  BY <1>2, FS_CardinalityType
<1>4. ASSUME NEW ps \in SetToSeqs(texts) PROVE textEvents(ps) \in Seq(Harmless)
  <2>1. ps \in [1..Cardinality(texts) -> texts]
    BY DEF SetToSeqs
  <2>2. \A p \in texts : Set(p, pendingParts[p]) \in Harmless
    BY <1>1, TextEventsHarmless DEF EchoInv, TypeOK, HeldBackTexts, Parts
  <2>3. DOMAIN ps = 1..Cardinality(texts) /\ \A i \in 1..Cardinality(texts) : ps[i] \in texts
    BY <2>1
  <2>4. textEvents(ps) \in [1..Cardinality(texts) -> Harmless]
    BY <2>2, <2>3
  <2> QED
    BY <2>4, <1>3, FunctionIsSeq
<1>5. ASSUME NEW ts \in SetToSeqs(tools0) PROVE toolEvents(ts) \in Seq(Harmless)
  <2>1. ts \in [1..Cardinality(tools0) -> tools0]
    BY DEF SetToSeqs
  <2>2. \A p \in tools0 : Tool(p, pendingToolParts[p]) \in Harmless
    BY <1>1, ToolEventHarmless DEF EchoInv, TypeOK
  <2>3. DOMAIN ts = 1..Cardinality(tools0) /\ \A i \in 1..Cardinality(tools0) : ts[i] \in tools0
    BY <2>1
  <2>4. toolEvents(ts) \in [1..Cardinality(tools0) -> Harmless]
    BY <2>2, <2>3
  <2> QED
    BY <2>4, <1>3, FunctionIsSeq
<1>6. todo' \in Seq(Harmless) /\ sent' \in [Parts -> Seq(Token)]
  <2>1. PICK ps \in SetToSeqs(texts), ts \in SetToSeqs(tools0) :
          Emit(textEvents(ps) \o toolEvents(ts))
    BY DEF MessageUpdated
  <2>2. textEvents(ps) \o toolEvents(ts) \in Seq(Harmless)
    BY <1>4, <1>5, ConcatProperties
  <2> QED
    BY <2>1, <2>2, EmitKeepsTypes DEF EchoInv, TypeOK
<1>7. /\ partText' \in [Parts -> Seq(Token)] /\ pendingParts' \in [Parts -> Seq(Token)]
      /\ pendingToolParts' \in [ToolParts -> Status]
  BY DEF MessageUpdated, EchoInv, TypeOK, Status
<1> QED
  BY <1>1, <1>6, <1>7, HarmlessType
  DEF MessageUpdated, EchoInv, TypeOK, RolesAndTypesAreRight

LEMMA TextUpdatedKeepsEchoInv ==
  ASSUME EchoInv, NEW p \in Parts, TextUpdated(p)
  PROVE EchoInv'
<1>1. p \in TextParts
  BY DEF TextUpdated
<1>2. PICK k \in written[p]..MaxText[p] :
        /\ written' = [written EXCEPT ![p] = k]
        /\ IF MessageOf[p] \in assistantMsgIDs
           THEN /\ partText' = [partText EXCEPT ![p] = Text(p, k)]
                /\ Emit(Difference(p, partText[p], Text(p, k)))
                /\ UNCHANGED pendingParts
           ELSE /\ pendingParts' = [pendingParts EXCEPT ![p] = Text(p, k)]
                /\ Quiet
                /\ UNCHANGED partText
  BY DEF TextUpdated
<1>3. k \in Nat
  BY PartsAssumption DEF EchoInv, TypeOK
<1>4. Text(p, k) \in Seq(Token)
  BY <1>3, TextType
<1>5. written' \in [Parts -> Nat]
  BY <1>2, <1>3 DEF EchoInv, TypeOK
<1>6. CASE MessageOf[p] \in assistantMsgIDs
  <2>1. Difference(p, partText[p], Text(p, k)) \in Seq(Harmless)
    BY <1>1, <1>4, <1>6, DifferenceHarmless DEF EchoInv, TypeOK, RolesAndTypesAreRight
  <2>2. todo' \in Seq(Harmless) /\ sent' \in [Parts -> Seq(Token)]
    BY <1>2, <1>6, <2>1, EmitKeepsTypes DEF EchoInv, TypeOK
  <2>3. partText' \in [Parts -> Seq(Token)] /\ pendingParts' \in [Parts -> Seq(Token)]
    BY <1>2, <1>4, <1>6 DEF EchoInv, TypeOK
  <2> QED
    BY <1>1, <1>5, <2>2, <2>3, HarmlessType
    DEF TextUpdated, EchoInv, TypeOK, RolesAndTypesAreRight
<1>7. CASE MessageOf[p] \notin assistantMsgIDs
  <2>1. partText' \in [Parts -> Seq(Token)] /\ pendingParts' \in [Parts -> Seq(Token)]
    BY <1>2, <1>4, <1>7 DEF EchoInv, TypeOK
  <2>2. UNCHANGED <<todo, sent>>
    BY <1>2, <1>7 DEF Quiet
  <2> QED
    BY <1>1, <1>5, <2>1, <2>2
    DEF TextUpdated, EchoInv, TypeOK, RolesAndTypesAreRight
<1> QED
  BY <1>6, <1>7

LEMMA TextDeltaKeepsEchoInv ==
  ASSUME EchoInv, NEW p \in Parts, TextDelta(p)
  PROVE EchoInv'
<1> DEFINE token == << <<p, written[p] + 1>> >>
<1>1. token \in Seq(Token)
  BY DEF Token, EchoInv, TypeOK
<1>2. written' \in [Parts -> Nat]
  BY DEF TextDelta, EchoInv, TypeOK
<1>3. textTyped' \subseteq TextParts
  BY DEF TextDelta, EchoInv, TypeOK, RolesAndTypesAreRight
<1>4. CASE p \notin textTyped'
  <2>1. UNCHANGED <<todo, sent, partText, pendingParts>>
    BY <1>4 DEF TextDelta, Quiet
  <2> QED
    BY <1>2, <1>3, <2>1, PartsAssumption
    DEF TextDelta, EchoInv, TypeOK, RolesAndTypesAreRight, Parts
<1>5. CASE p \in textTyped' /\ MessageOf[p] \notin assistantMsgIDs
  <2>1. /\ pendingParts' = [pendingParts EXCEPT ![p] = @ \o token]
        /\ UNCHANGED <<todo, sent, partText>>
    BY <1>5 DEF TextDelta, Quiet
  <2>2. pendingParts[p] \o token \in Seq(Token)
    BY <1>1, ConcatProperties DEF EchoInv, TypeOK
  <2>3. pendingParts' \in [Parts -> Seq(Token)]
    BY <2>1, <2>2 DEF EchoInv, TypeOK
  <2> QED
    BY <1>2, <1>3, <2>1, <2>3, PartsAssumption
    DEF TextDelta, EchoInv, TypeOK, RolesAndTypesAreRight, Parts
<1>6. CASE p \in textTyped' /\ MessageOf[p] \in assistantMsgIDs
  <2>1. /\ partText' = [partText EXCEPT ![p] = @ \o token]
        /\ Emit(<<Delta(p, token)>>)
        /\ UNCHANGED pendingParts
    BY <1>6 DEF TextDelta
  <2>2. partText[p] \o token \in Seq(Token)
    BY <1>1, ConcatProperties DEF EchoInv, TypeOK
  <2>3. partText' \in [Parts -> Seq(Token)]
    BY <2>1, <2>2 DEF EchoInv, TypeOK
  <2>4. Delta(p, token) \in Harmless
    BY <1>1, <1>3, <1>6, TextEventsHarmless DEF EchoInv, RolesAndTypesAreRight
  <2>5. <<Delta(p, token)>> \in Seq(Harmless)
    BY <2>4
  <2>6. todo' \in Seq(Harmless) /\ sent' \in [Parts -> Seq(Token)]
    BY <2>1, <2>5, EmitKeepsTypes DEF EchoInv, TypeOK
  <2> QED
    BY <1>2, <1>3, <2>1, <2>3, <2>6, HarmlessType
    DEF TextDelta, EchoInv, TypeOK, RolesAndTypesAreRight
<1> QED
  BY <1>4, <1>5, <1>6

LEMMA ToolUpdatedKeepsEchoInv ==
  ASSUME EchoInv, NEW p \in Parts, ToolUpdated(p)
  PROVE EchoInv'
<1>1. p \in ToolParts
  BY DEF ToolUpdated
<1>2. PICK status \in After(toolStatus[p]) :
        /\ toolStatus' = [toolStatus EXCEPT ![p] = status]
        /\ IF MessageOf[p] \in assistantMsgIDs
           THEN Emit(<<Tool(p, status)>>) /\ UNCHANGED pendingToolParts
           ELSE /\ pendingToolParts' = [pendingToolParts EXCEPT ![p] = status]
                /\ Quiet
  BY DEF ToolUpdated
<1>3. status \in Status
  BY DEF After, Status
<1>4. toolStatus' \in [ToolParts -> Status]
  BY <1>2, <1>3 DEF EchoInv, TypeOK
<1>5. CASE MessageOf[p] \in assistantMsgIDs
  <2>1. Tool(p, status) \in Harmless
    BY <1>1, <1>3, <1>5, ToolEventHarmless DEF EchoInv, RolesAndTypesAreRight
  <2>2. <<Tool(p, status)>> \in Seq(Harmless)
    BY <2>1
  <2>3. todo' \in Seq(Harmless) /\ sent' \in [Parts -> Seq(Token)]
    BY <1>2, <1>5, <2>2, EmitKeepsTypes DEF EchoInv, TypeOK
  <2> QED
    BY <1>2, <1>4, <1>5, <2>3, HarmlessType
    DEF ToolUpdated, EchoInv, TypeOK, RolesAndTypesAreRight
<1>6. CASE MessageOf[p] \notin assistantMsgIDs
  BY <1>2, <1>3, <1>4, <1>6
  DEF ToolUpdated, Quiet, EchoInv, TypeOK, RolesAndTypesAreRight
<1> QED
  BY <1>5, <1>6

LEMMA SessionIdleKeepsEchoInv == EchoInv /\ SessionIdle => EchoInv'
<1> SUFFICES ASSUME EchoInv, SessionIdle PROVE EchoInv'
  OBVIOUS
<1>1. <<Done>> \in Seq(Harmless)
  BY DoneHarmless
<1>2. todo' \in Seq(Harmless) /\ sent' \in [Parts -> Seq(Token)]
  BY <1>1, EmitKeepsTypes DEF SessionIdle, EchoInv, TypeOK
<1> QED
  BY <1>2, HarmlessType
  DEF SessionIdle, streamState, EchoInv, TypeOK, RolesAndTypesAreRight

\* The channel: what is sent was to be sent, what is received was sent.
LEMMA ChannelKeepsEchoInv ==
  EchoInv /\ (Send \/ CloseChannel \/ StreamStops \/ Receive) => EchoInv'
<1> SUFFICES ASSUME EchoInv PROVE Send \/ CloseChannel \/ StreamStops \/ Receive => EchoInv'
  OBVIOUS
<1>1. ASSUME Send PROVE EchoInv'
  <2>1. Head(todo) \in Harmless /\ Tail(todo) \in Seq(Harmless)
    BY <1>1, HeadTailProperties DEF Send, EchoInv
  <2>2. events' \in Seq(Harmless) /\ todo' \in Seq(Harmless)
    BY <1>1, <2>1 DEF Send, EchoInv
  <2> QED
    BY <1>1, <2>2, HarmlessType
    DEF Send, server, streamState, EchoInv, TypeOK, RolesAndTypesAreRight
<1>2. ASSUME CloseChannel PROVE EchoInv'
  BY <1>2 DEF CloseChannel, server, streamState, EchoInv, TypeOK, RolesAndTypesAreRight
<1>3. ASSUME StreamStops PROVE EchoInv'
  BY <1>3, HarmlessType
  DEF StreamStops, server, streamState, EchoInv, TypeOK, RolesAndTypesAreRight
<1>4. ASSUME Receive PROVE EchoInv'
  <2>1. events' \in Seq(Harmless)
    BY <1>4, HeadTailProperties DEF Receive, EchoInv
  <2> QED
    BY <1>4, <2>1, HarmlessType
    DEF Receive, server, streamState, goroutine, EchoInv, TypeOK, RolesAndTypesAreRight
<1> QED
  BY <1>1, <1>2, <1>3, <1>4

LEMMA ReducerKeepsEchoInv ==
  EchoInv /\ (ReducerNext \/ Receive \/ UNCHANGED reducerVars) => EchoInv'
<1> SUFFICES ASSUME EchoInv
             PROVE  ReducerNext \/ Receive \/ UNCHANGED reducerVars => EchoInv'
  OBVIOUS
<1>1. ASSUME ReducerNext PROVE EchoInv'
  BY <1>1, MessageUpdatedKeepsEchoInv, TextUpdatedKeepsEchoInv, TextDeltaKeepsEchoInv,
     ToolUpdatedKeepsEchoInv, SessionIdleKeepsEchoInv, ChannelKeepsEchoInv DEF ReducerNext
<1>2. ASSUME UNCHANGED reducerVars PROVE EchoInv'
  BY <1>2 DEF reducerVars, server, streamState, goroutine, EchoInv, TypeOK, RolesAndTypesAreRight
<1> QED
  BY <1>1, <1>2, ChannelKeepsEchoInv

LEMMA EchoInvImpliesNoEcho == EchoInv => NoEcho
  BY DEF EchoInv, NoEcho, ToSet, Harmless

-----------------------------------------------------------------------------
(***************************************************************************)
(* Whoever reads the channel of consumeRenderEvents, and whenever, nothing *)
(* of the prompt and no reasoning is in it.                                *)
(***************************************************************************)
THEOREM ReducerNeverEchoes == ReducerSpec => []NoEcho
<1>1. EchoInv /\ [ReducerNext \/ Receive]_reducerVars => EchoInv'
  BY ReducerKeepsEchoInv
<1> QED
  BY EchoInit, <1>1, EchoInvImpliesNoEcho, PTL DEF ReducerSpec

(***************************************************************************)
(* The loops that turn the channel into a reply only ever receive from it. *)
(***************************************************************************)
LEMMA NextIsAReducerStep == [Next]_vars => [ReducerNext \/ Receive]_reducerVars
<1> SUFFICES ASSUME [Next]_vars PROVE ReducerNext \/ Receive \/ UNCHANGED reducerVars
  OBVIOUS
<1> QED
  BY DEF Next, vars, Reducer, Apply, Tick, Finish, Collect, WriteOnce, ContextDone

(***************************************************************************)
(* Streaming replies, whatever mode they are in, run the reducer as it is. *)
(***************************************************************************)
THEOREM ReplyRunsTheReducer == Spec => ReducerSpec
<1>1. Init => ReducerInit
  BY DEF Init
<1> QED
  BY <1>1, NextIsAReducerStep, PTL DEF Spec, ReducerSpec

(***************************************************************************)
(* No reply echoes the prompt or shows reasoning.                          *)
(***************************************************************************)
THEOREM NeverEchoes == Spec => []NoEcho
  BY ReplyRunsTheReducer, ReducerNeverEchoes, PTL

-----------------------------------------------------------------------------
(* The arithmetic of texts.                                                *)

LEMMA TextFacts ==
  ASSUME NEW p \in Parts, NEW k \in Nat
  PROVE /\ Len(Text(p, k)) = k
        /\ DOMAIN Text(p, k) = 1..k
        /\ \A i \in 1..k : Text(p, k)[i] = <<p, i>>
        /\ Text(p, 0) = <<>>
        /\ Text(p, k) = <<>> <=> k = 0
<1>1. Text(p, k) \in Seq(Token)
  BY TextType
<1>2. DOMAIN Text(p, k) = 1..k /\ \A i \in 1..k : Text(p, k)[i] = <<p, i>>
  BY DEF Text
<1>3. Len(Text(p, k)) = k
  BY <1>1, <1>2, LenProperties
<1>4. Text(p, 0) = <<>>
  BY DEF Text
<1>5. k # 0 => Text(p, k) # <<>>
  BY <1>3, EmptySeq
<1> QED
  BY <1>2, <1>3, <1>4, <1>5

\* A text and its next token.
LEMMA TextGrows ==
  ASSUME NEW p \in Parts, NEW k \in Nat
  PROVE Text(p, k) \o << <<p, k + 1>> >> = Text(p, k + 1)
  BY DEF Text

\* A text and all of its later tokens.
LEMMA TextExtends ==
  ASSUME NEW p \in Parts, NEW k \in Nat, NEW l \in Nat, k <= l
  PROVE /\ IsPrefix(Text(p, k), Text(p, l))
        /\ Text(p, k) \o SubSeq(Text(p, l), k + 1, l) = Text(p, l)
<1>1. SubSeq(Text(p, l), 1, k) = Text(p, k) /\ SubSeq(Text(p, k), 1, k) = Text(p, k)
  BY DEF Text
<1>2. Len(Text(p, k)) = k /\ Len(Text(p, l)) = l
  BY TextFacts
<1>3. IsPrefix(Text(p, k), Text(p, l))
  BY <1>1, <1>2 DEF IsPrefix
<1>4. Text(p, k) \o SubSeq(Text(p, l), k + 1, l) = Text(p, l)
  BY DEF Text
<1> QED
  BY <1>3, <1>4

-----------------------------------------------------------------------------
(* What single events make of the texts.                                   *)

LEMMA SingleEvent == \A e : ToSet(<<e>>) = {e}
  BY DEF ToSet

\* What Emit makes of one part.
LEMMA EmitPart ==
  ASSUME NEW evs, Emit(evs), NEW q \in Parts, NEW e \in ToSet(evs),
         \A f \in ToSet(evs) : f.type \in {"text_set", "text_delta"} /\ f.part = q => f = e
  PROVE /\ e.type = "text_set" /\ e.part = q => sent'[q] = e.text
        /\ e.type = "text_delta" /\ e.part = q => sent'[q] = sent[q] \o e.text
        /\ e.part # q => sent'[q] = sent[q]
<1> DEFINE sets == {f \in ToSet(evs) : f.type = "text_set" /\ f.part = q}
           deltas == {f \in ToSet(evs) : f.type = "text_delta" /\ f.part = q}
<1>1. sent'[q] = IF sets # {} THEN (CHOOSE f \in sets : TRUE).text
                 ELSE IF deltas # {} THEN sent[q] \o (CHOOSE f \in deltas : TRUE).text
                 ELSE sent[q]
  BY DEF Emit
<1>2. sets # {} => (CHOOSE f \in sets : TRUE) = e
  <2>1. sets # {} => (CHOOSE f \in sets : TRUE) \in sets
    OBVIOUS
  <2> QED
    BY <2>1
<1>3. deltas # {} => (CHOOSE f \in deltas : TRUE) = e
  <2>1. deltas # {} => (CHOOSE f \in deltas : TRUE) \in deltas
    OBVIOUS
  <2> QED
    BY <2>1
<1>4. sets # {} <=> e.type = "text_set" /\ e.part = q
  OBVIOUS
<1>5. deltas # {} <=> e.type = "text_delta" /\ e.part = q
  OBVIOUS
<1> HIDE DEF sets, deltas
<1> QED
  BY <1>1, <1>2, <1>3, <1>4, <1>5

LEMMA EmitSet ==
  ASSUME NEW p \in Parts, NEW text, Emit(<<Set(p, text)>>)
  PROVE \A q \in Parts : sent'[q] = IF q = p THEN text ELSE sent[q]
<1>1. Set(p, text).type = "text_set" /\ Set(p, text).part = p /\ Set(p, text).text = text
  BY DEF Set
<1> DEFINE e == Set(p, text)
<1>2. ToSet(<<e>>) = {e}
  BY SingleEvent
<1>3. Emit(<<e>>) /\ e.type = "text_set" /\ e.part = p /\ e.text = text
  BY <1>1
<1> HIDE DEF e
<1>4. ASSUME NEW q \in Parts
      PROVE  sent'[q] = IF q = p THEN text ELSE sent[q]
  <2>1. \A f \in ToSet(<<e>>) : f = e
    BY <1>2
  <2>2. e \in ToSet(<<e>>)
    BY <1>2
  <2> DEFINE evs == <<e>>
  <2> HIDE DEF evs
  <2>3. Emit(evs) /\ e \in ToSet(evs) /\ \A f \in ToSet(evs) : f = e
    BY <1>3, <2>1, <2>2 DEF evs
  <2>4. /\ e.type = "text_set" /\ e.part = q => sent'[q] = e.text
        /\ e.type = "text_delta" /\ e.part = q => sent'[q] = sent[q] \o e.text
        /\ e.part # q => sent'[q] = sent[q]
    BY <2>3, EmitPart
  <2> QED
    BY <1>3, <2>4
<1> QED
  BY <1>4

LEMMA EmitDelta ==
  ASSUME NEW p \in Parts, NEW text, Emit(<<Delta(p, text)>>)
  PROVE \A q \in Parts : sent'[q] = IF q = p THEN sent[q] \o text ELSE sent[q]
<1>1. Delta(p, text).type = "text_delta" /\ Delta(p, text).part = p /\ Delta(p, text).text = text
  BY DEF Delta
<1> DEFINE e == Delta(p, text)
<1>2. ToSet(<<e>>) = {e}
  BY SingleEvent
<1>3. Emit(<<e>>) /\ e.type = "text_delta" /\ e.part = p /\ e.text = text
  BY <1>1
<1> HIDE DEF e
<1>4. ASSUME NEW q \in Parts
      PROVE  sent'[q] = IF q = p THEN sent[q] \o text ELSE sent[q]
  <2>1. \A f \in ToSet(<<e>>) : f = e
    BY <1>2
  <2>2. e \in ToSet(<<e>>)
    BY <1>2
  <2> DEFINE evs == <<e>>
  <2> HIDE DEF evs
  <2>3. Emit(evs) /\ e \in ToSet(evs) /\ \A f \in ToSet(evs) : f = e
    BY <1>3, <2>1, <2>2 DEF evs
  <2>4. /\ e.type = "text_set" /\ e.part = q => sent'[q] = e.text
        /\ e.type = "text_delta" /\ e.part = q => sent'[q] = sent[q] \o e.text
        /\ e.part # q => sent'[q] = sent[q]
    BY <2>3, EmitPart
  <2> QED
    BY <1>3, <2>4
<1> QED
  BY <1>4

LEMMA EmitNoText ==
  ASSUME NEW evs, Emit(evs), NEW q \in Parts,
         \A e \in ToSet(evs) : e.type \in {"text_set", "text_delta"} => e.part # q
  PROVE sent'[q] = sent[q]
<1>1. {f \in ToSet(evs) : f.type = "text_set" /\ f.part = q} = {}
  OBVIOUS
<1>2. {f \in ToSet(evs) : f.type = "text_delta" /\ f.part = q} = {}
  OBVIOUS
<1> QED
  BY <1>1, <1>2 DEF Emit

LEMMA EmitNothing == Emit(<<>>) => \A q \in Parts : sent'[q] = sent[q]
<1>1. ToSet(<<>>) = {}
  BY DEF ToSet
<1> QED
  BY <1>1, EmitNoText

\* A snapshot brings a part's text up to date.
LEMMA SnapshotAddsUp ==
  ASSUME NEW p \in Parts, NEW k \in Nat, NEW l \in Nat, k <= l,
         sent[p] = Text(p, k), Emit(Difference(p, Text(p, k), Text(p, l)))
  PROVE /\ sent'[p] = Text(p, l)
        /\ \A q \in Parts : q # p => sent'[q] = sent[q]
<1> DEFINE prev == Text(p, k)  next == Text(p, l)
           suffix == SubSeq(next, k + 1, l)
<1>1. /\ prev = <<>> <=> k = 0
      /\ next = <<>> <=> l = 0
      /\ Len(prev) = k /\ Len(next) = l
  BY TextFacts
<1>2. IsPrefix(prev, next) /\ prev \o suffix = next
  BY TextExtends
<1> HIDE DEF prev, next
<1>3. CASE l = 0
  <2>1. Difference(p, prev, next) = <<>>
    BY <1>1, <1>3 DEF Difference
  <2>2. prev = next
    BY <1>1, <1>3
  <2> QED
    BY <2>1, <2>2, EmitNothing DEF prev, next
<1>4. CASE l # 0 /\ k = 0
  <2>1. Difference(p, prev, next) = <<Set(p, next)>>
    BY <1>1, <1>4 DEF Difference
  <2> QED
    BY <2>1, EmitSet DEF prev, next
<1>5. CASE k # 0 /\ k < l
  <2>1. prev # next /\ prev # <<>> /\ next # <<>>
    BY <1>1, <1>5
  <2>2. Difference(p, prev, next) = <<Delta(p, suffix)>>
    BY <1>1, <1>2, <2>1 DEF Difference, IsStrictPrefix
  <2>3. Emit(<<Delta(p, suffix)>>)
    BY <2>2 DEF prev, next
  <2>4. \A q \in Parts : sent'[q] = IF q = p THEN sent[q] \o suffix ELSE sent[q]
    BY <2>3, EmitDelta
  <2>5. sent'[p] = prev \o suffix
    BY <2>4 DEF prev
  <2> QED
    BY <1>2, <2>4, <2>5 DEF next
<1>6. CASE k # 0 /\ k = l
  <2>1. prev = next /\ prev # <<>>
    BY <1>1, <1>6 DEF prev, next
  <2>2. Difference(p, prev, next) = <<>>
    BY <1>2, <2>1 DEF Difference, IsStrictPrefix
  <2> QED
    BY <2>1, <2>2, EmitNothing DEF prev, next
<1> QED
  BY <1>3, <1>4, <1>5, <1>6

-----------------------------------------------------------------------------
(* AddsUpInv: a part's text is where the state of its message says.        *)

AddsUp(p) ==
    IF MessageOf[p] \in assistantMsgIDs
    THEN /\ sent[p] = Text(p, written[p])
         /\ partText[p] = Text(p, written[p])
         /\ pendingParts[p] = <<>>
    ELSE /\ sent[p] = <<>>
         /\ partText[p] = <<>>
         /\ pendingParts[p] = Text(p, written[p])

AddsUpInv ==
    /\ EchoInv
    /\ opened \subseteq textTyped
    /\ \A p \in TextParts : AddsUp(p)

LEMMA AddsUpInit == ReducerInit => AddsUpInv
<1> SUFFICES ASSUME ReducerInit PROVE AddsUpInv
  OBVIOUS
<1>1. \A p \in Parts : Text(p, 0) = <<>>
  BY TextFacts
<1>2. \A p \in TextParts : AddsUp(p)
  BY <1>1 DEF ReducerInit, AddsUp, Parts
<1> QED
  BY <1>2, EchoInit DEF ReducerInit, AddsUpInv

\* Parts that a step leaves alone.
LEMMA OtherPartsAddUp ==
  ASSUME NEW p \in TextParts, AddsUp(p),
         MessageOf[p] \in assistantMsgIDs <=> MessageOf[p] \in assistantMsgIDs',
         sent'[p] = sent[p], partText'[p] = partText[p],
         pendingParts'[p] = pendingParts[p], written'[p] = written[p]
  PROVE AddsUp(p)'
  BY DEF AddsUp

LEMMA TextUpdatedAddsUp ==
  ASSUME AddsUpInv, NEW p \in Parts, TextUpdated(p)
  PROVE AddsUpInv'
<1>1. EchoInv'
  BY TextUpdatedKeepsEchoInv DEF AddsUpInv
<1>2. p \in TextParts /\ opened' \subseteq textTyped' /\ assistantMsgIDs' = assistantMsgIDs
  BY DEF TextUpdated, AddsUpInv
<1>3. PICK k \in written[p]..MaxText[p] :
        /\ written' = [written EXCEPT ![p] = k]
        /\ IF MessageOf[p] \in assistantMsgIDs
           THEN /\ partText' = [partText EXCEPT ![p] = Text(p, k)]
                /\ Emit(Difference(p, partText[p], Text(p, k)))
                /\ UNCHANGED pendingParts
           ELSE /\ pendingParts' = [pendingParts EXCEPT ![p] = Text(p, k)]
                /\ Quiet
                /\ UNCHANGED partText
  BY DEF TextUpdated
<1>4. /\ written[p] \in Nat /\ k \in Nat /\ written[p] <= k
      /\ written'[p] = k
      /\ \A q \in Parts : q # p => written'[q] = written[q]
  BY <1>3, PartsAssumption DEF AddsUpInv, EchoInv, TypeOK
<1>5. \A q \in TextParts : AddsUp(q) /\ q \in Parts
  BY DEF AddsUpInv, Parts
<1>6. /\ DOMAIN partText = Parts /\ DOMAIN pendingParts = Parts
  BY DEF AddsUpInv, EchoInv, TypeOK
<1>7. CASE MessageOf[p] \in assistantMsgIDs
  <2>1. /\ sent[p] = Text(p, written[p]) /\ partText[p] = Text(p, written[p])
        /\ pendingParts[p] = <<>>
    BY <1>2, <1>5, <1>7 DEF AddsUp
  <2>2. /\ sent'[p] = Text(p, k)
        /\ \A q \in Parts : q # p => sent'[q] = sent[q]
    BY <1>3, <1>4, <1>7, <2>1, SnapshotAddsUp
  <2>3. /\ partText'[p] = Text(p, k)
        /\ \A q \in Parts : q # p => partText'[q] = partText[q]
        /\ pendingParts' = pendingParts
    BY <1>3, <1>6, <1>7
  <2>4. AddsUp(p)'
    BY <1>2, <1>4, <1>7, <2>1, <2>2, <2>3 DEF AddsUp
  <2>5. \A q \in TextParts : q # p => AddsUp(q)'
    BY <1>2, <1>4, <1>5, <2>2, <2>3, OtherPartsAddUp
  <2> QED
    BY <1>1, <1>2, <2>4, <2>5 DEF AddsUpInv
<1>8. CASE MessageOf[p] \notin assistantMsgIDs
  <2>1. sent[p] = <<>> /\ partText[p] = <<>>
    BY <1>2, <1>5, <1>8 DEF AddsUp
  <2>2. /\ pendingParts'[p] = Text(p, k)
        /\ \A q \in Parts : q # p => pendingParts'[q] = pendingParts[q]
        /\ sent' = sent /\ partText' = partText
    BY <1>3, <1>6, <1>8 DEF Quiet
  <2>3. AddsUp(p)'
    BY <1>2, <1>4, <1>8, <2>1, <2>2 DEF AddsUp
  <2>4. \A q \in TextParts : q # p => AddsUp(q)'
    BY <1>2, <1>4, <1>5, <2>2, OtherPartsAddUp
  <2> QED
    BY <1>1, <1>2, <2>3, <2>4 DEF AddsUpInv
<1> QED
  BY <1>7, <1>8

LEMMA TextDeltaAddsUp ==
  ASSUME AddsUpInv, NEW p \in Parts, TextDelta(p)
  PROVE AddsUpInv'
<1> DEFINE token == << <<p, written[p] + 1>> >>
<1>1. EchoInv'
  BY TextDeltaKeepsEchoInv DEF AddsUpInv
<1>2. assistantMsgIDs' = assistantMsgIDs /\ opened' = opened
  BY DEF TextDelta
<1>3. opened' \subseteq textTyped'
  BY PartsAssumption DEF TextDelta, AddsUpInv, EchoInv, TypeOK
<1>4. /\ written[p] \in Nat
      /\ written'[p] = written[p] + 1
      /\ \A q \in Parts : q # p => written'[q] = written[q]
  BY DEF TextDelta, AddsUpInv, EchoInv, TypeOK
<1>5. \A q \in TextParts : AddsUp(q) /\ q \in Parts
  BY DEF AddsUpInv, Parts
<1>6. /\ DOMAIN partText = Parts /\ DOMAIN pendingParts = Parts
  BY DEF AddsUpInv, EchoInv, TypeOK
<1>7. Text(p, written[p]) \o token = Text(p, written[p] + 1)
  BY <1>4, TextGrows
<1>8. p \in TextParts => p \in textTyped'
  <2>1. p \in TextParts => p \in opened
    BY PartsAssumption DEF TextDelta
  <2> QED
    BY <1>2, <1>3, <2>1
<1>9. CASE p \notin textTyped'
  <2>1. UNCHANGED <<todo, sent, partText, pendingParts>>
    BY <1>9 DEF TextDelta, Quiet
  <2>2. \A q \in TextParts : AddsUp(q)'
    BY <1>2, <1>4, <1>5, <1>8, <1>9, <2>1, OtherPartsAddUp
  <2> QED
    BY <1>1, <1>3, <2>2 DEF AddsUpInv
<1>10. CASE p \in textTyped' /\ MessageOf[p] \notin assistantMsgIDs
  <2>1. /\ pendingParts' = [pendingParts EXCEPT ![p] = @ \o token]
        /\ UNCHANGED <<todo, sent, partText>>
    BY <1>10 DEF TextDelta, Quiet
  <2>2. /\ pendingParts'[p] = pendingParts[p] \o token
        /\ \A q \in Parts : q # p => pendingParts'[q] = pendingParts[q]
    BY <1>6, <2>1
  <2>3. p \in TextParts
    BY <1>1, <1>10 DEF EchoInv, RolesAndTypesAreRight
  <2>4. sent[p] = <<>> /\ partText[p] = <<>> /\ pendingParts[p] = Text(p, written[p])
    BY <1>5, <1>10, <2>3 DEF AddsUp
  <2>5. pendingParts'[p] = Text(p, written'[p])
    BY <1>4, <1>7, <2>2, <2>4
  <2>6. AddsUp(p)'
    BY <1>2, <1>10, <2>1, <2>4, <2>5 DEF AddsUp
  <2>7. \A q \in TextParts : q # p => AddsUp(q)'
    BY <1>2, <1>4, <1>5, <2>1, <2>2, OtherPartsAddUp
  <2> QED
    BY <1>1, <1>3, <2>6, <2>7 DEF AddsUpInv
<1>11. CASE p \in textTyped' /\ MessageOf[p] \in assistantMsgIDs
  <2>1. /\ partText' = [partText EXCEPT ![p] = @ \o token]
        /\ Emit(<<Delta(p, token)>>)
        /\ UNCHANGED pendingParts
    BY <1>11 DEF TextDelta
  <2>2. /\ partText'[p] = partText[p] \o token
        /\ \A q \in Parts : q # p => partText'[q] = partText[q]
    BY <1>6, <2>1
  <2>3. p \in TextParts
    BY <1>1, <1>11 DEF EchoInv, RolesAndTypesAreRight
  <2>4. sent[p] = Text(p, written[p]) /\ partText[p] = Text(p, written[p]) /\ pendingParts[p] = <<>>
    BY <1>5, <1>11, <2>3 DEF AddsUp
  <2>5. \A q \in Parts : sent'[q] = IF q = p THEN sent[q] \o token ELSE sent[q]
    BY <2>1, EmitDelta
  <2>6. sent'[p] = sent[p] \o token
    BY <2>5
  <2>7. sent'[p] = Text(p, written'[p]) /\ partText'[p] = Text(p, written'[p])
    BY <1>4, <1>7, <2>2, <2>4, <2>6
  <2>8. AddsUp(p)'
    BY <1>2, <1>11, <2>1, <2>4, <2>7 DEF AddsUp
  <2>9. \A q \in TextParts : q # p => AddsUp(q)'
    BY <1>2, <1>4, <1>5, <2>1, <2>2, <2>5, OtherPartsAddUp
  <2> QED
    BY <1>1, <1>3, <2>8, <2>9 DEF AddsUpInv
<1> QED
  BY <1>9, <1>10, <1>11

\* An order of a set's elements has them all.
LEMMA OrderHasAll ==
  ASSUME NEW S, IsFiniteSet(S), NEW ps \in SetToSeqs(S)
  PROVE /\ Cardinality(S) \in Nat
        /\ ps \in [1..Cardinality(S) -> S]
        /\ \A x \in S : \E i \in 1..Cardinality(S) : ps[i] = x
<1> DEFINE n == Cardinality(S)
<1>1. n \in Nat
  BY FS_CardinalityType
<1>2. ps \in [1..n -> S] /\ \A i, j \in 1..n : i # j => ps[i] # ps[j]
  BY DEF SetToSeqs
<1> HIDE DEF n
<1>3. ps \in Injection(1..n, S)
  BY <1>2 DEF Injection, IsInjective
<1>4. Cardinality(1..n) = n
  BY <1>1, FS_Interval
<1>5. ps \in Surjection(1..n, S)
  BY <1>3, <1>4, FS_Injection DEF n
<1> QED
  BY <1>1, <1>2, <1>5 DEF Surjection, n

\* The elements of two sequences, one after the other.
LEMMA ToSetConcat ==
  ASSUME NEW S, NEW T, NEW s \in Seq(S), NEW t \in Seq(T)
  PROVE ToSet(s \o t) = ToSet(s) \cup ToSet(t)
<1>1. ASSUME NEW e \in ToSet(s) PROVE e \in ToSet(s \o t)
  <2>1. PICK i \in 1..Len(s) : e = s[i]
    BY DEF ToSet
  <2>2. i \in DOMAIN (s \o t) /\ (s \o t)[i] = e
    BY <2>1
  <2> QED
    BY <2>2 DEF ToSet
<1>2. ASSUME NEW e \in ToSet(t) PROVE e \in ToSet(s \o t)
  <2>1. PICK i \in 1..Len(t) : e = t[i]
    BY DEF ToSet
  <2>2. Len(s) + i \in DOMAIN (s \o t) /\ (s \o t)[Len(s) + i] = e
    BY <2>1
  <2> QED
    BY <2>2 DEF ToSet
<1>3. ASSUME NEW e \in ToSet(s \o t) PROVE e \in ToSet(s) \cup ToSet(t)
  <2>1. PICK i \in 1..(Len(s) + Len(t)) : e = (s \o t)[i]
    BY DEF ToSet
  <2>2. CASE i <= Len(s)
    BY <2>1, <2>2 DEF ToSet
  <2>3. CASE i > Len(s)
    <3>1. i - Len(s) \in DOMAIN t /\ e = t[i - Len(s)]
      BY <2>1, <2>3
    <3> QED
      BY <3>1 DEF ToSet
  <2> QED
    BY <2>2, <2>3
<1> QED
  BY <1>1, <1>2, <1>3

\* What Emit makes of the parts whose texts were held back, and of the others.
LEMMA EmitHeldBack ==
  ASSUME AddsUpInv, NEW m \in Messages, NEW tools0 \in SUBSET ToolParts,
         NEW ps \in SetToSeqs(HeldBackTexts(m)), NEW ts \in SetToSeqs(tools0),
         Emit([i \in DOMAIN ps |-> Set(ps[i], pendingParts[ps[i]])]
                \o [i \in DOMAIN ts |-> Tool(ts[i], pendingToolParts[ts[i]])])
  PROVE \A q \in TextParts :
          sent'[q] = IF q \in HeldBackTexts(m) THEN pendingParts[q] ELSE sent[q]
<1> DEFINE texts == HeldBackTexts(m)
           textEvents == [i \in DOMAIN ps |-> Set(ps[i], pendingParts[ps[i]])]
           toolEvents == [i \in DOMAIN ts |-> Tool(ts[i], pendingToolParts[ts[i]])]
           evs == textEvents \o toolEvents
<1>1. IsFiniteSet(texts) /\ IsFiniteSet(tools0) /\ texts \subseteq Parts
  <2>1. texts \subseteq Parts /\ tools0 \subseteq Parts
    BY DEF HeldBackTexts, Parts
  <2> QED
    BY <2>1, PartsAssumption, FS_Subset
<1>2. /\ Cardinality(texts) \in Nat
      /\ ps \in [1..Cardinality(texts) -> texts]
      /\ \A q \in texts : \E i \in 1..Cardinality(texts) : ps[i] = q
  BY <1>1, OrderHasAll
<1>3. Cardinality(tools0) \in Nat /\ ts \in [1..Cardinality(tools0) -> tools0]
  BY <1>1, OrderHasAll
<1>4. textEvents \in Seq(ToSet(textEvents)) /\ toolEvents \in Seq(ToSet(toolEvents))
  <2>1. textEvents \in [1..Cardinality(texts) -> ToSet(textEvents)]
    BY <1>2 DEF ToSet
  <2>2. toolEvents \in [1..Cardinality(tools0) -> ToSet(toolEvents)]
    BY <1>3 DEF ToSet
  <2> QED
    BY <1>2, <1>3, <2>1, <2>2, FunctionIsSeq
<1>5. ToSet(textEvents) = {Set(q, pendingParts[q]) : q \in texts}
  BY <1>2 DEF ToSet
<1>6. \A f \in ToSet(toolEvents) : f.type = "tool"
  BY DEF ToSet, Tool
<1>7. ToSet(evs) = ToSet(textEvents) \cup ToSet(toolEvents)
  BY <1>4, ToSetConcat
<1>8. \A f \in ToSet(evs) : f.type \in {"text_set", "text_delta"} =>
          \E q \in texts : f = Set(q, pendingParts[q])
  BY <1>5, <1>6, <1>7
<1>9. \A q \in texts : Set(q, pendingParts[q]) \in ToSet(evs)
  BY <1>5, <1>7
<1>10. Emit(evs)
  OBVIOUS
<1> HIDE DEF texts, evs
<1>11. ASSUME NEW q \in TextParts, q \in texts
       PROVE  sent'[q] = pendingParts[q]
  <2> DEFINE e == Set(q, pendingParts[q])
  <2>1. /\ e \in ToSet(evs)
        /\ e.type = "text_set" /\ e.part = q /\ e.text = pendingParts[q]
    BY <1>9, <1>11 DEF Set
  <2>2. \A f \in ToSet(evs) : f.type \in {"text_set", "text_delta"} /\ f.part = q => f = e
    BY <1>8 DEF Set
  <2> HIDE DEF e
  <2>3. q \in Parts
    BY DEF Parts
  <2> QED
    BY <1>10, <2>1, <2>2, <2>3, EmitPart
<1>12. ASSUME NEW q \in TextParts, q \notin texts
       PROVE  sent'[q] = sent[q]
  <2>1. \A f \in ToSet(evs) : f.type \in {"text_set", "text_delta"} => f.part # q
    BY <1>8, <1>12 DEF Set
  <2>2. q \in Parts
    BY DEF Parts
  <2> QED
    BY <1>10, <2>1, <2>2, EmitNoText
<1> QED
  BY <1>11, <1>12 DEF texts

\* What was held back comes out whole, and once.
LEMMA MessageUpdatedAddsUp ==
  ASSUME AddsUpInv, NEW m \in Messages, MessageUpdated(m)
  PROVE AddsUpInv'
<1> DEFINE texts == HeldBackTexts(m)
           tools0 == {p \in ToolParts : MessageOf[p] = m /\ pendingToolParts[p] # "none"}
<1>1. EchoInv'
  BY MessageUpdatedKeepsEchoInv DEF AddsUpInv
<1>2. /\ opened' \subseteq textTyped' /\ written' = written
      /\ assistantMsgIDs' = assistantMsgIDs \cup {m}
      /\ partText' = [p \in Parts |-> IF p \in texts THEN pendingParts[p] ELSE partText[p]]
      /\ pendingParts' = [p \in Parts |-> IF p \in texts THEN <<>> ELSE pendingParts[p]]
  BY DEF MessageUpdated, AddsUpInv
<1>3. \A q \in TextParts : sent'[q] = IF q \in texts THEN pendingParts[q] ELSE sent[q]
  <2>1. PICK ps \in SetToSeqs(texts), ts \in SetToSeqs(tools0) :
          Emit([i \in DOMAIN ps |-> Set(ps[i], pendingParts[ps[i]])]
                 \o [i \in DOMAIN ts |-> Tool(ts[i], pendingToolParts[ts[i]])])
    BY DEF MessageUpdated
  <2>2. tools0 \in SUBSET ToolParts
    OBVIOUS
  <2> HIDE DEF tools0
  <2> QED
    BY <2>1, <2>2, EmitHeldBack
<1>4. \A q \in TextParts : AddsUp(q) /\ q \in Parts
  BY DEF AddsUpInv, Parts
<1>5. \A q \in TextParts : q \in texts <=> MessageOf[q] = m /\ pendingParts[q] # <<>>
  BY DEF HeldBackTexts
<1> HIDE DEF texts
<1>6. ASSUME NEW q \in TextParts, q \in texts
      PROVE  AddsUp(q)'
  <2>1. MessageOf[q] = m /\ pendingParts[q] = Text(q, written[q])
    BY <1>4, <1>5, <1>6 DEF AddsUp
  <2>2. /\ sent'[q] = Text(q, written[q])
        /\ partText'[q] = Text(q, written[q])
        /\ pendingParts'[q] = <<>>
    BY <1>2, <1>3, <1>4, <1>6, <2>1
  <2> QED
    BY <1>2, <2>1, <2>2 DEF AddsUp
<1>7. ASSUME NEW q \in TextParts, q \notin texts
      PROVE  AddsUp(q)'
  <2>1. /\ sent'[q] = sent[q] /\ partText'[q] = partText[q]
        /\ pendingParts'[q] = pendingParts[q] /\ written'[q] = written[q]
    BY <1>2, <1>3, <1>4, <1>7
  <2>2. CASE MessageOf[q] = m
    BY <1>2, <1>4, <1>5, <1>7, <2>1, <2>2 DEF AddsUp
  <2>3. CASE MessageOf[q] # m
    BY <1>2, <1>4, <2>1, <2>3, OtherPartsAddUp
  <2> QED
    BY <2>2, <2>3
<1> QED
  BY <1>1, <1>2, <1>6, <1>7 DEF AddsUpInv

\* Events that carry no text.
LEMMA EmitSingleNoText ==
  ASSUME NEW e, e.type \notin {"text_set", "text_delta"}, Emit(<<e>>)
  PROVE \A q \in Parts : sent'[q] = sent[q]
<1>1. \A f \in ToSet(<<e>>) : f.type \notin {"text_set", "text_delta"}
  BY SingleEvent
<1> DEFINE evs == <<e>>
<1>2. Emit(evs) /\ \A f \in ToSet(evs) : f.type \notin {"text_set", "text_delta"}
  BY <1>1
<1> HIDE DEF evs
<1> QED
  BY <1>2, EmitNoText

\* Steps that neither write text nor learn a role.
streamText == <<assistantMsgIDs, partText, textTyped, pendingParts>>

LEMMA TextsUntouched ==
  ASSUME AddsUpInv, EchoInv', UNCHANGED <<written, opened, streamText>>,
         \A q \in Parts : sent'[q] = sent[q]
  PROVE AddsUpInv'
  BY DEF AddsUpInv, AddsUp, streamText, Parts

LEMMA OtherStepsAddUp ==
  ASSUME AddsUpInv,
         (\E p \in Parts : ToolUpdated(p)) \/ SessionIdle \/ Send \/ CloseChannel
           \/ StreamStops \/ Receive \/ UNCHANGED reducerVars
  PROVE AddsUpInv'
<1>1. EchoInv'
  BY ReducerKeepsEchoInv DEF AddsUpInv, ReducerNext
<1>2. UNCHANGED <<written, opened, streamText>>
  BY DEF ToolUpdated, SessionIdle, Send, CloseChannel, StreamStops, Receive, reducerVars,
         server, streamState, streamText, goroutine
<1>3. CASE \E p \in Parts : ToolUpdated(p)
  <2>1. PICK p \in Parts : ToolUpdated(p)
    BY <1>3
  <2>2. Quiet \/ \E status : Emit(<<Tool(p, status)>>)
    BY <2>1 DEF ToolUpdated
  <2>3. \A status : Tool(p, status).type = "tool"
    BY DEF Tool
  <2>4. \A q \in Parts : sent'[q] = sent[q]
    BY <2>2, <2>3, EmitSingleNoText DEF Quiet
  <2> QED
    BY <1>1, <1>2, <2>4, TextsUntouched
<1>4. CASE SessionIdle
  <2>1. Emit(<<Done>>) /\ Done.type = "done"
    BY <1>4 DEF SessionIdle, Done
  <2>2. \A q \in Parts : sent'[q] = sent[q]
    BY <2>1, EmitSingleNoText
  <2> QED
    BY <1>1, <1>2, <2>2, TextsUntouched
<1>5. CASE Send \/ CloseChannel \/ StreamStops \/ Receive \/ UNCHANGED reducerVars
  <2>1. sent' = sent
    BY <1>5 DEF Send, CloseChannel, StreamStops, Receive, reducerVars, goroutine
  <2> QED
    BY <1>1, <1>2, <2>1, TextsUntouched
<1> QED
  BY <1>3, <1>4, <1>5

LEMMA ReducerKeepsAddsUpInv == AddsUpInv /\ [ReducerNext \/ Receive]_reducerVars => AddsUpInv'
<1> SUFFICES ASSUME AddsUpInv, [ReducerNext \/ Receive]_reducerVars PROVE AddsUpInv'
  OBVIOUS
<1>1. CASE \E m \in Messages : MessageUpdated(m)
  BY <1>1, MessageUpdatedAddsUp
<1>2. CASE \E p \in Parts : TextUpdated(p)
  BY <1>2, TextUpdatedAddsUp
<1>3. CASE \E p \in Parts : TextDelta(p)
  BY <1>3, TextDeltaAddsUp
<1>4. CASE \/ (\E p \in Parts : ToolUpdated(p)) \/ SessionIdle \/ Send \/ CloseChannel
           \/ StreamStops \/ Receive \/ UNCHANGED reducerVars
  BY <1>4, OtherStepsAddUp
<1> QED
  BY <1>1, <1>2, <1>3, <1>4 DEF ReducerNext

LEMMA AddsUpInvImpliesTextAddsUp == AddsUpInv => TextAddsUp
  BY DEF AddsUpInv, AddsUp, TextAddsUp

(***************************************************************************)
(* Whatever the order in which roles, snapshots and deltas are reported,   *)
(* the events sent for an assistant's text amount to what was written.     *)
(***************************************************************************)
THEOREM ReducerSendsWholeTexts == ReducerSpec => []TextAddsUp
  BY AddsUpInit, ReducerKeepsAddsUpInv, AddsUpInvImpliesTextAddsUp, PTL DEF ReducerSpec

\* The same of the reply's channel, in every mode.
THEOREM WholeTextsAreSent == Spec => []TextAddsUp
  BY ReducerSendsWholeTexts, ReplyRunsTheReducer, PTL
=============================================================================

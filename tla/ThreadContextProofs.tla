------------------------- MODULE ThreadContextProofs -------------------------
(* The invariants of ThreadContext hold in threads of any length, with any   *)
(* window, any number of responders side by side and of restarts.            *)
EXTENDS ThreadContext, TLAPS

\* What a responder's place says of its prompt and of the past.
ControlOf(m) ==
    /\ pc[m] # "none" => m <= handled /\ thread[m].user = "user"
    /\ pc[m] \in {"none", "start", "fetch"} => prompt[m] = {} /\ m \notin gaps
    /\ pc[m] \in {"none", "start", "fetch", "post", "generate"} => m \notin accepted
    /\ pc[m] \in {"none", "start", "fetch", "post", "generate", "mark"} => m \notin marked
    /\ pc[m] = "mark" => m \in accepted
    /\ pc[m] = "fetch" => basis[m] \in marked
    /\ prompt[m] \subseteq 1..Len(thread)

Control ==
    /\ \A m \in Positions : ControlOf(m)
    /\ mark # None => mark \in marked

Seen(j) == j \in Shown \/ \E g \in gaps : j <= g

CoveredUpTo(n) == \A j \in 1..n : thread[j].user = "user" => Seen(j)

\* Up to the message it answers, a prompt shows what no other one did.
CoverageOf(m) ==
    /\ pc[m] = "fetch" => CoveredUpTo(basis[m])
    /\ pc[m] = "mark" => CoveredUpTo(m)
    /\ pc[m] \in {"post", "generate"} =>
         \A j \in 1..m : thread[j].user = "user" => j \in prompt[m] \/ Seen(j)

Coverage ==
    /\ CoveredUpTo(mark)
    /\ \A m \in Positions : CoverageOf(m)

Invitation ==
    /\ Scope = "room" /\ marked # {} => \E a \in marked : thread[a].mention
    /\ SpeaksWhenInvited

\* While no two responders were ever under way at once.
InOrder ==
    /\ \A m \in UnderWay, k \in Positions : pc[k] # "none" => k <= m
    /\ mark # None => \A a \in marked : a <= mark
    /\ \A m \in Positions : pc[m] = "fetch" => \A a \in marked : a <= basis[m]

OneByOne ==
    /\ InOrder
    /\ \A m \in marked, k \in Positions : m < k => \A j \in prompt[k] : j > m
    /\ \A m \in Positions : prompt[m] # {} /\ m \notin prompt[m] => m \in gaps

IInv == ThreadTypeOK /\ Control /\ Coverage /\ Invitation /\ (overlapped = {} => OneByOne)

-----------------------------------------------------------------------------
USE ThreadAssumption DEF None

LEMMA Initially == Init => IInv
<1> SUFFICES ASSUME Init PROVE IInv
  OBVIOUS
<1>1. ThreadTypeOK
  <2>1. thread = <<>> /\ Len(thread) = 0 /\ thread \in Seq(Message)
    BY DEF Init
  <2>2. QED
    BY <2>1, PoliciesAssumption DEF Init, ThreadTypeOK
<1>2. Control /\ Coverage
  BY DEF Init, Control, ControlOf, Coverage, CoverageOf, CoveredUpTo
<1>3. Invitation /\ OneByOne
  BY DEF Init, Invitation, OneByOne, InOrder, SpeaksWhenInvited, UnderWay, Running
<1>4. QED
  BY <1>1, <1>2, <1>3 DEF IInv

\* Every step but a post leaves the thread alone, and a post appends to it.
LEMMA Appending ==
  ASSUME NEW t \in Seq(Message), NEW message \in Message
  PROVE  /\ Append(t, message) \in Seq(Message)
         /\ Len(Append(t, message)) = Len(t) + 1
         /\ \A j \in 1..Len(t) : Append(t, message)[j] = t[j]
  OBVIOUS

Growing ==
    /\ thread' \in Seq(Message) /\ Len(thread') <= MaxThread
    /\ Len(thread) \in Nat /\ Len(thread') \in Nat /\ Len(thread) <= Len(thread')
    /\ \A j \in 1..Len(thread) : thread'[j] = thread[j]

LEMMA ThreadGrows ==
  ASSUME ThreadTypeOK, Next
  PROVE  Growing
<1>1. CASE UNCHANGED thread
  BY <1>1 DEF ThreadTypeOK, Growing
<1>2. CASE /\ Len(thread) < MaxThread
           /\ \E message \in Message : thread' = Append(thread, message)
  BY <1>2, Appending DEF ThreadTypeOK, Growing
<1>3. BotMessage \in Message /\ \A mention \in BOOLEAN, text \in Texts :
         [user |-> "user", mention |-> mention, text |-> text] \in Message
  BY DEF BotMessage, Message, Texts
<1>4. ASSUME NEW mention \in BOOLEAN, NEW text \in Texts, Post(mention, text)  PROVE Growing
  BY <1>2, <1>3, <1>4 DEF Post
<1>5. CASE HandleMessage \/ Reconnect \/ Restart
  BY <1>1, <1>5 DEF HandleMessage, Reconnect, Restart
<1>6. ASSUME NEW m \in Positions, Respond(m)  PROVE Growing
  <2>1. CASE AnswerCommand(m) \/ PostPlaceholder(m)
    BY <2>1, <1>1, <1>2, <1>3 DEF AnswerCommand, PostPlaceholder, Extended
  <2>2. CASE ~(AnswerCommand(m) \/ PostPlaceholder(m))
    BY <2>2, <1>1, <1>6
    DEF Respond, NoCatchingUp, ReadMark, FetchThread, FetchFails, ShowAlone, PostFails,
        Generate, GenerateFails, MarkActive
  <2>3. QED
    BY <2>1, <2>2
<1>7. QED
  BY <1>4, <1>5, <1>6 DEF Next

Places == Running \cup {"none", "done"}

\* A responder's step is its own: what it changes of the responders is its part.
Locality(m) ==
    /\ \E place \in Places \ {"none"} : pc' = [pc EXCEPT ![m] = place]
    /\ basis' = basis \/ \E last \in 0..MaxThread : basis' = [basis EXCEPT ![m] = last]
    /\ prompt' = prompt \/ \E shown \in SUBSET Positions : prompt' = [prompt EXCEPT ![m] = shown]
    /\ UNCHANGED <<policy, handled, restarts, overlapped>>
    /\ accepted' \in {accepted, accepted \cup {m}}
    /\ marked' \in {marked, marked \cup {m}}
    /\ gaps' \in {gaps, gaps \cup {m}}
    /\ mark' # mark => mark' = m /\ pc[m] = "mark"
    /\ pc[m] \in Running

LEMMA ResponderIsLocal ==
  ASSUME ThreadTypeOK, NEW m \in Positions, Respond(m)
  PROVE  Locality(m)
<1> USE DEF Locality, Places, Running, history
<1>0. m \in 1..MaxThread /\ None \in 0..MaxThread
  BY DEF Positions
<1>1. CASE AnswerCommand(m)
  BY <1>1 DEF AnswerCommand
<1>2. CASE NoCatchingUp(m)
  BY <1>0, <1>2 DEF NoCatchingUp, ShowAlone
<1>3. CASE ReadMark(m)
  <2>1. mark \in 0..MaxThread
    BY DEF ThreadTypeOK
  <2>2. QED
    BY <2>1, <1>3 DEF ReadMark
<1>4. CASE FetchThread(m)
  <2>1. Missed(basis[m]) \in SUBSET Positions /\ {m} \in SUBSET Positions
    BY DEF Missed, Fetched, ThreadTypeOK, Positions
  <2>2. QED
    BY <1>0, <2>1, <1>4 DEF FetchThread
<1>5. CASE FetchFails(m)
  BY <1>0, <1>5 DEF FetchFails, ShowAlone
<1>6. CASE PostPlaceholder(m)
  BY <1>6 DEF PostPlaceholder
<1>7. CASE PostFails(m)
  BY <1>7 DEF PostFails
<1>8. CASE Generate(m)
  BY <1>8 DEF Generate
<1>9. CASE GenerateFails(m)
  BY <1>9 DEF GenerateFails
<1>10. CASE MarkActive(m)
  BY <1>10 DEF MarkActive
<1>11. QED
  BY <1>1, <1>2, <1>3, <1>4, <1>5, <1>6, <1>7, <1>8, <1>9, <1>10 DEF Respond

LEMMA KeepsTypes ==
  ASSUME ThreadTypeOK, Control, Next
  PROVE  ThreadTypeOK'
<1>1. Growing
  BY ThreadGrows
<1> USE <1>1 DEF Growing
<1>2. CASE \E mention \in BOOLEAN, text \in Texts : Post(mention, text)
  BY <1>2 DEF Post, ThreadTypeOK, history
<1>3. CASE HandleMessage
  <2>1. handled' \in 0..Len(thread')
    BY <1>3 DEF HandleMessage, ThreadTypeOK
  <2>2. handled + 1 \in Positions
    BY <1>3 DEF HandleMessage, ThreadTypeOK, Positions
  <2>3. pc' \in [Positions -> Places] /\ overlapped' \subseteq Positions
    BY <1>3, <2>2 DEF HandleMessage, ThreadTypeOK, Places, Running
  <2>4. QED
    BY <1>3, <2>1, <2>3 DEF HandleMessage, ThreadTypeOK, Places
<1>4. CASE Reconnect \/ Restart
  BY <1>4 DEF Reconnect, Restart, ThreadTypeOK, history
<1>5. ASSUME NEW m \in Positions, Respond(m)  PROVE ThreadTypeOK'
  <2>1. Locality(m)
    BY <1>5, ResponderIsLocal
  <2> USE <2>1 DEF Locality
  <2>2. handled' \in 0..Len(thread') /\ restarts' \in 0..MaxRestarts /\ policy' \in RoomConfigs
    BY DEF ThreadTypeOK
  <2>3. pc' \in [Positions -> Places]
    BY DEF ThreadTypeOK, Places
  <2>4. basis' \in [Positions -> 0..MaxThread]
    BY DEF ThreadTypeOK
  <2>5. prompt' \in [Positions -> SUBSET Positions]
    BY DEF ThreadTypeOK
  <2>6. accepted' \subseteq Positions /\ marked' \subseteq Positions /\ gaps' \subseteq Positions
    BY DEF ThreadTypeOK
  <2>7. mark' \in 0..Len(thread')
    <3>1. CASE mark' = m /\ pc[m] = "mark"
      <4>1. m <= handled
        BY <3>1 DEF Control, ControlOf
      <4>2. QED
        BY <3>1, <4>1 DEF ThreadTypeOK, Positions
    <3>2. QED
      BY <3>1 DEF ThreadTypeOK
  <2>8. QED
    BY <2>2, <2>3, <2>4, <2>5, <2>6, <2>7 DEF ThreadTypeOK, Places
<1>6. QED
  BY <1>2, <1>3, <1>4, <1>5 DEF Next

Same(k) ==
    /\ pc'[k] = pc[k] /\ basis'[k] = basis[k] /\ prompt'[k] = prompt[k]
    /\ k \in accepted' <=> k \in accepted
    /\ k \in marked' <=> k \in marked
    /\ k \in gaps' <=> k \in gaps

LEMMA OthersStay ==
  ASSUME ThreadTypeOK, NEW m \in Positions, Respond(m), NEW k \in Positions, k # m
  PROVE  Same(k)
<1>1. Locality(m)
  BY ResponderIsLocal
<1>2. QED
  BY <1>1 DEF Locality, Same, ThreadTypeOK

PastStays ==
    /\ policy' = policy /\ handled <= handled'
    /\ accepted \subseteq accepted' /\ marked \subseteq marked' /\ gaps \subseteq gaps'
    /\ overlapped \subseteq overlapped'
    /\ \A k \in accepted : prompt'[k] = prompt[k]

\* What was accepted, marked or missed stays so, and so does an accepted prompt.
LEMMA PastIsKept ==
  ASSUME ThreadTypeOK, Control, Next
  PROVE  PastStays
<1>1. CASE \E mention \in BOOLEAN, text \in Texts : Post(mention, text)
  BY <1>1 DEF Post, PastStays, ThreadTypeOK, history
<1>2. CASE HandleMessage
  BY <1>2 DEF HandleMessage, PastStays, ThreadTypeOK
<1>3. CASE Reconnect \/ Restart
  BY <1>3 DEF Reconnect, Restart, PastStays, ThreadTypeOK, history
<1>4. ASSUME NEW m \in Positions, Respond(m)  PROVE PastStays
  <2>1. Locality(m)
    BY <1>4, ResponderIsLocal
  <2>2. handled <= handled'
    BY <2>1 DEF Locality, ThreadTypeOK
  <2>3. ASSUME NEW k \in accepted  PROVE prompt'[k] = prompt[k]
    <3>1. k \in Positions
      BY DEF ThreadTypeOK
    <3>2. CASE k # m
      BY <3>1, <3>2, <1>4, OthersStay DEF Same
    <3>3. CASE k = m
      <4>1. pc[m] \notin {"start", "fetch"}
        BY <2>3, <3>3 DEF Control, ControlOf
      <4>2. QED
        BY <3>3, <4>1, <1>4
        DEF Respond, AnswerCommand, NoCatchingUp, ReadMark, FetchThread, FetchFails,
            PostPlaceholder, PostFails, Generate, GenerateFails, MarkActive
    <3>4. QED
      BY <3>2, <3>3
  <2>4. QED
    BY <2>1, <2>2, <2>3 DEF Locality, PastStays
<1>5. QED
  BY <1>1, <1>2, <1>3, <1>4 DEF Next

LEMMA SeenStays ==
  ASSUME ThreadTypeOK, Control, Next, NEW j, Seen(j)
  PROVE  Seen(j)'
<1>1. PastStays
  BY PastIsKept
<1>2. QED
  BY <1>1 DEF PastStays, Seen, Shown

LEMMA KeepsControl ==
  ASSUME ThreadTypeOK, Control, Next
  PROVE  Control'
<1>1. Growing /\ PastStays
  BY ThreadGrows, PastIsKept
<1>2. handled \in Nat /\ handled' \in Nat /\ handled <= Len(thread) /\ Positions \subseteq Nat \ {0}
  BY KeepsTypes DEF ThreadTypeOK, Positions
\* A responder that a step leaves alone.
<1>3. ASSUME NEW k \in Positions, Same(k)  PROVE ControlOf(k)'
  <2>1. ControlOf(k)
    BY DEF Control
  <2>2. pc[k] # "none" => k <= handled' /\ thread'[k].user = "user"
    BY <1>1, <1>2, <2>1 DEF ControlOf, Growing, PastStays
  <2>3. prompt[k] \subseteq 1..Len(thread')
    BY <1>1, <2>1 DEF ControlOf, Growing
  <2>4. QED
    BY <1>1, <1>3, <2>1, <2>2, <2>3 DEF ControlOf, Same, PastStays
<1>4. CASE \E mention \in BOOLEAN, text \in Texts : Post(mention, text)
  BY <1>3, <1>4 DEF Post, Control, Same, history
<1>5. CASE HandleMessage
  <2>1. handled + 1 \in Positions /\ handled + 1 \in Nat
    BY <1>5 DEF HandleMessage, ThreadTypeOK, Positions
  <2>2. ASSUME NEW k \in Positions  PROVE ControlOf(k)'
    <3>1. CASE Same(k)
      BY <1>3, <3>1
    <3>2. CASE ~Same(k)
      <4>1. k = handled + 1 /\ pc'[k] = "start" /\ thread[k].user # "bot"
        BY <1>5, <3>2, <2>1 DEF HandleMessage, Same, ThreadTypeOK
      <4>2. pc[k] = "none"
        BY <4>1, <1>2 DEF Control, ControlOf
      <4>3. thread[k].user = "user" /\ k <= handled'
        <5>1. k \in 1..Len(thread) /\ k <= handled'
          BY <4>1, <1>5, <1>2 DEF HandleMessage, ThreadTypeOK
        <5>2. thread[k] \in Message
          BY <5>1 DEF ThreadTypeOK
        <5>3. QED
          BY <5>1, <5>2, <4>1 DEF Message
      <4>4. QED
        BY <4>1, <4>2, <4>3, <1>5 DEF HandleMessage, Control, ControlOf
    <3>3. QED
      BY <3>1, <3>2
  <2>3. QED
    BY <2>2, <1>5 DEF HandleMessage, Control
<1>6. CASE Reconnect
  BY <1>3, <1>6 DEF Reconnect, Control, Same, history
<1>7. CASE Restart
  <2>1. ASSUME NEW k \in Positions  PROVE ControlOf(k)'
    <3>1. CASE k \notin UnderWay
      BY <1>3, <1>7, <3>1 DEF Restart, Same, history
    <3>2. CASE k \in UnderWay
      BY <1>1, <1>2, <1>7, <3>2
      DEF Restart, Control, ControlOf, UnderWay, Running, PastStays, Growing, history
    <3>3. QED
      BY <3>1, <3>2
  <2>2. QED
    BY <1>7, <2>1 DEF Restart, Control
<1>8. ASSUME NEW m \in Positions, Respond(m)  PROVE Control'
  <2>1. Locality(m)
    BY <1>8, ResponderIsLocal
  <2>2. mark' # None => mark' \in marked'
    BY <1>8, <1>1 DEF Respond, AnswerCommand, NoCatchingUp, ReadMark, FetchThread, FetchFails,
        PostPlaceholder, PostFails, Generate, GenerateFails, MarkActive, ShowAlone, Control,
        PastStays, history
  <2>3. ControlOf(m)'
    <3>1. ControlOf(m) /\ m <= handled' /\ thread'[m].user = "user" /\ m \in 1..Len(thread)
      BY <2>1, <1>1, <1>2 DEF Control, ControlOf, Locality, Running, PastStays, Growing
    <3>2. prompt'[m] \subseteq 1..Len(thread')
      <4>1. prompt'[m] = prompt[m] \/ prompt'[m] = {m} \/ prompt'[m] = Missed(basis[m])
        BY <1>8 DEF Respond, AnswerCommand, NoCatchingUp, ReadMark, FetchThread, FetchFails,
          PostPlaceholder, PostFails, Generate, GenerateFails, MarkActive, ShowAlone, ThreadTypeOK,
          history
      <4>2. Missed(basis[m]) \subseteq 1..Len(thread)
        BY DEF Missed, Fetched
      <4>3. QED
        BY <3>1, <4>1, <4>2, <1>1 DEF ControlOf, Growing
    <3> USE <3>1, <3>2 DEF ControlOf, ThreadTypeOK
    <3>3. CASE AnswerCommand(m) \/ PostPlaceholder(m) \/ PostFails(m)
      BY <3>3 DEF AnswerCommand, PostPlaceholder, PostFails, history
    <3>4. CASE NoCatchingUp(m) \/ FetchFails(m) \/ FetchThread(m)
      BY <3>4 DEF NoCatchingUp, FetchFails, FetchThread, ShowAlone
    <3>5. CASE ReadMark(m)
      BY <3>5 DEF ReadMark, CatchesUp, IsActive, Control, history
    <3>6. CASE Generate(m) \/ GenerateFails(m)
      BY <3>6 DEF Generate, GenerateFails
    <3>7. CASE MarkActive(m)
      BY <3>7 DEF MarkActive
    <3>8. QED
      BY <1>8, <3>3, <3>4, <3>5, <3>6, <3>7 DEF Respond
  <2>4. ASSUME NEW k \in Positions, k # m  PROVE ControlOf(k)'
    BY <1>3, <1>8, <2>4, OthersStay
  <2>5. QED
    BY <2>2, <2>3, <2>4 DEF Control
<1>9. QED
  BY <1>4, <1>5, <1>6, <1>7, <1>8 DEF Next

LEMMA CoverageGrows ==
  ASSUME ThreadTypeOK, Control, Next, NEW n \in Nat, n <= Len(thread), CoveredUpTo(n)
  PROVE  CoveredUpTo(n)'
<1>1. Growing
  BY ThreadGrows
<1>2. SUFFICES ASSUME NEW j \in 1..n, thread'[j].user = "user"  PROVE Seen(j)'
  BY DEF CoveredUpTo
<1>3. j \in 1..Len(thread) /\ thread[j].user = "user"
  BY <1>1, <1>2 DEF Growing
<1>4. QED
  BY <1>3, SeenStays DEF CoveredUpTo

LEMMA KeepsCoverage ==
  ASSUME ThreadTypeOK, Control, Coverage, Next
  PROVE  Coverage'
<1>1. Growing /\ PastStays /\ ThreadTypeOK' /\ Control'
  BY ThreadGrows, PastIsKept, KeepsTypes, KeepsControl
<1>2. handled \in Nat /\ handled <= Len(thread) /\ mark \in Nat /\ mark <= Len(thread)
      /\ Positions \subseteq Nat \ {0}
  BY DEF ThreadTypeOK, Positions
<1>3. CoveredUpTo(mark)'
  <2>1. CASE mark' = mark
    BY <1>2, <2>1, CoverageGrows DEF Coverage, CoveredUpTo
  <2>2. CASE mark' = None
    BY <2>2 DEF CoveredUpTo
  <2>3. CASE \E m \in Positions : MarkActive(m)
    <3>1. PICK m \in Positions : MarkActive(m)
      BY <2>3
    <3>2. CoveredUpTo(m) /\ m <= Len(thread) /\ m \in Nat /\ mark' = m
      BY <3>1, <1>2 DEF MarkActive, Coverage, CoverageOf, Control, ControlOf
    <3>3. QED
      BY <3>2, CoverageGrows DEF CoveredUpTo
  <2>4. QED
    BY <2>1, <2>2, <2>3 DEF Next, Respond, AnswerCommand, NoCatchingUp, ReadMark, FetchThread,
      FetchFails, PostPlaceholder, PostFails, Generate, GenerateFails, ShowAlone, Post,
      HandleMessage, Reconnect, Restart, history
\* A responder that a step leaves alone, or ends.
<1>4. ASSUME NEW k \in Positions, Same(k) \/ pc'[k] = "done"  PROVE CoverageOf(k)'
  <2>1. CoverageOf(k) /\ ControlOf(k)
    BY DEF Coverage, Control
  <2>2. CASE pc'[k] = "fetch"
    <3>1. basis'[k] = basis[k] /\ CoveredUpTo(basis[k]) /\ basis[k] \in marked
      BY <1>4, <2>1, <2>2 DEF CoverageOf, ControlOf, Same
    <3>2. basis[k] \in Nat /\ basis[k] <= Len(thread)
      BY <3>1, <1>2 DEF Control, ControlOf, ThreadTypeOK
    <3>3. QED
      BY <2>2, <3>1, <3>2, CoverageGrows DEF CoverageOf, CoveredUpTo
  <2>3. CASE pc'[k] = "mark"
    <3>1. CoveredUpTo(k) /\ k \in Nat /\ k <= Len(thread)
      BY <1>4, <2>1, <2>3, <1>2 DEF CoverageOf, ControlOf, Same
    <3>2. QED
      BY <2>3, <3>1, CoverageGrows DEF CoverageOf
  <2>4. CASE pc'[k] \in {"post", "generate"}
    <3>1. ASSUME NEW j \in 1..k, thread'[j].user = "user"
          PROVE  j \in prompt'[k] \/ Seen(j)'
      <4>1. pc[k] = pc'[k] /\ prompt'[k] = prompt[k]
        BY <1>4, <2>4 DEF Same
      <4>2. thread[j].user = "user"
        BY <1>1, <1>2, <2>1, <2>4, <3>1, <4>1 DEF ControlOf, Growing
      <4>3. QED
        BY <2>1, <2>4, <4>1, <4>2, SeenStays DEF CoverageOf
    <3>2. QED
      BY <2>4, <3>1 DEF CoverageOf
  <2>5. CASE pc'[k] \notin {"fetch", "post", "generate", "mark"}
    BY <2>5 DEF CoverageOf
  <2>6. QED
    BY <2>2, <2>3, <2>4, <2>5
<1>5. CASE \E mention \in BOOLEAN, text \in Texts : Post(mention, text)
  BY <1>3, <1>4, <1>5 DEF Post, Coverage, Same, history
<1>6. CASE HandleMessage
  <2>1. ASSUME NEW k \in Positions  PROVE Same(k) \/ pc'[k] = "start"
    BY <1>6 DEF HandleMessage, Same, ThreadTypeOK
  <2>2. QED
    BY <1>3, <1>4, <2>1 DEF Coverage, CoverageOf
<1>7. CASE Reconnect
  BY <1>3, <1>4, <1>7 DEF Reconnect, Coverage, Same, history
<1>8. CASE Restart
  <2>1. ASSUME NEW k \in Positions  PROVE Same(k) \/ pc'[k] = "done"
    BY <1>8 DEF Restart, Same, history
  <2>2. QED
    BY <1>3, <1>4, <2>1 DEF Coverage
<1>9. ASSUME NEW m \in Positions, Respond(m)  PROVE Coverage'
  <2>1. CoverageOf(m)'
    <3>1. ControlOf(m) /\ CoverageOf(m) /\ pc \in [Positions -> Places]
      BY DEF Control, Coverage, ThreadTypeOK, Places
    <3>2. CASE AnswerCommand(m) \/ PostFails(m) \/ MarkActive(m) \/ GenerateFails(m)
      <4>1. pc'[m] = "done"
        BY <3>1, <3>2 DEF AnswerCommand, PostFails, MarkActive, GenerateFails
      <4>2. QED
        BY <4>1, <1>4
    <3>3. CASE NoCatchingUp(m) \/ FetchFails(m)
      <4>1. pc'[m] = "post" /\ m \in gaps'
        BY <3>1, <3>3 DEF NoCatchingUp, FetchFails, ShowAlone
      <4>2. QED
        BY <4>1, <1>2 DEF CoverageOf, Seen
    <3>4. CASE ReadMark(m)
      <4>1. pc'[m] = "fetch" /\ basis'[m] = mark /\ mark' = mark
        BY <3>1, <3>4 DEF ReadMark, ThreadTypeOK
      <4>2. QED
        BY <4>1, <1>3 DEF CoverageOf, CoveredUpTo
    <3>5. CASE FetchThread(m)
      <4>1. pc'[m] = "post" /\ thread' = thread /\ pc[m] = "fetch"
            /\ prompt'[m] = (IF Missed(basis[m]) = {} THEN {m} ELSE Missed(basis[m]))
        BY <3>1, <3>5 DEF FetchThread, ThreadTypeOK
      <4>2. CASE ~ReachesBack(basis[m])
        <5>1. m \in gaps'
          BY <3>5, <4>2 DEF FetchThread
        <5>2. QED
          BY <4>1, <5>1, <1>2 DEF CoverageOf, Seen
      <4>3. CASE ReachesBack(basis[m])
        <5>1. CoveredUpTo(basis[m]) /\ basis[m] \in Nat /\ m <= Len(thread) /\ m \in Nat
          BY <3>1, <4>1, <1>2 DEF CoverageOf, ControlOf, ThreadTypeOK
        <5>2. ASSUME NEW j \in 1..m, thread[j].user = "user"
              PROVE  j \in prompt'[m] \/ Seen(j)'
          <6>1. CASE j <= basis[m]
            BY <5>1, <5>2, <6>1, SeenStays DEF CoveredUpTo
          <6>2. CASE j > basis[m]
            <7>1. j \in Fetched /\ basis[m] \in Fetched
              BY <4>3, <5>1, <5>2, <6>2 DEF ReachesBack
            <7>2. j \in Missed(basis[m])
              BY <5>2, <6>2, <7>1 DEF Missed
            <7>3. QED
              BY <4>1, <7>2
          <6>3. QED
            BY <5>1, <6>1, <6>2
        <5>3. QED
          BY <4>1, <5>2 DEF CoverageOf
      <4>4. QED
        BY <4>2, <4>3
    <3>6. CASE PostPlaceholder(m)
      <4>1. pc'[m] = "generate" /\ prompt' = prompt /\ pc[m] = "post" /\ m <= Len(thread)
        BY <3>1, <3>6, <1>2 DEF PostPlaceholder, ControlOf
      <4>2. ASSUME NEW j \in 1..m, thread'[j].user = "user"
            PROVE  j \in prompt'[m] \/ Seen(j)'
        BY <1>1, <1>2, <3>1, <4>1, <4>2, SeenStays DEF CoverageOf, Growing
      <4>3. QED
        BY <4>1, <4>2 DEF CoverageOf
    <3>7. CASE Generate(m)
      <4>1. /\ pc[m] = "generate" /\ pc'[m] \in {"mark", "done"} /\ m \in accepted'
            /\ prompt' = prompt /\ thread' = thread
        BY <3>1, <3>7 DEF Generate
      <4>2. ASSUME NEW j \in 1..m, thread'[j].user = "user"  PROVE Seen(j)'
        <5>1. j \in prompt[m] \/ Seen(j)'
          BY <3>1, <4>1, <4>2, SeenStays DEF CoverageOf
        <5>2. QED
          BY <5>1, <4>1 DEF Seen, Shown
      <4>3. CoveredUpTo(m)'
        BY <4>2 DEF CoveredUpTo
      <4>4. QED
        BY <4>1, <4>3 DEF CoverageOf
    <3>8. QED
      BY <1>9, <3>2, <3>3, <3>4, <3>5, <3>6, <3>7 DEF Respond
  <2>2. ASSUME NEW k \in Positions, k # m  PROVE CoverageOf(k)'
    BY <1>4, <1>9, <2>2, OthersStay
  <2>3. QED
    BY <1>3, <2>1, <2>2 DEF Coverage
<1>10. QED
  BY <1>5, <1>6, <1>7, <1>8, <1>9 DEF Next

\* Who wrote the mark was a responder.
LEMMA MarkedBefore ==
  ASSUME ThreadTypeOK, Control, NEW a \in marked
  PROVE  a \in Positions /\ pc[a] # "none" /\ a \in Nat /\ a <= handled
<1>1. a \in Positions
  BY DEF ThreadTypeOK
<1>2. QED
  BY <1>1 DEF Control, ControlOf, Positions

LEMMA KeepsInvitation ==
  ASSUME ThreadTypeOK, Control, Invitation, Next
  PROVE  Invitation'
<1>1. Growing /\ PastStays /\ ThreadTypeOK'
  BY ThreadGrows, PastIsKept, KeepsTypes
<1>2. Scope' = Scope /\ policy' = policy
  BY <1>1 DEF PastStays, Scope
<1>3. \A a \in marked : a \in 1..Len(thread) /\ thread'[a].mention = thread[a].mention
  <2>1. \A a \in marked : a \in Nat \ {0} /\ a <= handled
    BY MarkedBefore DEF Positions
  <2>2. handled \in Nat /\ handled <= Len(thread)
    BY DEF ThreadTypeOK
  <2>3. QED
    BY <1>1, <2>1, <2>2 DEF Growing
\* A responder that was there before.
<1>4. ASSUME NEW m \in Positions, pc[m] # "none", Scope = "room"
      PROVE  \/ thread'[m].mention
             \/ /\ policy'.activeThreadTrigger = "auto"
                /\ \E a \in marked' : a < m /\ thread'[a].mention
  <2>1. m \in 1..Len(thread)
    BY <1>1, <1>4 DEF Control, ControlOf, ThreadTypeOK, Positions, Growing
  <2>2. thread'[m].mention = thread[m].mention
    BY <1>1, <2>1 DEF Growing
  <2>3. marked \subseteq marked'
    BY <1>1 DEF PastStays
  <2>4. \/ thread[m].mention
        \/ /\ policy.activeThreadTrigger = "auto"
           /\ \E a \in marked : a < m /\ thread[a].mention
    BY <1>4 DEF Invitation, SpeaksWhenInvited
  <2>5. QED
    BY <1>2, <1>3, <2>2, <2>3, <2>4
<1>5. CASE HandleMessage
  <2>1. marked' = marked /\ thread' = thread
    BY <1>5 DEF HandleMessage
  <2>2. ASSUME NEW m \in Positions, pc'[m] # "none", pc[m] = "none", Scope = "room"
        PROVE  \/ thread[m].mention
               \/ /\ policy.activeThreadTrigger = "auto"
                  /\ \E a \in marked : a < m /\ thread[a].mention
    <3>1. m = handled + 1 /\ ShouldRespond(m)
      BY <1>5, <2>2 DEF HandleMessage, ThreadTypeOK
    <3>2. CASE thread[m].mention
      BY <3>2
    <3>3. CASE ~thread[m].mention
      <4>1. mark # None /\ policy.activeThreadTrigger = "auto"
        BY <2>2, <3>1, <3>3 DEF ShouldRespond, IsActive
      <4>2. PICK a \in marked : thread[a].mention
        BY <2>2, <4>1 DEF Control, Invitation
      <4>3. a < m
        BY <3>1, MarkedBefore DEF ThreadTypeOK
      <4>4. QED
        BY <4>1, <4>2, <4>3
    <3>4. QED
      BY <3>2, <3>3
  <2>3. SpeaksWhenInvited'
    BY <1>2, <1>4, <2>1, <2>2 DEF SpeaksWhenInvited
  <2>4. Scope' = "room" /\ marked' # {} => \E a \in marked' : thread'[a].mention
    BY <1>2, <2>1 DEF Invitation
  <2>5. QED
    BY <2>3, <2>4 DEF Invitation
<1>6. CASE ~HandleMessage
  <2>1. ASSUME NEW m \in Positions, pc'[m] # "none"  PROVE pc[m] # "none"
    <3>1. CASE \E k \in Positions : Respond(k)
      <4>1. PICK k \in Positions : Respond(k)
        BY <3>1
      <4>2. CASE m = k
        BY <4>1, <4>2, ResponderIsLocal DEF Locality, Running
      <4>3. CASE m # k
        BY <2>1, <4>1, <4>3, OthersStay DEF Same
      <4>4. QED
        BY <4>2, <4>3
    <3>2. CASE Reconnect \/ \E mention \in BOOLEAN, text \in Texts : Post(mention, text)
      BY <2>1, <3>2 DEF Reconnect, Post
    <3>3. CASE Restart
      BY <2>1, <3>3 DEF Restart, UnderWay, Running
    <3>4. QED
      BY <1>6, <3>1, <3>2, <3>3 DEF Next
  <2>2. SpeaksWhenInvited'
    BY <1>2, <1>4, <2>1 DEF SpeaksWhenInvited
  <2>3. ASSUME Scope = "room", marked' # {}  PROVE \E a \in marked' : thread'[a].mention
    <3>1. CASE marked # {}
      <4>1. PICK a \in marked : thread[a].mention
        BY <2>3, <3>1 DEF Invitation
      <4>2. QED
        BY <4>1, <1>1, <1>3 DEF PastStays
    <3>2. CASE marked = {}
      <4>1. PICK m \in Positions : MarkActive(m)
        BY <2>3, <3>2, <1>6 DEF Next, Respond, AnswerCommand, NoCatchingUp, ReadMark,
          FetchThread, FetchFails, PostPlaceholder, PostFails, Generate, GenerateFails, ShowAlone,
          Post, Reconnect, Restart, history
      <4>2. pc[m] = "mark" /\ m \in marked' /\ thread' = thread
        BY <4>1 DEF MarkActive
      <4>3. thread[m].mention
        BY <2>3, <3>2, <4>2 DEF Invitation, SpeaksWhenInvited
      <4>4. QED
        BY <4>2, <4>3
    <3>3. QED
      BY <3>1, <3>2
  <2>4. QED
    BY <1>2, <2>2, <2>3 DEF Invitation
<1>7. QED
  BY <1>5, <1>6

\* The steps that change nothing InOrder speaks of, but for ending responders.
LEMMA OrderIsKept ==
  ASSUME InOrder, UnderWay' \subseteq UnderWay, mark' \in {mark, None},
         marked' = marked,
         \A k \in Positions : /\ pc'[k] # "none" => pc[k] # "none"
                              /\ pc'[k] = "fetch" => pc[k] = "fetch" /\ basis'[k] = basis[k]
  PROVE  InOrder'
BY DEF InOrder

LEMMA KeepsOrder ==
  ASSUME ThreadTypeOK, Control, InOrder, Next, overlapped' = {}
  PROVE  InOrder'
<1>1. handled \in Nat /\ Positions \subseteq Nat /\ pc \in [Positions -> Places] /\ mark \in Nat
  BY DEF ThreadTypeOK, Positions, Places
<1>2. CASE \E mention \in BOOLEAN, text \in Texts : Post(mention, text)
  BY <1>2, OrderIsKept DEF Post, UnderWay, history
<1>3. CASE HandleMessage
  <2>1. CASE pc' = pc
    BY <1>3, <2>1, OrderIsKept DEF HandleMessage, UnderWay
  <2>2. CASE pc' # pc
    <3>1. UnderWay = {} /\ pc' = [pc EXCEPT ![handled + 1] = "start"]
          /\ basis' = basis /\ mark' = mark /\ marked' = marked
      BY <1>3, <2>2 DEF HandleMessage
    <3>2. \A k \in Positions : pc[k] # "none" => k <= handled
      BY DEF Control, ControlOf
    <3>3. \A k \in Positions : pc'[k] # "none" => k <= handled + 1
      BY <3>1, <3>2, <1>1
    <3>4. \A m \in UnderWay' : m = handled + 1
      BY <3>1, <1>1 DEF UnderWay
    <3>5. \A k \in Positions : pc'[k] # "fetch"
      BY <3>1, <1>1 DEF UnderWay, Running
    <3>6. QED
      BY <3>1, <3>3, <3>4, <3>5 DEF InOrder
  <2>3. QED
    BY <2>1, <2>2
<1>4. CASE Reconnect
  BY <1>4, OrderIsKept DEF Reconnect, UnderWay, history
<1>5. CASE Restart
  <2>1. \A k \in Positions : pc'[k] = (IF k \in UnderWay THEN "done" ELSE pc[k])
    BY <1>5 DEF Restart
  <2>2. UnderWay' \subseteq UnderWay
    BY <2>1 DEF UnderWay, Running
  <2>3. \A k \in Positions : /\ pc'[k] # "none" => pc[k] # "none"
                             /\ pc'[k] = "fetch" => pc[k] = "fetch" /\ basis'[k] = basis[k]
    BY <1>5, <2>1 DEF Restart, UnderWay, Running
  <2>4. QED
    BY <1>5, <2>2, <2>3, OrderIsKept DEF Restart, history
<1>6. ASSUME NEW m \in Positions, Respond(m)  PROVE InOrder'
  <2>1. Locality(m) /\ pc[m] \in Running /\ \A k \in Positions : k # m => Same(k)
    BY <1>6, ResponderIsLocal, OthersStay DEF Locality
  <2>2. UnderWay' \subseteq UnderWay /\ \A k \in Positions : pc'[k] # "none" => pc[k] # "none"
    BY <2>1 DEF UnderWay, Running, Same
  <2>3. CASE ReadMark(m)
    <3>1. /\ pc'[m] = "fetch" /\ basis'[m] = mark /\ mark # None
          /\ mark' = mark /\ marked' = marked
      BY <1>1, <2>3 DEF ReadMark, CatchesUp, IsActive, history, ThreadTypeOK
    <3>2. \A k \in Positions : pc'[k] = "fetch" => \A a \in marked : a <= basis'[k]
      BY <2>1, <3>1 DEF InOrder, Same
    <3>3. QED
      BY <2>2, <3>1, <3>2 DEF InOrder
  <2>4. CASE MarkActive(m)
    <3>1. mark' = m /\ marked' = marked \cup {m} /\ pc'[m] = "done" /\ m \in UnderWay
      BY <1>1, <2>4 DEF MarkActive, UnderWay, Running
    <3>2. \A a \in marked' : a <= m
      <4>1. ASSUME NEW a \in marked  PROVE a <= m
        BY <3>1, MarkedBefore DEF InOrder
      <4>2. QED
        BY <1>1, <3>1, <4>1
    <3>3. \A k \in Positions : pc'[k] # "fetch"
      <4>1. ASSUME NEW k \in Positions, pc'[k] = "fetch"  PROVE FALSE
        <5>1. k # m /\ k \in UnderWay /\ pc[k] # "none" /\ pc[m] # "none"
          BY <2>1, <3>1, <4>1 DEF Same, UnderWay, Running
        <5>2. k <= m /\ m <= k
          BY <3>1, <5>1 DEF InOrder
        <5>3. QED
          BY <1>1, <5>1, <5>2
      <4>2. QED
        BY <4>1
    <3>4. QED
      BY <2>2, <3>1, <3>2, <3>3 DEF InOrder
  <2>5. CASE ~ReadMark(m) /\ ~MarkActive(m)
    <3>1. mark' = mark /\ marked' = marked /\ pc'[m] # "fetch"
      BY <1>1, <1>6, <2>5 DEF Respond, AnswerCommand, NoCatchingUp, FetchThread, FetchFails,
        PostPlaceholder, PostFails, Generate, GenerateFails, ShowAlone, history
    <3>2. QED
      BY <2>1, <2>2, <3>1, OrderIsKept DEF Same
  <2>6. QED
    BY <2>3, <2>4, <2>5
<1>7. QED
  BY <1>2, <1>3, <1>4, <1>5, <1>6 DEF Next

LEMMA KeepsOneByOne ==
  ASSUME ThreadTypeOK, Control, OneByOne, Next, overlapped' = {}
  PROVE  OneByOne'
<1>1. handled \in Nat /\ Positions \subseteq Nat /\ pc \in [Positions -> Places]
      /\ prompt \in [Positions -> SUBSET Positions] /\ marked \subseteq Positions
  BY DEF ThreadTypeOK, Positions, Places
<1>2. InOrder'
  BY KeepsOrder DEF OneByOne
<1>3. CASE ~\E m \in Positions : Respond(m)
  <2>1. prompt' = prompt /\ marked' = marked /\ gaps' = gaps
    BY <1>3 DEF Next, Post, HandleMessage, Reconnect, Restart, history
  <2>2. QED
    BY <1>2, <2>1 DEF OneByOne
<1>4. ASSUME NEW m \in Positions, Respond(m)  PROVE OneByOne'
  <2>1. gaps \subseteq gaps' /\ \A k \in Positions : k # m => Same(k)
    BY <1>4, PastIsKept, OthersStay DEF PastStays
  <2>2. pc[m] \in Running /\ m \in UnderWay
    BY <1>4, ResponderIsLocal DEF Locality, UnderWay
  <2>3. CASE MarkActive(m)
    <3>1. prompt' = prompt /\ gaps' = gaps /\ marked' = marked \cup {m}
      BY <2>3 DEF MarkActive
    <3>2. ASSUME NEW k \in Positions, m < k  PROVE prompt[k] = {}
      <4>1. pc[k] = "none"
        BY <1>1, <2>2, <3>2 DEF OneByOne, InOrder
      <4>2. QED
        BY <4>1 DEF Control, ControlOf
    <3>3. QED
      BY <1>2, <3>1, <3>2 DEF OneByOne
  <2>4. CASE ~MarkActive(m)
    <3>1. marked' = marked
      BY <1>4, <2>4 DEF Respond, AnswerCommand, NoCatchingUp, ReadMark, FetchThread, FetchFails,
        PostPlaceholder, PostFails, Generate, GenerateFails, ShowAlone, history
    <3>2. /\ prompt'[m] # {} /\ m \notin prompt'[m] => m \in gaps'
          /\ \A a \in marked : a < m => \A j \in prompt'[m] : j > a
      <4>1. CASE FetchThread(m)
        <5>1. /\ pc[m] = "fetch" /\ m \in 1..Len(thread) /\ thread[m].user = "user"
              /\ prompt'[m] = (IF Missed(basis[m]) = {} THEN {m} ELSE Missed(basis[m]))
          BY <1>1, <4>1 DEF FetchThread, Control, ControlOf, ThreadTypeOK, Positions
        <5>2. basis[m] \in marked /\ basis[m] \in Nat /\ \A a \in marked : a <= basis[m]
          BY <1>1, <5>1 DEF OneByOne, InOrder, Control, ControlOf
        <5>3. basis[m] < m
          <6>1. basis[m] <= m
            BY <2>2, <5>2, MarkedBefore DEF OneByOne, InOrder
          <6>2. basis[m] # m
            BY <5>1, <5>2 DEF Control, ControlOf
          <6>3. QED
            BY <1>1, <5>2, <6>1, <6>2
        <5>4. \A a \in marked : a < m => \A j \in prompt'[m] : j > a
          <6>1. \A j \in Missed(basis[m]) : j \in Nat /\ j > basis[m]
            BY DEF Missed, Fetched
          <6>2. QED
            BY <1>1, <5>1, <5>2, <6>1
        <5>5. ASSUME m \notin prompt'[m]  PROVE m \in gaps'
          <6>1. m \notin Missed(basis[m])
            BY <5>1, <5>5
          <6>2. ~ReachesBack(basis[m])
            BY <1>1, <5>1, <5>2, <5>3, <6>1 DEF Missed, ReachesBack
          <6>3. QED
            BY <4>1, <6>2 DEF FetchThread
        <5>6. QED
          BY <5>4, <5>5
      <4>2. CASE NoCatchingUp(m) \/ FetchFails(m)
        <5>1. prompt'[m] = {m}
          BY <1>1, <4>2 DEF NoCatchingUp, FetchFails, ShowAlone
        <5>2. QED
          BY <1>1, <5>1
      <4>3. CASE ~FetchThread(m) /\ ~NoCatchingUp(m) /\ ~FetchFails(m)
        <5>1. prompt' = prompt
          BY <1>4, <2>4, <4>3 DEF Respond, AnswerCommand, ReadMark, PostPlaceholder, PostFails,
            Generate, GenerateFails, history
        <5>2. QED
          BY <2>1, <5>1 DEF OneByOne
      <4>4. QED
        BY <4>1, <4>2, <4>3
    <3>3. QED
      BY <1>2, <2>1, <3>1, <3>2 DEF OneByOne, Same
  <2>5. QED
    BY <2>3, <2>4
<1>5. QED
  BY <1>3, <1>4

-----------------------------------------------------------------------------
LEMMA IInvIsInductive == IInv /\ [Next]_vars => IInv'
<1>1. ASSUME IInv, Next  PROVE IInv'
  <2>1. ThreadTypeOK' /\ Control' /\ Coverage' /\ Invitation'
    BY <1>1, KeepsTypes, KeepsControl, KeepsCoverage, KeepsInvitation DEF IInv
  <2>2. overlapped' = {} => OneByOne'
    <3>1. overlapped \subseteq overlapped'
      BY <1>1, PastIsKept DEF IInv, PastStays
    <3>2. overlapped' = {} => overlapped = {}
      BY <3>1
    <3>3. QED
      BY <1>1, <3>2, KeepsOneByOne DEF IInv
  <2>3. QED
    BY <2>1, <2>2 DEF IInv
<1>2. ASSUME IInv, UNCHANGED vars  PROVE IInv'
  <2> USE <1>2 DEF vars, history, IInv
  <2>1. ThreadTypeOK'
    BY DEF ThreadTypeOK
  <2>2. Control'
    BY DEF Control, ControlOf
  <2>3. Coverage'
    BY DEF Coverage, CoverageOf, CoveredUpTo, Seen, Shown
  <2>4. Invitation'
    BY DEF Invitation, SpeaksWhenInvited, Scope
  <2>5. overlapped' = {} => OneByOne'
    BY DEF OneByOne, InOrder, UnderWay
  <2>6. QED
    BY <2>1, <2>2, <2>3, <2>4, <2>5
<1>3. QED
  BY <1>1, <1>2

LEMMA Invariance == Spec => []IInv
BY Initially, IInvIsInductive, PTL DEF Spec

(* The state of the thread and of its responders is well-formed.             *)
THEOREM ThreadTypeCorrect == Spec => []ThreadTypeOK
<1>1. IInv => ThreadTypeOK
  BY DEF IInv
<1>2. QED
  BY <1>1, Invariance, PTL

(* However the responders of a thread interleave, and wherever the program   *)
(* is restarted, what the mark has passed was shown to the generator, or lies *)
(* before a message whose responder could not catch up (client.go:334-391).   *)
THEOREM NothingIsSkipped == Spec => []NothingSkipped
<1>1. IInv => NothingSkipped
  BY DEF IInv, Coverage, CoveredUpTo, Seen, NothingSkipped
<1>2. QED
  BY <1>1, Invariance, PTL

(* In a room the bot only speaks where it was mentioned, or after an answer  *)
(* to a mention (client.go:270-289, 744-789).                                *)
THEOREM SpeaksOnlyWhenInvited == Spec => []SpeaksWhenInvited
<1>1. IInv => SpeaksWhenInvited
  BY DEF IInv, Invitation
<1>2. QED
  BY <1>1, Invariance, PTL

(* Responders that follow one another show nothing twice                     *)
(* (client.go:364-391).                                                      *)
THEOREM NothingIsAnsweredTwice == Spec => []NothingAnsweredTwice
<1>1. IInv => NothingAnsweredTwice
  BY DEF IInv, OneByOne, NothingAnsweredTwice, ThreadTypeOK
<1>2. QED
  BY <1>1, Invariance, PTL

(* A responder that is alone and gets the thread back to the mark answers    *)
(* its own message among those it shows (client.go:334-391).                 *)
THEOREM PromptContainsItsMessage == Spec => []ContainsItsMessage
<1>1. IInv => ContainsItsMessage
  BY DEF IInv, OneByOne, ContainsItsMessage
<1>2. QED
  BY <1>1, Invariance, PTL
=============================================================================

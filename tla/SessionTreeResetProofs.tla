----------------------- MODULE SessionTreeResetProofs -----------------------
(* The properties of SessionTreeReset hold for trees of any shape and size,  *)
(* with any number of resets and of prompts under way.                       *)
EXTENDS SessionTreeReset, FiniteSetTheorems, SequenceTheorems, TLAPS

Queued == Range(todo)

\* Where the reset is, and what it may hold there.
Control ==
    /\ known => phase = "idle" /\ answers = <<>> /\ ids = <<>> /\ late = {} /\ live = born
    /\ phase = "idle" /\ ~known => answers # <<>>
    /\ phase # "idle" => ~known /\ answers = <<>> /\ MaxAttempts > 0
    /\ known \/ phase = "list" => ~errors
    /\ phase = "abort" => i > 0
    /\ phase = "delete" => i <= Len(ids)
    /\ Root \in born /\ Queued \cup Listed \subseteq born
    /\ \A j, k \in DOMAIN ids : ids[j] = ids[k] => j = k

\* Whatever part of the tree below the root is looked at, one session of it
\* has its parent outside: nobody is its own ancestor.
Ancestry ==
    /\ \A s \in born : parent[s] \in born
    /\ \A S \in SUBSET (born \ {Root}) : S # {} => \E s \in S : parent[s] \notin S

\* A session comes after its parent in the list, and nothing is deleted
\* before the deletion, which goes through the list from its end.
TopDown ==
    /\ \A k \in DOMAIN ids :
         ids[k] = Root \/ \E j \in DOMAIN ids : j < k /\ ids[j] = parent[ids[k]]
    /\ phase = "list" => \A s \in Queued : s = Root \/ parent[s] \in Listed
    /\ phase = "list" => Queued \subseteq live
    /\ phase \in {"list", "abort", "wait"} => Listed \subseteq live
    /\ phase = "delete" => \A k \in DOMAIN ids :
         IF k <= i THEN ids[k] \in live ELSE ids[k] \notin live \/ ids[k] \in undeleted
    /\ phase = "idle" => NoOrphans

\* Who has been asked to stop has, or will, or refused; and the root was idle
\* when the wait was over.
Stopped(s) ==
    s \notin running \/ s \in stubborn \/ s \in stopping \/ (s = Root /\ resumed)

Stopping ==
    /\ \A k \in DOMAIN ids :
         phase \in {"wait", "delete"} \/ (phase = "abort" /\ k < i) => Stopped(ids[k])
    /\ phase = "delete" /\ Root \in Listed \cap running => gaveUp \/ resumed

\* A session the list lacks is late, or waits to be visited, or is below one
\* that does.
Finding ==
    /\ phase = "list" =>
         /\ Root \in Listed \cup Queued
         /\ \A s \in live \ (Listed \cup late \cup Queued) : parent[s] \in live \ (Listed \cup late)
    /\ phase \in {"abort", "wait", "delete"} => live \subseteq Listed \cup late
    /\ phase = "delete" /\ ~errors => \A k \in DOMAIN ids : k > i => ids[k] \notin live
    /\ LeftoversAreLate

IInv == TreeTypeOK /\ Control /\ Ancestry /\ TopDown /\ Stopping /\ Finding

-----------------------------------------------------------------------------
USE TreeAssumption

LEMMA Initially == Init => IInv
<1> SUFFICES ASSUME Init PROVE IInv
  OBVIOUS
<1> USE DEF Init
<1>1. /\ Queued = {} /\ Listed = {} /\ Len(ids) = 0 /\ Len(answers) = 0
      /\ todo \in Seq(Sessions) /\ ids \in Seq(Sessions) /\ answers \in Seq({"fresh", "failed"})
  BY DEF Queued, Listed, Range
<1>2. TreeTypeOK
  <2>1. known \in BOOLEAN /\ errors \in BOOLEAN /\ parent \in [Sessions -> Sessions]
    OBVIOUS
  <2>2. /\ live \subseteq born /\ born \subseteq Sessions /\ running \subseteq live
        /\ stopping \subseteq running /\ gaveUp \in BOOLEAN /\ resumed \in BOOLEAN
        /\ late \subseteq born /\ stubborn \subseteq Sessions /\ undeleted \subseteq Sessions
    OBVIOUS
  <2>3. prompts \in 0..MaxPrompts /\ i \in 0..Len(ids) + 1 /\ Len(answers) <= MaxAttempts
    BY <1>1
  <2>4. QED
    BY <1>1, <2>1, <2>2, <2>3 DEF TreeTypeOK
<1>3. Control
  BY <1>1 DEF Control
<1>4. Ancestry
  BY DEF Ancestry
<1>5. TopDown /\ Stopping /\ Finding
  BY <1>1 DEF TopDown, Stopping, Finding, NoOrphans, LeftoversAreLate
<1>6. QED
  BY <1>2, <1>3, <1>4, <1>5 DEF IInv

-----------------------------------------------------------------------------
(* The server: whatever runs and is started, the list is not touched.      *)

LEMMA Spawning ==
  ASSUME IInv, NEW s \in Sessions, NEW child \in Sessions, Spawn(s, child)
  PROVE  IInv'
<1> USE DEF IInv
<1>1. /\ s \in live /\ child \notin born /\ s # child
      /\ born' = born \cup {child} /\ live' = live \cup {child}
      /\ running' = running \cup {child}
      /\ parent' = [parent EXCEPT ![child] = s]
      /\ late' \in {late, late \cup {child}}
      /\ s \in Listed \cup late => child \in late'
      /\ UNCHANGED <<stopping, prompts, reset, stubborn, gaveUp, resumed, undeleted, Queued, Listed>>
  BY DEF Spawn, TreeTypeOK, reset, Queued, Listed, Range
<1>2. /\ parent \in [Sessions -> Sessions] /\ live \subseteq born /\ born \subseteq Sessions
      /\ late \subseteq born /\ Listed \subseteq born /\ Queued \subseteq born /\ Root \in born
  BY DEF TreeTypeOK, Control
<1>3. parent'[child] = s /\ \A t \in born : parent'[t] = parent[t]
  BY <1>1, <1>2
<1>4. TreeTypeOK'
  BY <1>1, <1>2 DEF TreeTypeOK, reset
<1>5. Control'
  <2>1. known => s \notin Listed \cup late
    BY DEF Control, Listed
  <2>2. known => late' = {} /\ live' = born'
    BY <2>1, <1>1 DEF Control, Spawn
  <2>3. QED
    BY <2>2, <1>1, <1>2 DEF Control, reset
<1>6. Ancestry'
  <2>1. \A t \in born' : parent'[t] \in born'
    BY <1>1, <1>2, <1>3 DEF Ancestry
  <2>2. ASSUME NEW S \in SUBSET (born' \ {Root}), S # {}  PROVE \E t \in S : parent'[t] \notin S
    <3>1. CASE S \ {child} = {}
      BY <3>1, <2>2, <1>1, <1>3
    <3>2. CASE S \ {child} # {}
      <4>1. PICK t \in S \ {child} : parent[t] \notin S \ {child}
        BY <3>2, <1>1 DEF Ancestry
      <4>2. t \in born /\ parent[t] \in born /\ parent[t] # child
        BY <4>1, <1>1 DEF Ancestry
      <4>3. QED
        BY <4>1, <4>2, <1>3
    <3>3. QED
      BY <3>1, <3>2
  <2>3. QED
    BY <2>1, <2>2 DEF Ancestry
<1>7. TopDown'
  <2>1. \A k \in DOMAIN ids : ids[k] \in born
    BY <1>2 DEF Listed
  <2>2. NoOrphans => NoOrphans'
    BY <1>1, <1>2, <1>3 DEF NoOrphans, reset
  <2>3. QED
    BY <2>1, <2>2, <1>1, <1>2, <1>3 DEF TopDown, reset
<1>8. Stopping'
  <2>1. \A k \in DOMAIN ids : ids[k] # child
    BY <1>1, <1>2 DEF Listed
  <2>2. QED
    BY <2>1, <1>1, <1>2 DEF Stopping, Stopped, reset
<1>9. Finding'
  <2>1. \A k \in DOMAIN ids : ids[k] # child
    BY <1>1, <1>2 DEF Listed
  <2>2. LeftoversAreLate'
    BY <1>1 DEF Finding, LeftoversAreLate, reset
  <2>3. QED
    BY <2>1, <2>2, <1>1, <1>2, <1>3 DEF Finding, reset
<1>10. QED
  BY <1>4, <1>5, <1>6, <1>7, <1>8, <1>9

\* A step of the server on a session: only who runs, and who is to stop,
\* changes, and a run that the abort did not ask is the root's.
LEMMA RunningOnly ==
  ASSUME IInv, running' \subseteq running \cup {Root}, running' \subseteq live,
         stopping' \subseteq running', prompts' \in 0..MaxPrompts,
         resumed' \in BOOLEAN, resumed => resumed',
         \A s \in running' :
             \/ s \in running /\ (s \in stopping => s \in stopping')
             \/ s = Root /\ (Asked(Root) => resumed'),
         UNCHANGED <<born, live, parent, reset, late, stubborn, gaveUp, undeleted>>
  PROVE  IInv'
<1> USE DEF IInv, reset
<1>1. UNCHANGED <<Queued, Listed>>
  BY DEF Queued, Listed, Range
<1>2. TreeTypeOK' /\ Control' /\ Ancestry'
  BY <1>1 DEF TreeTypeOK, Control, Ancestry
<1>3. TopDown' /\ Finding'
  BY <1>1 DEF TopDown, Finding, NoOrphans, LeftoversAreLate
<1>4. Stopping'
  <2>1. ASSUME NEW k \in DOMAIN ids,
               phase \in {"wait", "delete"} \/ (phase = "abort" /\ k < i)
        PROVE  Stopped(ids[k])'
    <3>1. Stopped(ids[k]) /\ Asked(ids[k])
      BY <2>1 DEF Stopping, Asked
    <3>2. QED
      BY <3>1 DEF Stopped
  <2>2. ASSUME phase = "delete", Root \in Listed \cap running'  PROVE gaveUp \/ resumed'
    <3>1. Asked(Root)
      BY <2>2 DEF Asked, Listed
    <3>2. QED
      BY <2>2, <3>1 DEF Stopping
  <2>3. QED
    BY <2>1, <2>2, <1>1 DEF Stopping
<1>5. QED
  BY <1>2, <1>3, <1>4

-----------------------------------------------------------------------------
(* The reset.                                                              *)

LEMMA Beginning ==
  ASSUME IInv, Begin
  PROVE  IInv'
<1> USE DEF IInv, Begin, server, history
<1>1. /\ Queued' = {Root} /\ Listed' = {} /\ todo' \in Seq(Sessions)
      /\ ids = <<>> /\ ids' = <<>> /\ Len(ids) = 0 /\ late = {} /\ live = born /\ Root \in born
      /\ answers = <<>> /\ Len(answers) = 0 /\ MaxAttempts > 0
  BY DEF Control, Queued, Listed, Range
<1>2. TreeTypeOK'
  BY <1>1 DEF TreeTypeOK
<1>3. Control'
  BY <1>1 DEF Control
<1>4. Ancestry'
  BY DEF Ancestry
<1>5. TopDown' /\ Stopping'
  BY <1>1 DEF TopDown, Stopping
<1>6. Finding'
  BY <1>1 DEF Finding, LeftoversAreLate, Ancestry
<1>7. QED
  BY <1>2, <1>3, <1>4, <1>5, <1>6

\* What a reset that ends leaves is as it was; only a complete one says so.
LEMMA Replying ==
  ASSUME IInv, NEW success \in BOOLEAN, Reply(success), ~known,
         success => live \subseteq late \/ answers # <<>>,
         phase = "idle" \/ NoOrphans, Len(answers) < MaxAttempts,
         UNCHANGED <<server, known, todo, ids, i, errors, history>>
  PROVE  IInv'
<1> USE DEF IInv, Reply, server, history
<1> DEFINE answer == IF success THEN "fresh" ELSE "failed"
<1>1. /\ answers' \in Seq({"fresh", "failed"}) /\ answers' # <<>>
      /\ Len(answers') = Len(answers) + 1
      /\ answers = <<>> => answers'[1] = answer
      /\ Len(answers) \in Nat /\ (Len(answers) = 0 => answers = <<>>)
  BY AppendProperties, LenProperties DEF TreeTypeOK
<1>2. UNCHANGED <<Queued, Listed>>
  BY DEF Queued, Listed, Range
<1>3. TreeTypeOK' /\ Control' /\ Ancestry'
  <2>1. TreeTypeOK'
    BY <1>1 DEF TreeTypeOK
  <2>2. Control'
    BY <1>1, <1>2 DEF Control
  <2>3. QED
    BY <2>1, <2>2 DEF Ancestry
<1>4. NoOrphans'
  BY <1>2 DEF TopDown, NoOrphans
<1>5. TopDown' /\ Stopping'
  BY <1>2, <1>4 DEF TopDown, Stopping
<1>6. Finding'
  BY <1>1 DEF Finding, LeftoversAreLate
<1>7. QED
  BY <1>3, <1>5, <1>6

LEMMA NotReset ==
  ASSUME IInv, NothingToReset
  PROVE  IInv'
BY Replying DEF IInv, NothingToReset, Control

LEMMA ListFailing ==
  ASSUME IInv, ListFails
  PROVE  IInv'
<1> USE DEF IInv
<1>1. answers = <<>> /\ Len(answers) = 0 /\ MaxAttempts > 0 /\ ~known
  BY DEF ListFails, Control
<1>2. NoOrphans
  BY DEF ListFails, TopDown, NoOrphans, Listed
<1>3. QED
  BY <1>1, <1>2, Replying DEF ListFails

LEMMA RangeOfConcat ==
  ASSUME NEW a \in Seq(Sessions), NEW b \in Seq(Sessions)
  PROVE  Range(a \o b) = Range(a) \cup Range(b)
<1>1. /\ DOMAIN (a \o b) = 1..Len(a) + Len(b) /\ DOMAIN a = 1..Len(a) /\ DOMAIN b = 1..Len(b)
      /\ Len(a) \in Nat /\ Len(b) \in Nat
      /\ \A k \in 1..Len(a) + Len(b) : (a \o b)[k] = IF k <= Len(a) THEN a[k] ELSE b[k - Len(a)]
  BY ConcatProperties, LenProperties
<1>2. ASSUME NEW k \in DOMAIN (a \o b)  PROVE (a \o b)[k] \in Range(a) \cup Range(b)
  BY <1>1 DEF Range
<1>3. ASSUME NEW k \in DOMAIN a  PROVE k \in DOMAIN (a \o b) /\ (a \o b)[k] = a[k]
  BY <1>1
<1>4. ASSUME NEW k \in DOMAIN b
      PROVE  k + Len(a) \in DOMAIN (a \o b) /\ (a \o b)[k + Len(a)] = b[k]
  BY <1>1
<1>5. Range(a \o b) \subseteq Range(a) \cup Range(b)
  BY <1>2 DEF Range
<1>6. Range(a) \subseteq Range(a \o b)
  BY <1>3 DEF Range
<1>7. Range(b) \subseteq Range(a \o b)
  BY <1>4 DEF Range
<1>8. QED
  BY <1>5, <1>6, <1>7

\* The session at the head of the queue is listed, or was already.
VisitOf(s) ==
    /\ todo' \in Seq(Sessions)
    /\ \/ /\ s \in Listed /\ ids' = ids
          /\ Queued' \subseteq Queued /\ Queued \subseteq Queued' \cup {s}
       \/ /\ s \notin Listed /\ ids' = Append(ids, s)
          /\ Queued' \subseteq Queued \cup Children(s)
          /\ Queued \cup Children(s) \subseteq Queued' \cup {s}

LEMMA VisitsOne ==
  ASSUME IInv, Visit
  PROVE  \E s \in Queued : VisitOf(s)
<1> USE DEF IInv
<1> DEFINE s == Head(todo)
<1>1. /\ todo \in Seq(Sessions) /\ todo # <<>> /\ s \in Sessions
      /\ Tail(todo) \in Seq(Sessions) /\ todo = <<s>> \o Tail(todo)
  BY HeadTailProperties, HeadTailAppend DEF Visit, TreeTypeOK
<1>2. <<s>> \in Seq(Sessions) /\ Range(<<s>>) = {s}
  BY <1>1 DEF Range
<1>3. Queued = {s} \cup Range(Tail(todo))
  <2>1. Range(<<s>> \o Tail(todo)) = Range(<<s>>) \cup Range(Tail(todo))
    BY <1>1, <1>2, RangeOfConcat
  <2>2. QED
    BY <2>1, <1>1, <1>2 DEF Queued
<1>4. CASE s \in Listed
  <2>1. ids' = ids /\ todo' = Tail(todo)
    BY <1>4 DEF Visit
  <2>2. Queued' = Range(Tail(todo))
    BY <2>1 DEF Queued
  <2>3. VisitOf(s)
    BY <2>1, <2>2, <1>1, <1>3, <1>4 DEF VisitOf
  <2>4. QED
    BY <2>3, <1>3
<1>5. CASE s \notin Listed
  <2>1. PICK order \in Orders(Children(s)) : todo' = order \o Tail(todo)
    BY <1>5 DEF Visit
  <2>2. Children(s) \subseteq Sessions /\ Cardinality(Children(s)) \in Nat
    <3>1. Children(s) \in SUBSET Sessions
      BY DEF Children, TreeTypeOK
    <3>2. QED
      BY <3>1, FS_Subset, FS_CardinalityType
  <2>3. order \in Seq(Sessions) /\ Range(order) = Children(s)
    <3>1. order \in [1..Cardinality(Children(s)) -> Children(s)]
      BY <2>1 DEF Orders, Bijection, Injection, Surjection
    <3>2. \A c \in Children(s) : \E k \in 1..Cardinality(Children(s)) : order[k] = c
      BY <2>1 DEF Orders, Bijection, Surjection
    <3>3. Range(order) = Children(s)
      BY <3>1, <3>2 DEF Range
    <3>4. order \in [1..Cardinality(Children(s)) -> Sessions]
      BY <3>1, <2>2
    <3>5. QED
      BY <3>3, <3>4, <2>2, SeqDef
  <2>4. todo' \in Seq(Sessions) /\ Queued' = Children(s) \cup Range(Tail(todo))
    <3>1. order \o Tail(todo) \in Seq(Sessions)
      BY <2>3, <1>1, ConcatProperties
    <3>2. Range(order \o Tail(todo)) = Range(order) \cup Range(Tail(todo))
      BY <2>3, <1>1, RangeOfConcat
    <3>3. QED
      BY <3>1, <3>2, <2>1, <2>3 DEF Queued
  <2>5. ids' = Append(ids, s)
    BY <1>5 DEF Visit
  <2>6. VisitOf(s)
    BY <2>4, <2>5, <1>3, <1>5 DEF VisitOf
  <2>7. QED
    BY <2>6, <1>3
<1>6. QED
  BY <1>4, <1>5

LEMMA Visiting ==
  ASSUME IInv, Visit
  PROVE  IInv'
<1> USE DEF IInv
<1>1. phase = "list" /\ UNCHANGED <<server, known, phase, i, errors, answers, history>>
  BY DEF Visit
<1>2. PICK s \in Queued : VisitOf(s)
  BY VisitsOne
<1>3. s \in live /\ s \in born /\ s \in Sessions /\ Queued \subseteq born /\ Listed \subseteq born
  BY <1>1 DEF TopDown, TreeTypeOK, Control
<1>4. Children(s) = {c \in live \ {s} : parent[c] = s}
  BY <1>3 DEF Children
<1>5. Queued' \subseteq born /\ Queued' \subseteq live
  BY <1>1, <1>2, <1>3, <1>4 DEF VisitOf, TopDown, TreeTypeOK
<1>6. ids \in Seq(Sessions) /\ Len(ids) \in Nat /\ DOMAIN ids = 1..Len(ids) /\ i \in 0..Len(ids) + 1
  BY DEF TreeTypeOK
<1>7. /\ ids' \in Seq(Sessions) /\ DOMAIN ids' = 1..Len(ids') /\ Len(ids') \in Nat
      /\ Len(ids) <= Len(ids')
      /\ DOMAIN ids \subseteq DOMAIN ids'
      /\ \A k \in DOMAIN ids : ids'[k] = ids[k]
      /\ \A k \in DOMAIN ids' : k \in DOMAIN ids \/ (k = Len(ids) + 1 /\ ids'[k] = s /\ s \notin Listed)
      /\ Listed' = Listed \cup {s}
  <2>1. CASE ids' = ids /\ s \in Listed
    BY <2>1, <1>6 DEF Listed
  <2>2. CASE ids' = Append(ids, s) /\ s \notin Listed
    <3>1. /\ ids' \in Seq(Sessions) /\ Len(ids') = Len(ids) + 1 /\ ids'[Len(ids) + 1] = s
          /\ \A k \in 1..Len(ids) : ids'[k] = ids[k]
      BY <2>2, <1>3, <1>6, AppendProperties
    <3>2. DOMAIN ids' = 1..Len(ids) + 1
      BY <3>1
    <3>3. Listed' = Listed \cup {s}
      BY <3>1, <3>2, <1>6 DEF Listed
    <3>4. QED
      <4>1. DOMAIN ids \subseteq DOMAIN ids'
        BY <3>2, <1>6
      <4>2. QED
        BY <4>1, <3>1, <3>2, <3>3, <2>2, <1>6
  <2>3. QED
    BY <2>1, <2>2, <1>2 DEF VisitOf
<1>8. TreeTypeOK' /\ Ancestry'
  <2>1. i' \in 0..Len(ids') + 1 /\ todo' \in Seq(Sessions)
    <3>1. Len(ids') >= Len(ids) /\ Len(ids') \in Nat
      BY <1>6, <1>7
    <3>2. QED
      BY <3>1, <1>1, <1>2, <1>6 DEF VisitOf
  <2>2. TreeTypeOK'
    BY <2>1, <1>1, <1>7 DEF TreeTypeOK, server, history
  <2>3. QED
    BY <2>2, <1>1 DEF Ancestry, server
<1>9. Control'
  <2>1. \A j, k \in DOMAIN ids' : ids'[j] = ids'[k] => j = k
    <3>1. \A k \in DOMAIN ids : ids[k] \in Listed
      BY DEF Listed
    <3>2. SUFFICES ASSUME NEW j \in DOMAIN ids', NEW k \in DOMAIN ids', ids'[j] = ids'[k]
                   PROVE  j = k
      OBVIOUS
    <3>3. CASE j \in DOMAIN ids /\ k \in DOMAIN ids
      <4>1. ids[j] = ids[k]
        BY <3>2, <3>3, <1>7
      <4>2. QED
        BY <4>1, <3>3 DEF Control
    <3>4. CASE j \notin DOMAIN ids \/ k \notin DOMAIN ids
      <4>1. j = Len(ids) + 1 \/ k = Len(ids) + 1
        BY <3>4, <1>7
      <4>2. \A l \in DOMAIN ids : ids'[l] \in Listed
        BY <3>1, <1>7
      <4>3. QED
        BY <3>2, <4>2, <3>4, <1>7
    <3>5. QED
      BY <3>3, <3>4
  <2>2. QED
    BY <2>1, <1>1, <1>3, <1>5, <1>7 DEF Control, server
<1>10. TopDown'
  <2>1. ASSUME NEW k \in DOMAIN ids'
        PROVE  ids'[k] = Root \/ \E j \in DOMAIN ids' : j < k /\ ids'[j] = parent[ids'[k]]
    <3>1. CASE k \in DOMAIN ids
      <4>1. ids[k] = Root \/ \E j \in DOMAIN ids : j < k /\ ids[j] = parent[ids[k]]
        BY <3>1 DEF TopDown
      <4>2. \A j \in DOMAIN ids : j \in DOMAIN ids' /\ ids'[j] = ids[j]
        BY <1>7
      <4>3. QED
        BY <4>1, <4>2, <3>1
    <3>2. CASE k = Len(ids) + 1 /\ ids'[k] = s
      <4>1. s = Root \/ parent[s] \in Listed
        BY <1>1 DEF TopDown
      <4>2. \A j \in DOMAIN ids : j \in DOMAIN ids' /\ ids'[j] = ids[j]
        BY <1>7
      <4>3. \A j \in DOMAIN ids : j < k
        BY <3>2, <1>6
      <4>4. parent[s] \in Listed => \E j \in DOMAIN ids : ids[j] = parent[s]
        BY DEF Listed
      <4>5. QED
        BY <4>1, <4>2, <4>3, <4>4, <3>2
    <3>3. QED
      BY <3>1, <3>2, <1>7
  <2>2. \A t \in Queued' : t = Root \/ parent[t] \in Listed'
    BY <1>1, <1>2, <1>4, <1>7 DEF VisitOf, TopDown
  <2>3. QED
    BY <2>1, <2>2, <1>1, <1>3, <1>5, <1>7 DEF TopDown, server
<1>11. Stopping'
  BY <1>1 DEF Stopping
<1>12. Finding'
  <2>1. Root \in Listed' \cup Queued'
    BY <1>1, <1>2, <1>7 DEF VisitOf, Finding
  <2>2. ASSUME NEW t \in live \ (Listed' \cup late \cup Queued')
        PROVE  parent[t] \in live \ (Listed' \cup late)
    <3>1. t \notin Listed \cup late \cup Queued /\ t # s
      BY <1>2, <1>7 DEF VisitOf
    <3>2. parent[t] \in live \ (Listed \cup late)
      BY <3>1, <1>1 DEF Finding
    <3>3. parent[t] # s
      BY <3>1, <3>2, <1>2, <1>4 DEF VisitOf
    <3>4. QED
      BY <3>2, <3>3, <1>7
  <2>3. QED
    BY <2>1, <2>2, <1>1 DEF Finding, LeftoversAreLate, server, history
<1>13. QED
  BY <1>8, <1>9, <1>10, <1>11, <1>12

\* Nobody below the root is without a parent in the list, so the list is
\* complete but for what was started too late.
LEMMA Listing ==
  ASSUME IInv, AllListed
  PROVE  IInv'
<1> USE DEF IInv
<1>1. /\ phase = "list" /\ phase' = "abort" /\ i' = 1 /\ todo = <<>>
      /\ UNCHANGED <<server, known, todo, ids, errors, answers, history, Queued, Listed>>
  BY DEF AllListed, Queued, Listed, Range
<1>2. Queued = {}
  BY <1>1 DEF Queued, Range
<1>3. live \subseteq Listed \cup late
  <2> DEFINE U == live \ (Listed \cup late)
  <2>1. U \in SUBSET (born \ {Root})
    BY <1>1, <1>2 DEF Finding, TreeTypeOK
  <2>2. \A s \in U : parent[s] \in U
    BY <1>1, <1>2 DEF Finding
  <2>3. U = {}
    BY <2>1, <2>2 DEF Ancestry
  <2>4. QED
    BY <2>3
<1>4. Len(ids) \in Nat
  BY DEF TreeTypeOK
<1>5. TreeTypeOK' /\ Control' /\ Ancestry'
  <2>1. TreeTypeOK'
    BY <1>1, <1>4 DEF TreeTypeOK, server, history
  <2>2. Control'
    BY <1>1 DEF Control, server, history
  <2>3. QED
    BY <2>1, <2>2, <1>1 DEF Ancestry, server
<1>6. TopDown' /\ Stopping'
  BY <1>1, <1>4 DEF TopDown, Stopping, server, history
<1>7. Finding'
  BY <1>1, <1>3 DEF Finding, LeftoversAreLate, server, history
<1>8. QED
  BY <1>5, <1>6, <1>7

LEMMA Aborting ==
  ASSUME IInv, NEW outcome \in Outcomes, Abort(outcome)
  PROVE  IInv'
<1> USE DEF IInv
<1>1. /\ phase = "abort" /\ i <= Len(ids) /\ i' = i + 1
      /\ errors' \in BOOLEAN
      /\ stopping \subseteq stopping' /\ stopping' \subseteq stopping \cup running
      /\ stubborn \subseteq stubborn' /\ stubborn' \subseteq stubborn \cup {ids[i]}
      /\ ids[i] \notin running \/ ids[i] \in stopping' \/ ids[i] \in stubborn'
      /\ UNCHANGED <<born, live, running, parent, prompts, known, phase, todo, ids, answers, late,
                     gaveUp, resumed, undeleted, Queued, Listed>>
  BY DEF Abort, Queued, Listed, Range
<1>2. /\ Len(ids) \in Nat /\ i \in 1..Len(ids) /\ DOMAIN ids = 1..Len(ids)
      /\ \A k \in DOMAIN ids : ids[k] \in Sessions
  BY <1>1 DEF TreeTypeOK, Control
<1>3. TreeTypeOK' /\ Control' /\ Ancestry'
  <2>1. TreeTypeOK'
    BY <1>1, <1>2 DEF TreeTypeOK
  <2>2. Control'
    BY <1>1, <1>2 DEF Control
  <2>3. QED
    BY <2>1, <2>2, <1>1 DEF Ancestry
<1>4. TopDown' /\ Finding'
  BY <1>1 DEF TopDown, Finding, LeftoversAreLate
<1>5. Stopping'
  <2>1. SUFFICES ASSUME NEW k \in DOMAIN ids, k < i + 1  PROVE Stopped(ids[k])'
    BY <1>1 DEF Stopping
  <2>2. CASE k = i
    BY <2>2, <1>1 DEF Stopped
  <2>3. CASE k < i
    <3>1. Stopped(ids[k])
      BY <2>3, <1>1 DEF Stopping
    <3>2. QED
      BY <3>1, <1>1 DEF Stopped
  <2>4. QED
    BY <2>1, <2>2, <2>3, <1>2
<1>6. QED
  BY <1>3, <1>4, <1>5

\* Steps between the calls: abort, wait and delete follow one another.
LEMMA Proceeding ==
  ASSUME IInv, AllAborted \/ RootIsIdle \/ WaitTimesOut \/ WaitFails
  PROVE  IInv'
<1> USE DEF IInv
<1>1. /\ phase \in {"abort", "wait"} /\ phase' \in {"wait", "delete"}
      /\ phase = "abort" => i > Len(ids)
      /\ phase' = "wait" => i' = i
      /\ phase' = "delete" => i' = Len(ids)
      /\ errors' \in BOOLEAN /\ gaveUp' \in BOOLEAN
      /\ phase' = "delete" => Root \notin running \/ gaveUp'
      /\ UNCHANGED <<server, known, todo, ids, answers, late, stubborn, resumed, undeleted,
                     Queued, Listed>>
  BY DEF AllAborted, RootIsIdle, WaitTimesOut, WaitFails, EndWait, history, Queued, Listed, Range,
     TreeTypeOK
<1>2. Len(ids) \in Nat /\ DOMAIN ids = 1..Len(ids) /\ i \in 0..Len(ids) + 1
  BY DEF TreeTypeOK
<1>3. TreeTypeOK' /\ Control' /\ Ancestry'
  <2>1. TreeTypeOK'
    BY <1>1, <1>2 DEF TreeTypeOK, server
  <2>2. Control'
    BY <1>1, <1>2 DEF Control, server
  <2>3. QED
    BY <2>1, <2>2, <1>1 DEF Ancestry, server
<1>4. TopDown'
  BY <1>1, <1>2 DEF TopDown, Listed, server
<1>5. Stopping'
  BY <1>1, <1>2 DEF Stopping, Stopped, server
<1>6. Finding'
  BY <1>1, <1>2 DEF Finding, LeftoversAreLate, server
<1>7. QED
  BY <1>3, <1>4, <1>5, <1>6

LEMMA Deleting ==
  ASSUME IInv, NEW outcome \in Outcomes, Delete(outcome)
  PROVE  IInv'
<1> USE DEF IInv
<1>1. /\ phase = "delete" /\ i > 0 /\ i' = i - 1
      /\ errors' \in BOOLEAN /\ (~errors' => ~errors)
      /\ running' \subseteq running /\ stopping' = stopping \cap running' /\ live' \subseteq live
      /\ live \subseteq live' \cup {ids[i]} /\ undeleted \subseteq undeleted'
      /\ undeleted' \subseteq undeleted \cup {ids[i]}
      /\ ids[i] \notin live' \/ (ids[i] \in undeleted' /\ errors')
      /\ UNCHANGED <<born, parent, prompts, known, phase, todo, ids, answers, late, stubborn,
                     gaveUp, resumed, Queued, Listed>>
  BY DEF Delete, Queued, Listed, Range
<1>2. /\ Len(ids) \in Nat /\ i \in 1..Len(ids) /\ DOMAIN ids = 1..Len(ids)
      /\ \A k \in DOMAIN ids : ids[k] \in Sessions
  BY <1>1 DEF TreeTypeOK, Control
<1>3. running' \subseteq live'
  BY DEF Delete, TreeTypeOK
<1>4. TreeTypeOK' /\ Control' /\ Ancestry'
  <2>1. TreeTypeOK'
    BY <1>1, <1>2, <1>3 DEF TreeTypeOK
  <2>2. Control'
    BY <1>1, <1>2 DEF Control
  <2>3. QED
    BY <2>1, <2>2, <1>1 DEF Ancestry
<1>5. TopDown'
  <2>1. ASSUME NEW k \in DOMAIN ids
        PROVE  IF k <= i - 1 THEN ids[k] \in live' ELSE ids[k] \notin live' \/ ids[k] \in undeleted'
    <3>1. CASE k < i
      <4>1. ids[k] \in live
        BY <3>1, <1>1, <1>2 DEF TopDown
      <4>2. ids[k] # ids[i]
        BY <3>1, <1>2 DEF Control
      <4>3. QED
        BY <3>1, <4>1, <4>2, <1>1, <1>2
    <3>2. CASE k = i
      BY <3>2, <1>1, <1>2
    <3>3. CASE k > i
      <4>1. ids[k] \notin live \/ ids[k] \in undeleted
        BY <3>3, <1>1, <1>2 DEF TopDown
      <4>2. QED
        BY <3>3, <4>1, <1>1, <1>2
    <3>4. QED
      BY <3>1, <3>2, <3>3, <1>2
  <2>2. QED
    BY <2>1, <1>1 DEF TopDown
<1>6. Stopping'
  BY <1>1 DEF Stopping, Stopped
<1>7. Finding'
  <2>1. ASSUME ~errors', NEW k \in DOMAIN ids, k > i - 1  PROVE ids[k] \notin live'
    <3>1. CASE k = i
      BY <3>1, <2>1, <1>1
    <3>2. CASE k > i
      BY <3>2, <2>1, <1>1 DEF Finding
    <3>3. QED
      BY <3>1, <3>2, <2>1, <1>2
  <2>2. LeftoversAreLate'
    BY <1>1 DEF Finding, LeftoversAreLate
  <2>3. QED
    BY <2>1, <2>2, <1>1 DEF Finding
<1>8. QED
  BY <1>4, <1>5, <1>6, <1>7

LEMMA AfterDeleting ==
  ASSUME IInv, AllDeleted
  PROVE  IInv'
<1> USE DEF IInv
<1>1. /\ phase = "delete" /\ i = 0 /\ Reply(~errors)
      /\ answers = <<>> /\ Len(answers) = 0 /\ MaxAttempts > 0 /\ ~known
      /\ UNCHANGED <<server, known, todo, ids, i, errors, history>>
  BY DEF AllDeleted, Control
<1>2. DOMAIN ids = 1..Len(ids) /\ Len(ids) \in Nat
  BY DEF TreeTypeOK
<1>3. NoOrphans
  BY <1>1, <1>2 DEF TopDown, NoOrphans, Listed
<1>4. ~errors => live \subseteq late
  BY <1>1, <1>2 DEF Finding, Listed
<1>5. QED
  BY <1>1, <1>3, <1>4, Replying

-----------------------------------------------------------------------------
LEMMA Step ==
  ASSUME IInv, [Next]_vars
  PROVE  IInv'
<1>1. CASE UNCHANGED vars
  <2>1. UNCHANGED <<running, stopping, prompts, born, live, parent, reset, history>>
    BY <1>1 DEF vars, server
  <2>2. QED
    BY <2>1, RunningOnly DEF IInv, TreeTypeOK, history
<1>2. CASE ResetStep
  <2>1. CASE Begin \/ NothingToReset
    BY <2>1, Beginning, NotReset
  <2>2. CASE Visit \/ ListFails \/ AllListed
    BY <2>2, Visiting, ListFailing, Listing
  <2>3. CASE \E outcome \in Outcomes : Abort(outcome) \/ Delete(outcome)
    BY <2>3, Aborting, Deleting
  <2>4. CASE AllAborted \/ RootIsIdle \/ WaitTimesOut \/ WaitFails
    BY <2>4, Proceeding
  <2>5. CASE AllDeleted
    BY <2>5, AfterDeleting
  <2>6. QED
    BY <1>2, <2>1, <2>2, <2>3, <2>4, <2>5 DEF ResetStep
<1>3. CASE Prompt
  <2>1. /\ running' \subseteq running \cup {Root} /\ running' \subseteq live
        /\ stopping' \subseteq running' /\ prompts' \in 0..MaxPrompts
        /\ resumed' \in BOOLEAN /\ (resumed => resumed') /\ (Asked(Root) => resumed')
        /\ \A s \in running' : s = Root \/ (s \in running /\ (s \in stopping => s \in stopping'))
        /\ UNCHANGED <<born, live, parent, reset, late, stubborn, gaveUp, undeleted>>
    <3>1. /\ running' = running \cup {Root} /\ stopping' = stopping \ {Root}
          /\ Root \in live /\ running \subseteq live /\ stopping \subseteq running
          /\ prompts < MaxPrompts /\ prompts \in 0..MaxPrompts /\ prompts' = prompts + 1
          /\ resumed \in BOOLEAN /\ resumed' = (resumed \/ Asked(Root))
          /\ UNCHANGED <<born, live, parent, reset, late, stubborn, gaveUp, undeleted>>
      BY <1>3 DEF Prompt, IInv, TreeTypeOK
    <3>2. prompts' \in 0..MaxPrompts
      BY <3>1
    <3>3. resumed' \in BOOLEAN /\ (resumed => resumed') /\ (Asked(Root) => resumed')
      BY <3>1, Zenon
    <3>4. QED
      BY <3>1, <3>2, <3>3
  <2>2. QED
    BY <2>1, RunningOnly
<1>4. ASSUME NEW s \in Sessions, Finish(s)  PROVE IInv'
  <2>1. /\ running' \subseteq running /\ running' \subseteq live
        /\ stopping' \subseteq running' /\ prompts' \in 0..MaxPrompts
        /\ resumed' \in BOOLEAN /\ (resumed => resumed')
        /\ \A t \in running' : t \in running /\ (t \in stopping => t \in stopping')
        /\ UNCHANGED <<born, live, parent, reset, late, stubborn, gaveUp, undeleted>>
    BY <1>4 DEF Finish, IInv, TreeTypeOK, history
  <2>2. QED
    BY <2>1, RunningOnly
<1>5. ASSUME NEW s \in Sessions, NEW child \in Sessions, Spawn(s, child)  PROVE IInv'
  BY <1>5, Spawning
<1>6. QED
  BY <1>1, <1>2, <1>3, <1>4, <1>5 DEF Next

THEOREM Invariance == Spec => []IInv
BY Initially, Step, PTL DEF Spec

(***************************************************************************)
(* The variables have the types TreeTypeOK gives them.                     *)
(***************************************************************************)
THEOREM TreeTypeCorrect == Spec => []TreeTypeOK
<1>1. IInv => TreeTypeOK
  BY DEF IInv
<1>2. QED
  BY <1>1, Invariance, PTL

(***************************************************************************)
(* A first reset that succeeds leaves only sessions that were started      *)
(* below one already listed, whatever the tree and however it grew.        *)
(***************************************************************************)
THEOREM FirstResetCleansUp == Spec => []LeftoversAreLate
<1>1. IInv => LeftoversAreLate
  BY DEF IInv, Finding
<1>2. QED
  BY <1>1, Invariance, PTL

(***************************************************************************)
(* No session of the list is left on the server without its parent, unless *)
(* its own deletion was refused: at any moment of the reset.               *)
(***************************************************************************)
THEOREM LeavesNoOrphans == Spec => []NoOrphans
<1>1. ASSUME IInv  PROVE NoOrphans
  <2>1. DOMAIN ids = 1..Len(ids) /\ Len(ids) \in Nat /\ i \in Nat
    BY <1>1 DEF IInv, TreeTypeOK
  <2>2. CASE phase = "idle"
    BY <1>1, <2>2 DEF IInv, TopDown
  <2>3. CASE phase \in {"list", "abort", "wait"}
    BY <1>1, <2>3 DEF IInv, TopDown, NoOrphans, Listed
  <2>4. CASE phase = "delete"
    <3>1. SUFFICES ASSUME NEW k \in DOMAIN ids, ids[k] \in live
                   PROVE  ids[k] = Root \/ parent[ids[k]] \in live \/ ids[k] \in undeleted
      BY DEF NoOrphans, Listed
    <3>2. CASE k <= i
      <4>1. \A j \in DOMAIN ids : j < k => ids[j] \in live
        BY <1>1, <2>1, <2>4, <3>2 DEF IInv, TopDown
      <4>2. QED
        BY <1>1, <4>1 DEF IInv, TopDown
    <3>3. CASE k > i
      BY <1>1, <2>1, <2>4, <3>1, <3>3 DEF IInv, TopDown
    <3>4. QED
      BY <3>2, <3>3, <2>1
  <2>5. QED
    BY <1>1, <2>2, <2>3, <2>4 DEF IInv, TreeTypeOK
<1>2. QED
  BY <1>1, Invariance, PTL

(***************************************************************************)
(* A session is deleted under a run only if that run was asked to stop, if *)
(* asking failed, or if it is the root's and began after the abort; the    *)
(* root under a run that was asked only once the wait for it was given up. *)
(* Runs may take any time to end, however large the tree.                  *)
(***************************************************************************)
THEOREM AsksBeforeDeleting == Spec => AskedBeforeDeleted
<1> DEFINE Kept ==
      \A s \in running \ live' :
          \/ s \in stubborn
          \/ s \in stopping /\ (s = Root => gaveUp)
          \/ s = Root /\ resumed
<1>1. ASSUME IInv, [Next]_vars  PROVE Kept
  <2>1. CASE \E outcome \in Outcomes : Delete(outcome)
    <3>1. i \in DOMAIN ids /\ phase = "delete" /\ live \ live' \subseteq {ids[i]}
      BY <1>1, <2>1 DEF IInv, TreeTypeOK, Control, Delete
    <3>2. Stopped(ids[i]) /\ (ids[i] = Root /\ Root \in running => gaveUp \/ resumed)
      BY <1>1, <3>1 DEF IInv, Stopping, Listed
    <3>3. running \ live' \subseteq {ids[i]}
      BY <1>1, <3>1 DEF IInv, TreeTypeOK
    <3>4. QED
      BY <3>2, <3>3 DEF Stopped
  <2>2. CASE ~(\E outcome \in Outcomes : Delete(outcome))
    <3>1. live \subseteq live'
      BY <1>1, <2>2 DEF Next, ResetStep, vars, server, Begin, NothingToReset, Visit, ListFails,
           AllListed, Abort, AllAborted, RootIsIdle, WaitTimesOut, WaitFails, EndWait,
           AllDeleted, Prompt, Finish, Spawn
    <3>2. QED
      BY <1>1, <3>1 DEF IInv, TreeTypeOK
  <2>3. QED
    BY <2>1, <2>2
<1>2. ASSUME IInv, [Next]_vars  PROVE [Kept]_vars
  BY <1>1, <1>2
<1>3. QED
  BY <1>2, Invariance, PTL DEF Spec, AskedBeforeDeleted
=============================================================================

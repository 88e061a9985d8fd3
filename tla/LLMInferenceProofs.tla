------------------------ MODULE LLMInferenceProofs ------------------------
(***************************************************************************)
(* For every context size, template, chat and reserve, and wherever the    *)
(* main thread's cancel_completion takes a length and stores it: the prompt*)
(* start_completion cuts out of `formatted` is inside the buffer, and      *)
(* ordered but for one interleaving; a conversation keeps its turns; and   *)
(* prev_len counts what has been fed to the cache.                         *)
(***************************************************************************)
EXTENDS LLMInference, FiniteSetTheorems, SequenceTheorems, TLAPS

(***************************************************************************)
(* A position is the number of a message and a place in its text.          *)
(***************************************************************************)
LEMMA LayoutMember ==
  ASSUME NEW msgs, NEW x
  PROVE  x \in Layout(msgs) <=>
           \E i \in 1..Len(msgs) : \E t \in 1..(Header + msgs[i].size) : x = <<i, t>>
BY DEF Layout

(***************************************************************************)
(* The layout of a chat is finite, so its length is a number.              *)
(***************************************************************************)
LEMMA LayoutFinite ==
  ASSUME NEW msgs \in Seq(Message)
  PROVE  IsFiniteSet(Layout(msgs)) /\ FormattedLen(msgs) \in Nat
<1> DEFINE box == (1..Len(msgs)) \X (1..(Header + MaxMessage))
<1>1. Len(msgs) \in Nat /\ Header \in Nat /\ MaxMessage \in Nat
  BY LenProperties, EngineAssumption
<1>2. IsFiniteSet(1..Len(msgs)) /\ IsFiniteSet(1..(Header + MaxMessage))
  BY <1>1, FS_Interval
<1>3. IsFiniteSet(box)
  BY <1>2, FS_Product
<1>4. \A i \in 1..Len(msgs) : msgs[i].size \in 0..MaxMessage
  <2>1. \A i \in 1..Len(msgs) : msgs[i] \in Message
    BY ElementOfSeq
  <2> QED BY <2>1 DEF Message
<1>5. \A i \in 1..Len(msgs) :
        1..(Header + msgs[i].size) \subseteq 1..(Header + MaxMessage)
  BY <1>1, <1>4
<1>6. Layout(msgs) \in SUBSET box
  BY <1>5 DEF Layout
<1> QED BY <1>3, <1>6, FS_Subset, FS_CardinalityType DEF FormattedLen

(***************************************************************************)
(* An empty chat takes no room.                                            *)
(***************************************************************************)
LEMMA LayoutEmpty == FormattedLen(<<>>) = 0
<1>1. Layout(<<>>) = {}
  BY DEF Layout
<1> QED BY <1>1, FS_EmptySet DEF FormattedLen

(***************************************************************************)
(* The first messages of a chat take no more room than the chat.           *)
(***************************************************************************)
LEMMA PrefixLen ==
  ASSUME NEW msgs \in Seq(Message), NEW k \in 0..Len(msgs)
  PROVE  /\ SubSeq(msgs, 1, k) \in Seq(Message)
         /\ FormattedLen(SubSeq(msgs, 1, k)) \in Nat
         /\ FormattedLen(SubSeq(msgs, 1, k)) <= FormattedLen(msgs)
<1> DEFINE p == SubSeq(msgs, 1, k)
<1>1. Len(msgs) \in Nat
  BY LenProperties
<1>2. \A i \in 1..k : msgs[i] \in Message
  BY <1>1, ElementOfSeq
<1>3. p \in Seq(Message) /\ Len(p) = k /\ \A i \in 1..k : p[i] = msgs[i]
  BY <1>1, <1>2, SubSeqProperties
<1>4. Layout(p) \in SUBSET Layout(msgs)
  BY <1>1, <1>3 DEF Layout
<1>5. Cardinality(Layout(p)) <= Cardinality(Layout(msgs))
  BY <1>4, LayoutFinite, FS_Subset
<1> QED BY <1>3, <1>5, LayoutFinite DEF FormattedLen

(***************************************************************************)
(* Appending a message leaves the first ones where they were.              *)
(***************************************************************************)
LEMMA AppendPrefix ==
  ASSUME NEW msgs \in Seq(Message), NEW m \in Message, NEW k \in 0..Len(msgs)
  PROVE  SubSeq(Append(msgs, m), 1, k) = SubSeq(msgs, 1, k)
<1> DEFINE a == Append(msgs, m)
<1>1. Len(msgs) \in Nat /\ a \in Seq(Message) /\ Len(a) = Len(msgs) + 1
  BY LenProperties, AppendProperties
<1>2. \A i \in 1..Len(msgs) : a[i] = msgs[i]
  BY AppendProperties
<1>3. \A i \in 1..k : msgs[i] \in Message /\ a[i] \in Message
  BY <1>1, <1>2, ElementOfSeq
<1>4. /\ SubSeq(a, 1, k) \in Seq(Message) /\ Len(SubSeq(a, 1, k)) = k
      /\ \A i \in 1..k : SubSeq(a, 1, k)[i] = a[i]
  BY <1>1, <1>3, SubSeqProperties
<1>5. /\ SubSeq(msgs, 1, k) \in Seq(Message) /\ Len(SubSeq(msgs, 1, k)) = k
      /\ \A i \in 1..k : SubSeq(msgs, 1, k)[i] = msgs[i]
  BY <1>1, <1>3, SubSeqProperties
<1> QED BY <1>1, <1>2, <1>4, <1>5, SeqEqual

(***************************************************************************)
(* A chat made of distinct messages of another one takes no more room.     *)
(***************************************************************************)
LEMMA SelectionLen ==
  ASSUME NEW s \in Seq(Message), NEW t \in Seq(Message),
         NEW g \in [1..Len(s) -> 1..Len(t)],
         \A i \in 1..Len(s) : s[i] = t[g[i]],
         \A i, j \in 1..Len(s) : g[i] = g[j] => i = j
  PROVE  FormattedLen(s) <= FormattedLen(t)
<1> DEFINE f == [x \in Layout(s) |-> <<g[x[1]], x[2]>>]
<1>1. ASSUME NEW x \in Layout(s)
      PROVE  /\ x = <<x[1], x[2]>> /\ x[1] \in 1..Len(s)
             /\ f[x] \in Layout(t)
  <2>1. PICK i \in 1..Len(s) : \E p \in 1..(Header + s[i].size) : x = <<i, p>>
    BY LayoutMember
  <2>2. PICK p \in 1..(Header + s[i].size) : x = <<i, p>>
    BY <2>1
  <2>3. g[i] \in 1..Len(t) /\ p \in 1..(Header + t[g[i]].size)
    BY <2>2
  <2>4. <<g[i], p>> \in Layout(t)
    BY <2>3, LayoutMember
  <2> QED BY <2>2, <2>4
<1>2. ASSUME NEW x \in Layout(s), NEW y \in Layout(s), f[x] = f[y]
      PROVE  x = y
  <2>1. g[x[1]] = g[y[1]] /\ x[2] = y[2]
    BY <1>2
  <2>2. x[1] = y[1]
    BY <1>1, <2>1
  <2>3. x = <<x[1], x[2]>> /\ y = <<y[1], y[2]>>
    BY <1>1
  <2> HIDE DEF f
  <2> QED BY <2>1, <2>2, <2>3
<1>3. f \in Injection(Layout(s), Layout(t))
  BY <1>1, <1>2 DEF Injection, IsInjective
<1> HIDE DEF f
<1> QED BY <1>3, LayoutFinite, FS_Injection DEF FormattedLen

(***************************************************************************)
(* What a truncation leaves: the first message and the last ones.          *)
(***************************************************************************)
LEMMA KeptElements ==
  ASSUME NEW msgs \in Seq(Message), Len(msgs) > MessagesToKeep
  PROVE  /\ Kept(msgs) \in Seq(Message) /\ Len(Kept(msgs)) = MessagesToKeep
         /\ Kept(msgs)[1] = msgs[1]
         /\ \A i \in 2..MessagesToKeep :
              Kept(msgs)[i] = msgs[i + (Len(msgs) - MessagesToKeep)]
<1> DEFINE from == Len(msgs) - MessagesToKeep + 2
           tail == SubSeq(msgs, from, Len(msgs))
<1>1. Len(msgs) \in Nat /\ MessagesToKeep \in Nat \ {0, 1}
  BY LenProperties, EngineAssumption
<1>2. Kept(msgs) = <<msgs[1]>> \o tail
  BY <1>1 DEF Kept
<1>3. from \in 3..Len(msgs)
  BY <1>1
<1>4. \A i \in 1..Len(msgs) : msgs[i] \in Message
  BY ElementOfSeq
<1>5. /\ tail \in Seq(Message) /\ Len(tail) = Len(msgs) - from + 1
      /\ \A i \in 1..(Len(msgs) - from + 1) : tail[i] = msgs[from + i - 1]
  BY <1>1, <1>3, <1>4, SubSeqProperties
<1>6. <<msgs[1]>> \in Seq(Message) /\ Len(<<msgs[1]>>) = 1
  BY <1>1, <1>4
<1> HIDE DEF tail
<1>7. Kept(msgs) \in Seq(Message) /\ Len(Kept(msgs)) = MessagesToKeep
  BY <1>1, <1>2, <1>5, <1>6, ConcatProperties
<1>8. Kept(msgs)[1] = msgs[1]
  BY <1>1, <1>2, <1>5, <1>6, ConcatProperties
<1>9. \A i \in 2..MessagesToKeep : Kept(msgs)[i] = tail[i - 1]
  BY <1>1, <1>2, <1>5, <1>6, ConcatProperties
<1>10. \A i \in 2..MessagesToKeep : Kept(msgs)[i] = msgs[i + (Len(msgs) - MessagesToKeep)]
  BY <1>1, <1>3, <1>5, <1>9
<1> QED BY <1>7, <1>8, <1>10

(***************************************************************************)
(* A truncated chat takes no more room than the whole: its messages are    *)
(* distinct messages of the chat.                                          *)
(***************************************************************************)
LEMMA KeptLen ==
  ASSUME NEW msgs \in Seq(Message)
  PROVE  /\ Kept(msgs) \in Seq(Message)
         /\ FormattedLen(Kept(msgs)) <= FormattedLen(msgs)
<1>1. Len(msgs) \in Nat /\ MessagesToKeep \in Nat \ {0, 1}
  BY LenProperties, EngineAssumption
<1>2. CASE Len(msgs) <= MessagesToKeep
  <2>1. Kept(msgs) = msgs
    BY <1>1, <1>2 DEF Kept
  <2> QED BY <2>1, LayoutFinite
<1>3. CASE Len(msgs) > MessagesToKeep
  <2> DEFINE g == [i \in 1..MessagesToKeep |->
                     IF i = 1 THEN 1 ELSE i + (Len(msgs) - MessagesToKeep)]
  <2>1. Kept(msgs) \in Seq(Message) /\ Len(Kept(msgs)) = MessagesToKeep
    BY <1>3, KeptElements
  <2>2. g \in [1..Len(Kept(msgs)) -> 1..Len(msgs)]
    BY <1>1, <1>3, <2>1
  <2>3. \A i \in 1..Len(Kept(msgs)) : Kept(msgs)[i] = msgs[g[i]]
    BY <1>1, <1>3, <2>1, KeptElements
  <2>4. \A i, j \in 1..Len(Kept(msgs)) : g[i] = g[j] => i = j
    BY <1>1, <1>3, <2>1
  <2> HIDE DEF g
  <2> QED BY <2>1, <2>2, <2>3, <2>4, SelectionLen
<1> QED BY <1>1, <1>2, <1>3

-----------------------------------------------------------------------------
(***************************************************************************)
(* add_chat_message keeps the list well typed and where it was.            *)
(***************************************************************************)
LEMMA AddKeeps ==
  ASSUME messages \in Seq(Message), added \in Nat,
         NEW role \in {"system", "user", "assistant"}, NEW size \in Nat,
         AddChatMessage(role, size)
  PROVE  /\ messages' \in Seq(Message) /\ added' \in Nat
         /\ Len(messages') = Len(messages) + 1
         /\ \A k \in 0..Len(messages) :
              SubSeq(messages', 1, k) = SubSeq(messages, 1, k)
<1> DEFINE m == [role |-> role, id |-> added + 1,
                 size |-> IF size > MaxMessage THEN MaxMessage ELSE size]
<1>1. m \in Message
  BY EngineAssumption DEF Message
<1>2. messages' = Append(messages, m) /\ added' = added + 1
  BY DEF AddChatMessage
<1> HIDE DEF m
<1>3. \A k \in 0..Len(messages) :
        SubSeq(messages', 1, k) = SubSeq(messages, 1, k)
  BY <1>1, <1>2, AppendPrefix
<1> QED BY <1>1, <1>2, <1>3, AppendProperties

(***************************************************************************)
(* What cancel_completion and stop_completion store is a number.           *)
(***************************************************************************)
LEMMA LengthOfType ==
  ASSUME NEW msgs \in Seq(Message)
  PROVE  LengthOf(msgs) \in Nat
BY LayoutFinite DEF LengthOf

(***************************************************************************)
(* The batches, the cache and the stop the code starts from are well typed.*)
(***************************************************************************)
LEMMA RecordTypes ==
  /\ NullBatch \in Batch /\ CurrBatch(0) \in Batch /\ CurrBatch(1) \in Batch
  /\ EmptyCache \in Cache /\ NoStop \in Stop
BY DEF NullBatch, CurrBatch, EmptyCache, NoStop, Batch, Cache, Stop

(***************************************************************************)
(* The engine's fields keep their types.                                   *)
(***************************************************************************)
THEOREM TypeCorrect == Spec => []TypeOK
<1>1. Init => TypeOK
  <2> SUFFICES ASSUME Init PROVE TypeOK
    OBVIOUS
  <2>1. cancelled \in BOOLEAN /\ overlap \in BOOLEAN /\ stale \in BOOLEAN
    BY DEF Init
  <2>2. store_chats \in BOOLEAN /\ template \in {"known", "unknown", "missing"}
    BY EngineAssumption DEF Init
  <2>3. messages \in Seq(Message) /\ batch \in Batch /\ kv \in Cache /\ stop \in Stop
    BY RecordTypes, EmptySeq DEF Init
  <2> QED BY <2>1, <2>2, <2>3 DEF Init, TypeOK, Dead
<1>2. TypeOK /\ [Next]_vars => TypeOK'
  <2> SUFFICES ASSUME TypeOK, [Next]_vars PROVE TypeOK'
    OBVIOUS
  <2> USE DEF TypeOK
  <2>1. CASE LoadModel
    BY <2>1, EngineAssumption, RecordTypes, EmptySeq DEF LoadModel
  <2>2. CASE ReplayMessage
    <3>1. PICK role \in {"system", "user", "assistant"}, size \in Sizes :
            AddChatMessage(role, size)
      BY <2>2 DEF ReplayMessage
    <3>2. size \in Nat
      BY EngineAssumption
    <3>3. messages' \in Seq(Message) /\ added' \in Nat
      BY <3>1, <3>2, AddKeeps
    <3> QED BY <2>2, <3>3 DEF ReplayMessage
  <2>3. CASE FinishReplay
    BY <2>3 DEF FinishReplay, engine
  <2>4. CASE Close
    BY <2>4, RecordTypes, EmptySeq DEF Close, Dead
  <2>5. CASE Launch
    BY <2>5 DEF Launch, engine, Running, Starting
  <2>6. CASE UserStops
    <3>1. stop' \in Stop
      BY <2>6, LengthOfType DEF UserStops, Stop
    <3> QED BY <2>6, <3>1 DEF UserStops
  <2>7. CASE Dispatch
    BY <2>7 DEF Dispatch, engine, Running, Starting
  <2>8. CASE AddQuery
    <3>1. PICK size \in Sizes : AddChatMessage("user", size)
      BY <2>8 DEF AddQuery
    <3>2. size \in Nat
      BY EngineAssumption
    <3>3. messages' \in Seq(Message) /\ added' \in Nat
      BY <3>1, <3>2, AddKeeps
    <3>4. prev_len' \in Nat /\ stale' \in BOOLEAN /\ formattedSize' \in Nat
      <4>1. \/ prev_len' = prev_len /\ stale' = stale /\ formattedSize' = formattedSize
            \/ prev_len' = 0 /\ stale' = FALSE /\ formattedSize' = 0
        BY <2>8 DEF AddQuery
      <4>2. /\ prev_len' = prev_len \/ prev_len' = 0
            /\ formattedSize' = formattedSize \/ formattedSize' = 0
        BY <4>1
      <4>3. stale' \in BOOLEAN
        BY <4>1, Zenon
      <4> QED BY <4>2, <4>3
    <3> QED BY <2>8, <3>3, <3>4 DEF AddQuery, Running, Starting
  <2>9. CASE FormatPrompt
    <3>1. /\ PromptLen \in Nat
          /\ Kept(messages) \in Seq(Message)
          /\ FormattedLen(Kept(messages)) \in Nat
      BY KeptLen, LayoutFinite, EngineAssumption DEF PromptLen
    <3>2. formattedSize' \in Nat
      BY <2>9, <3>1 DEF FormatPrompt
    <3>3. CASE Truncate
      <4>1. messages' = Kept(messages) /\ prev_len' = 0 /\ stale' = FALSE
        BY <3>3 DEF Truncate
      <4>2. stop' \in Stop
        BY <3>3, RecordTypes DEF Truncate, Stop
      <4>3. new_len' \in Nat
        BY <2>9, <3>1, <4>1, EngineAssumption DEF FormatPrompt
      <4> QED BY <2>9, <3>1, <3>2, <4>1, <4>2, <4>3 DEF FormatPrompt, Running, Starting
    <3>4. CASE UNCHANGED <<messages, prev_len, stop, stale>> /\ new_len' = PromptLen
      BY <2>9, <3>1, <3>2, <3>4 DEF FormatPrompt, Running, Starting
    <3> QED BY <2>9, <3>3, <3>4 DEF FormatPrompt
  <2>10. CASE StartAborts
    BY <2>10, RecordTypes, EmptySeq DEF StartAborts, Dead
  <2>11. CASE BuildBatch
    <3>1. \A i \in 1..Len(messages) : messages[i] \in Message
      BY ElementOfSeq
    <3>2. Beyond(messages, prev_len) \subseteq Nat
      BY <3>1 DEF Beyond, Message
    <3>3. batch' \in Batch
      BY <2>11, <3>2 DEF BuildBatch, Batch
    <3>4. kv' \in Cache
      BY <2>11 DEF BuildBatch, Cache
    <3> QED BY <2>11, <3>3, <3>4 DEF BuildBatch, Running
  <2>12. CASE LoopFails
    <3>1. kv' \in Cache
      BY <2>12 DEF LoopFails, Cache
    <3> QED BY <2>12, <3>1 DEF LoopFails, Running
  <2>13. CASE LoopDecodes
    <3>1. PICK g \in BOOLEAN :
            kv' = [kv EXCEPT !.used = @ + batch.n, !.fed = @ + batch.reply,
                             !.seen = IF g THEN @ ELSE @ \cup batch.ids,
                             !.garbled = @ \/ g]
      BY <2>13 DEF LoopDecodes
    <3>2. kv.used + batch.n \in Nat
      <4>1. kv.used \in Nat /\ batch.n \in Int
        BY DEF Batch, Cache
      <4>2. ~(batch.n <= 0)
        BY <2>13 DEF LoopDecodes, BatchRefusal
      <4> QED BY <4>1, <4>2
    <3>3. kv.fed + batch.reply \in Nat
      BY DEF Batch, Cache
    <3>4. kv' \in Cache
      <4>1. IF g THEN kv.seen \in SUBSET Nat ELSE kv.seen \cup batch.ids \in SUBSET Nat
        BY DEF Batch, Cache
      <4> QED BY <3>1, <3>2, <3>3, <4>1 DEF Cache
    <3> QED BY <2>13, <3>4 DEF LoopDecodes, Running
  <2>14. CASE LoopOverflows
    <3>1. kv' \in Cache
      BY <2>14 DEF LoopOverflows, Cache
    <3> QED BY <2>14, <3>1 DEF LoopOverflows, Running
  <2>15. CASE LoopReturns
    <3>1. response' \in Nat
      BY <2>15 DEF LoopReturns
    <3>2. batch' \in Batch
      BY <2>15, RecordTypes DEF LoopReturns
    <3>3. piece' \in Sentinel \cup {"empty", "text", "[EOG]"}
      BY <2>15 DEF LoopReturns, Sentinel
    <3> QED BY <2>15, <3>1, <3>2, <3>3 DEF LoopReturns, Running
  <2>16. CASE Emit
    BY <2>16 DEF Emit, engine, Running
  <2>17. CASE JobCancels
    BY <2>17, LengthOfType DEF JobCancels, CancelCompletion
  <2>18. CASE JobStops
    <3>1. /\ messages' \in Seq(Message) /\ added' \in Nat
          /\ kv' \in Cache
      <4>1. CASE store_chats /\ response > 0
        <5>1. AddChatMessage("assistant", response)
          BY <2>18, <4>1 DEF JobStops, StopCompletion, AddReply
        <5>2. kv' = [kv EXCEPT !.seen = IF ~kv.refused /\ kv.fed >= response
                                         THEN @ \cup {added + 1} ELSE @]
          BY <2>18, <4>1 DEF JobStops, StopCompletion, AddReply
        <5>3. messages' \in Seq(Message) /\ added' \in Nat
          BY <5>1, AddKeeps
        <5>4. kv' \in Cache
          BY <5>2 DEF Cache
        <5> QED BY <5>3, <5>4
      <4>2. CASE ~(store_chats /\ response > 0)
        BY <2>18, <4>2 DEF JobStops, StopCompletion
      <4> QED BY <4>1, <4>2
    <3>2. LengthOf(messages)' \in Nat
      BY <2>18, <3>1, LayoutFinite DEF LengthOf, JobStops
    <3> QED BY <2>18, <3>1, <3>2 DEF JobStops, StopCompletion, LengthOf, Running
  <2>19. CASE UNCHANGED vars
    BY <2>19 DEF vars, engine
  <2>20. CASE StopStores
    BY <2>20, RecordTypes DEF StopStores, Stop
  <2> QED BY <2>1, <2>2, <2>3, <2>4, <2>5, <2>6, <2>7, <2>8, <2>9, <2>10, <2>11,
             <2>12, <2>13, <2>14, <2>15, <2>16, <2>17, <2>18, <2>19, <2>20 DEF Next, Job
<1> QED BY <1>1, <1>2, PTL DEF Spec

-----------------------------------------------------------------------------
(***************************************************************************)
(* The inductive invariant. Between FormatPrompt and BuildBatch the list   *)
(* of messages is still the one new_len was computed from, and a length    *)
(* the main thread holds is the end of a message of the chat until a       *)
(* truncation cuts it: then storing it makes prev_len stale.               *)
(***************************************************************************)
\* A length that is the end of a message, or the start of the first one
OnBoundary(len) == \E k \in 0..Len(messages) : len = FormattedLen(SubSeq(messages, 1, k))

PromptReady == phase = "batching" =>
  /\ new_len = FormattedLen(messages) + Opening
  /\ new_len <= formattedSize

StopOnBoundary == stop.storing => stop.cut \/ OnBoundary(stop.len)

IInv == PrevLenOnBoundary /\ StopOnBoundary /\ PromptReady

(***************************************************************************)
(* A prev_len just computed from the messages, or reset, is on a boundary. *)
(***************************************************************************)
LEMMA FreshOnBoundary ==
  ASSUME NEW msgs \in Seq(Message), NEW len, len = 0 \/ len = FormattedLen(msgs)
  PROVE  \E k \in 0..Len(msgs) : len = FormattedLen(SubSeq(msgs, 1, k))
<1>1. Len(msgs) \in Nat
  BY LenProperties
<1>2. CASE len = 0
  <2>1. SubSeq(msgs, 1, 0) = <<>>
    BY SubSeqEmpty
  <2>2. FormattedLen(SubSeq(msgs, 1, 0)) = FormattedLen(<<>>)
    BY <2>1, Zenon
  <2>3. 0 \in 0..Len(msgs)
    BY <1>1
  <2> QED BY <1>2, <2>2, <2>3, LayoutEmpty
<1>3. CASE len = FormattedLen(msgs)
  <2>1. SubSeq(msgs, 1, Len(msgs)) = msgs
    BY SubSeqFull
  <2>2. len = FormattedLen(SubSeq(msgs, 1, Len(msgs)))
    BY <1>3, <2>1, Zenon
  <2>3. Len(msgs) \in 0..Len(msgs)
    BY <1>1
  <2> QED BY <2>2, <2>3
<1> QED BY <1>2, <1>3

(***************************************************************************)
(* A length on a boundary lies inside the formatted chat.                  *)
(***************************************************************************)
LEMMA BoundaryBelow ==
  ASSUME messages \in Seq(Message), NEW len, OnBoundary(len)
  PROVE  len <= FormattedLen(messages)
BY PrefixLen DEF OnBoundary

(***************************************************************************)
(* Adding a message moves no boundary.                                     *)
(***************************************************************************)
LEMMA AddKeepsBoundary ==
  ASSUME messages \in Seq(Message), added \in Nat,
         NEW role \in {"system", "user", "assistant"}, NEW size \in Nat,
         AddChatMessage(role, size),
         NEW len, OnBoundary(len)
  PROVE  \E k \in 0..Len(messages') : len = FormattedLen(SubSeq(messages', 1, k))
<1>1. /\ Len(messages') = Len(messages) + 1
      /\ \A k \in 0..Len(messages) : SubSeq(messages', 1, k) = SubSeq(messages, 1, k)
  BY AddKeeps
<1>2. Len(messages) \in Nat
  BY LenProperties
<1>3. PICK k \in 0..Len(messages) : len = FormattedLen(SubSeq(messages, 1, k))
  BY DEF OnBoundary
<1>4. k \in 0..Len(messages')
  BY <1>1, <1>2
<1>5. len = FormattedLen(SubSeq(messages', 1, k))
  BY <1>1, <1>3
<1> QED BY <1>4, <1>5

(***************************************************************************)
(* Before load_model there is no prompt, no message and no stop.           *)
(***************************************************************************)
LEMMA InitIInv == Init => IInv
<1> SUFFICES ASSUME Init PROVE IInv
  OBVIOUS
<1>1. messages \in Seq(Message) /\ prev_len = 0 /\ stop.len = 0
  BY EmptySeq DEF Init, NoStop
<1>2. PrevLenOnBoundary /\ StopOnBoundary
  BY <1>1, FreshOnBoundary DEF PrevLenOnBoundary, StopOnBoundary, OnBoundary
<1>3. PromptReady
  BY DEF Init, PromptReady
<1> QED BY <1>2, <1>3 DEF IInv

(***************************************************************************)
(* Every step of the job and of the main thread keeps the boundary, and the*)
(* length of a prompt that is being built, up to date.                     *)
(***************************************************************************)
LEMMA StepIInv == TypeOK /\ TypeOK' /\ IInv /\ [Next]_vars => IInv'
<1> SUFFICES ASSUME TypeOK, TypeOK', PrevLenOnBoundary, StopOnBoundary, PromptReady,
                    [Next]_vars
             PROVE  PrevLenOnBoundary' /\ StopOnBoundary' /\ PromptReady'
  BY DEF IInv
<1>0. /\ messages \in Seq(Message) /\ messages' \in Seq(Message) /\ added \in Nat
      /\ FormattedLen(messages) \in Nat /\ FormattedLen(messages') \in Nat
      /\ Opening \in Nat /\ new_len \in Nat /\ formattedSize \in Nat /\ prev_len \in Nat
  BY LayoutFinite, EngineAssumption DEF TypeOK
\* Steps that start from, or fall back to, an empty position; none of them is for a main
\* thread that is in a stop
<1>1. CASE LoadModel \/ Close \/ StartAborts
  <2>1. prev_len' = 0 /\ phase' # "batching" /\ ~stop'.storing
    BY <1>1 DEF LoadModel, Close, StartAborts, NoStop
  <2> QED BY <1>0, <2>1, FreshOnBoundary DEF PrevLenOnBoundary, StopOnBoundary, PromptReady
\* Steps that add a message
<1>2. CASE ReplayMessage \/ AddQuery
  <2>1. PICK role \in {"system", "user", "assistant"}, size \in Sizes :
          AddChatMessage(role, size)
    BY <1>2 DEF ReplayMessage, AddQuery
  <2>2. /\ size \in Nat /\ phase' # "batching" /\ stop' = stop
        /\ (prev_len' = prev_len /\ stale' = stale) \/ prev_len' = 0
    BY <1>2, EngineAssumption DEF ReplayMessage, AddQuery
  <2>3. PrevLenOnBoundary'
    <3>1. CASE prev_len' = 0
      BY <1>0, <3>1, FreshOnBoundary DEF PrevLenOnBoundary
    <3>2. CASE prev_len' = prev_len /\ stale' = stale
      <4>1. OnBoundary(prev_len) => PrevLenOnBoundary'
        BY <1>0, <2>1, <2>2, <3>2, AddKeepsBoundary DEF PrevLenOnBoundary
      <4> QED BY <3>2, <4>1 DEF PrevLenOnBoundary, OnBoundary
    <3> QED BY <2>2, <3>1, <3>2
  <2>4. StopOnBoundary'
    BY <1>0, <2>1, <2>2, AddKeepsBoundary DEF StopOnBoundary, OnBoundary
  <2> QED BY <2>2, <2>3, <2>4 DEF PromptReady
<1>3. CASE JobStops
  <2>1. prev_len' = 0 \/ prev_len' = FormattedLen(messages')
    BY <1>3 DEF JobStops, StopCompletion, LengthOf
  <2>2. phase' # "batching" /\ stop' = stop
    BY <1>3 DEF JobStops
  <2>3. PrevLenOnBoundary'
    BY <1>0, <2>1, FreshOnBoundary DEF PrevLenOnBoundary
  <2>4. StopOnBoundary'
    <3>1. CASE store_chats /\ response > 0
      <4>1. AddChatMessage("assistant", response) /\ response \in Nat
        BY <1>3, <3>1 DEF JobStops, StopCompletion, AddReply, TypeOK
      <4> QED BY <1>0, <2>2, <4>1, AddKeepsBoundary DEF StopOnBoundary, OnBoundary
    <3>2. CASE ~(store_chats /\ response > 0)
      <4>1. messages' = messages
        BY <1>3, <3>2 DEF JobStops, StopCompletion
      <4> QED BY <2>2, <4>1 DEF StopOnBoundary, OnBoundary
    <3> QED BY <3>1, <3>2
  <2> QED BY <2>2, <2>3, <2>4 DEF PromptReady
\* The main thread and the job's catch block, at any moment
<1>4. CASE JobCancels
  <2>1. /\ messages' = messages /\ stop' = stop /\ phase' # "batching"
        /\ prev_len' = 0 \/ prev_len' = FormattedLen(messages')
    BY <1>4 DEF JobCancels, CancelCompletion, LengthOf
  <2>2. PrevLenOnBoundary'
    BY <1>0, <2>1, FreshOnBoundary DEF PrevLenOnBoundary
  <2> QED BY <2>1, <2>2 DEF StopOnBoundary, OnBoundary, PromptReady
<1>5. CASE UserStops
  <2>1. /\ UNCHANGED <<phase, messages, prev_len, stale, new_len, formattedSize>>
        /\ stop'.len = 0 \/ stop'.len = FormattedLen(messages')
    BY <1>5 DEF UserStops, LengthOf
  <2>2. StopOnBoundary'
    BY <1>0, <2>1, FreshOnBoundary DEF StopOnBoundary, OnBoundary
  <2> QED BY <2>1, <2>2 DEF PrevLenOnBoundary, PromptReady
<1>6. CASE StopStores
  <2>1. /\ UNCHANGED <<phase, messages, new_len, formattedSize>> /\ ~stop'.storing
        /\ stop.storing /\ prev_len' = stop.len /\ stale' = stop.cut
    BY <1>6 DEF StopStores, NoStop
  <2> QED BY <2>1 DEF PrevLenOnBoundary, StopOnBoundary, OnBoundary, PromptReady
\* The truncation
<1>7. CASE FormatPrompt
  <2>1. FormattedLen(Kept(messages)) <= FormattedLen(messages)
    BY <1>0, KeptLen
  <2>2. formattedSize' \in Nat /\ formattedSize' >= PromptLen /\ PromptLen \in Nat
    BY <1>0, <1>7 DEF FormatPrompt, PromptLen
  <2>3. CASE Truncate /\ new_len' = FormattedLen(messages') + Opening
    <3>1. messages' = Kept(messages) /\ prev_len' = 0
      BY <2>3 DEF Truncate
    <3>2. new_len' <= formattedSize'
      BY <1>0, <2>1, <2>2, <2>3, <3>1 DEF PromptLen
    <3>3. PrevLenOnBoundary'
      BY <1>0, <3>1, FreshOnBoundary DEF PrevLenOnBoundary
    <3>4. stop'.storing => stop.storing /\ stop'.len = stop.len
                            /\ (stop'.cut \/ (~stop.cut /\ messages' = messages))
      BY <2>3 DEF Truncate, NoStop, TypeOK, Stop
    <3>5. StopOnBoundary'
      BY <3>4 DEF StopOnBoundary, OnBoundary
    <3> QED BY <2>3, <3>2, <3>3, <3>5 DEF PromptReady
  <2>4. CASE UNCHANGED <<messages, prev_len, stop, stale>> /\ new_len' = PromptLen
    BY <2>2, <2>4 DEF PrevLenOnBoundary, StopOnBoundary, OnBoundary, PromptReady, PromptLen
  <2> QED BY <1>7, <2>3, <2>4 DEF FormatPrompt
\* Every other step leaves them alone
<1>8. CASE \/ FinishReplay \/ Launch \/ Dispatch \/ BuildBatch \/ LoopFails
           \/ LoopDecodes \/ LoopOverflows \/ LoopReturns \/ Emit
  <2>1. UNCHANGED <<messages, prev_len, stop, stale>> /\ phase' # "batching"
    BY <1>8 DEF FinishReplay, Launch, Dispatch, BuildBatch, LoopFails, LoopDecodes,
                LoopOverflows, LoopReturns, Emit, engine
  <2> QED BY <2>1 DEF PrevLenOnBoundary, StopOnBoundary, OnBoundary, PromptReady
<1>9. CASE UNCHANGED vars
  BY <1>9 DEF vars, engine, PrevLenOnBoundary, StopOnBoundary, OnBoundary, PromptReady
<1> QED BY <1>1, <1>2, <1>3, <1>4, <1>5, <1>6, <1>7, <1>8, <1>9 DEF Next, Job

(***************************************************************************)
(* A prompt never starts in the middle of a message, but where a stop has  *)
(* stored a length it had taken before a truncation.                       *)
(***************************************************************************)
THEOREM BoundaryCorrect == Spec => []PrevLenOnBoundary
<1>1. Spec => [](TypeOK /\ IInv)
  BY InitIInv, StepIInv, TypeCorrect, PTL DEF Spec
<1>2. TypeOK /\ IInv => PrevLenOnBoundary
  BY DEF IInv
<1> QED BY <1>1, <1>2, PTL

(***************************************************************************)
(* The string start_completion cuts out of `formatted` is inside the       *)
(* buffer, and its range is ordered though cancel_completion may rewrite   *)
(* prev_len between the computation of the prompt's length and its use,    *)
(* but where a stop has stored a length it had taken before a truncation.  *)
(***************************************************************************)
THEOREM PromptCorrect == Spec => []PromptInBuffer
<1>1. Spec => [](TypeOK /\ IInv)
  BY InitIInv, StepIInv, TypeCorrect, PTL DEF Spec
<1>2. TypeOK /\ IInv => PromptInBuffer
  <2> SUFFICES ASSUME TypeOK, IInv PROVE PromptInBuffer
    OBVIOUS
  <2>1. FormattedLen(messages) \in Nat /\ prev_len \in Nat /\ Opening \in Nat
    BY LayoutFinite, EngineAssumption DEF TypeOK
  <2>2. ~stale => prev_len <= FormattedLen(messages)
    BY BoundaryBelow DEF TypeOK, IInv, PrevLenOnBoundary, OnBoundary
  <2>3. ~stale => prev_len <= FormattedLen(messages) + Opening
    BY <2>1, <2>2
  <2> QED BY <2>3 DEF IInv, PromptReady, PromptInBuffer, PromptLen
<1> QED BY <1>1, <1>2, PTL

-----------------------------------------------------------------------------
(***************************************************************************)
(* Turns: the question being answered and the head of the chat stay, and   *)
(* no reply is recorded twice, wherever a truncation or the main thread's  *)
(* cancel_completion strikes.                                              *)
(***************************************************************************)
Last(s) == s[Len(s)]

\* The job has added its query and not yet a reply.
Answering == {"formatting", "batching", "looping", "sampled", "emitting", "eog"}

QuestionLast ==
  phase \in Answering =>
    messages # <<>> /\ Last(messages).role = "user" /\ Last(messages).id = added

\* After the first stop_completion there is nothing for the second one to do, unless a stop
\* has stored a length it had taken before the first.
StoppedOnce == phase = "stopped" =>
  response = 0 /\ (prev_len = LengthOf(messages) \/ cancelled)

\* A job that nobody has stopped runs beside no stop.
StopIsCancel == stop.storing /\ phase \in Running => cancelled

DeadIsEmpty == phase \in Dead => messages = <<>>

TurnsInv == QuestionLast /\ StoppedOnce /\ StopIsCancel /\ DeadIsEmpty

\* What the three action properties say of one step
HeadStep ==
  messages # <<>> /\ phase' \notin Dead => messages' # <<>> /\ messages'[1] = messages[1]

ReplyStep ==
  phase # "replay" /\ Len(messages') > Len(messages) /\ Last(messages').role = "assistant" =>
    messages # <<>> /\ Last(messages).role = "user"

SecondStep ==
  phase = "stopped" /\ phase' = "idle" =>
    /\ UNCHANGED <<messages, formattedSize, response, batch, kv, added>>
    /\ cancelled \/ UNCHANGED prev_len

-----------------------------------------------------------------------------
(***************************************************************************)
(* The list after add_chat_message.                                        *)
(***************************************************************************)
LEMMA AddedLast ==
  ASSUME messages \in Seq(Message), added \in Nat,
         NEW role \in {"system", "user", "assistant"}, NEW size \in Nat,
         AddChatMessage(role, size)
  PROVE  /\ added' = added + 1 /\ Len(messages') = Len(messages) + 1 /\ messages' # <<>>
         /\ \A i \in 1..Len(messages) : messages'[i] = messages[i]
         /\ Last(messages').role = role /\ Last(messages').id = added'
<1> DEFINE m == [role |-> role, id |-> added + 1,
                 size |-> IF size > MaxMessage THEN MaxMessage ELSE size]
<1>1. m \in Message /\ m.role = role /\ m.id = added + 1
  BY EngineAssumption DEF Message
<1>2. messages' = Append(messages, m) /\ added' = added + 1
  BY DEF AddChatMessage
<1> HIDE DEF m
<1>3. /\ Len(messages') = Len(messages) + 1 /\ messages'[Len(messages) + 1] = m
      /\ \A i \in 1..Len(messages) : messages'[i] = messages[i]
  BY <1>1, <1>2, AppendProperties
<1>4. messages' # <<>>
  BY <1>2, <1>3, LenProperties
<1> QED BY <1>1, <1>2, <1>3, <1>4 DEF Last

(***************************************************************************)
(* The list before add_chat_message keeps its head.                        *)
(***************************************************************************)
LEMMA AddKeepsHead ==
  ASSUME messages \in Seq(Message), added \in Nat,
         NEW role \in {"system", "user", "assistant"}, NEW size \in Nat,
         AddChatMessage(role, size)
  PROVE  messages # <<>> => messages'[1] = messages[1]
<1>1. \A i \in 1..Len(messages) : messages'[i] = messages[i]
  BY AddedLast
<1>2. Len(messages) \in Nat /\ (messages # <<>> => Len(messages) > 0)
  BY LenProperties, EmptySeq
<1> QED BY <1>1, <1>2

(***************************************************************************)
(* A truncation keeps the first and the last message, and makes the list   *)
(* no longer.                                                              *)
(***************************************************************************)
LEMMA KeptTurns ==
  ASSUME messages \in Seq(Message), messages # <<>>, messages' = Kept(messages)
  PROVE  /\ messages' # <<>> /\ messages'[1] = messages[1]
         /\ Last(messages') = Last(messages)
         /\ ~(Len(messages') > Len(messages))
<1>1. Len(messages) \in Nat /\ MessagesToKeep \in Nat \ {0, 1}
  BY LenProperties, EngineAssumption
<1>2. CASE Len(messages) <= MessagesToKeep
  <2>1. messages' = messages
    BY <1>1, <1>2 DEF Kept
  <2> QED BY <1>1, <2>1
<1>3. CASE Len(messages) > MessagesToKeep
  <2> DEFINE d == Len(messages) - MessagesToKeep
  <2>1. /\ messages' \in Seq(Message) /\ Len(messages') = MessagesToKeep
        /\ messages'[1] = messages[1]
        /\ \A i \in 2..MessagesToKeep : messages'[i] = messages[i + d]
    BY <1>3, KeptElements
  <2>2. messages' # <<>>
    BY <1>1, <2>1, EmptySeq
  <2>3. Last(messages') = Last(messages)
    BY <1>1, <1>3, <2>1 DEF Last
  <2> QED BY <1>1, <1>3, <2>1, <2>2, <2>3
<1> QED BY <1>1, <1>2, <1>3

-----------------------------------------------------------------------------
(***************************************************************************)
(* Before load_model there is no message and no stop.                      *)
(***************************************************************************)
LEMMA InitTurns == Init => TurnsInv
BY DEF Init, NoStop, TurnsInv, QuestionLast, Answering, StoppedOnce, StopIsCancel, Running,
       Starting, DeadIsEmpty

(***************************************************************************)
(* stop_completion adds a reply to a question, and the second one nothing. *)
(***************************************************************************)
LEMMA StopsKeep ==
  ASSUME TypeOK, TurnsInv, JobStops
  PROVE  TurnsInv' /\ HeadStep /\ ReplyStep /\ SecondStep
<1> USE DEF TurnsInv
<1>1. /\ phase \in {"eog", "stopped"} /\ response' = 0 /\ prev_len' = LengthOf(messages')
      /\ phase' = IF phase = "eog" THEN "stopped" ELSE "idle"
      /\ UNCHANGED <<template, cancelled, stop, formattedSize, batch>>
  BY DEF JobStops, StopCompletion
<1>2. LengthOf(messages)' = LengthOf(messages')
  BY <1>1 DEF LengthOf
<1>3. TurnsInv'
  BY <1>1, <1>2 DEF QuestionLast, Answering, StoppedOnce, StopIsCancel, Running, Starting,
                    DeadIsEmpty, Dead
<1>4. CASE store_chats /\ response > 0
  <2>1. phase = "eog" /\ AddChatMessage("assistant", response)
    BY <1>1, <1>4 DEF JobStops, StopCompletion, AddReply, StoppedOnce
  <2>2. messages # <<>> /\ Last(messages).role = "user"
    BY <2>1 DEF QuestionLast, Answering
  <2>3. messages \in Seq(Message) /\ added \in Nat /\ response \in Nat
    BY DEF TypeOK
  <2>4. messages' # <<>> /\ messages'[1] = messages[1]
    BY <2>1, <2>2, <2>3, AddKeepsHead, AddedLast
  <2> QED BY <1>3, <2>1, <2>2, <2>4 DEF HeadStep, ReplyStep, SecondStep
<1>5. CASE ~(store_chats /\ response > 0)
  <2>1. UNCHANGED <<messages, added, kv>>
    BY <1>5 DEF JobStops, StopCompletion
  <2>2. HeadStep /\ ReplyStep
    <3>1. Len(messages) \in Nat
      BY LenProperties DEF TypeOK
    <3> QED BY <2>1, <3>1 DEF HeadStep, ReplyStep
  <2>3. phase = "stopped" => response' = response /\ (cancelled \/ prev_len' = prev_len)
    BY <1>1, <2>1 DEF StoppedOnce
  <2> QED BY <1>1, <1>3, <2>1, <2>2, <2>3 DEF SecondStep
<1> QED BY <1>4, <1>5

(***************************************************************************)
(* Every step of the job and of the main thread.                           *)
(***************************************************************************)
LEMMA StepTurns ==
  ASSUME TypeOK, TurnsInv, [Next]_vars
  PROVE  TurnsInv' /\ HeadStep /\ ReplyStep /\ SecondStep
<1> USE DEF TurnsInv
<1>0. messages \in Seq(Message) /\ added \in Nat /\ Len(messages) \in Nat
  BY LenProperties DEF TypeOK
<1>1. CASE LoadModel
  <2>1. /\ messages = <<>> /\ phase \in Dead /\ messages' = <<>> /\ phase' = "replay"
        /\ ~stop'.storing
    BY <1>1 DEF LoadModel, DeadIsEmpty, NoStop
  <2> QED BY <1>0, <2>1 DEF QuestionLast, Answering, StoppedOnce, StopIsCancel, DeadIsEmpty,
                            Dead, HeadStep, ReplyStep, SecondStep
<1>2. CASE Close \/ StartAborts
  <2>1. messages' = <<>> /\ phase' \in {"closed", "aborted"}
    BY <1>2 DEF Close, StartAborts
  <2>2. ~(Len(messages') > Len(messages))
    BY <1>0, <2>1, EmptySeq
  <2> QED BY <2>1, <2>2 DEF QuestionLast, Answering, StoppedOnce, StopIsCancel, Running,
                            Starting, DeadIsEmpty, Dead, HeadStep, ReplyStep, SecondStep
<1>3. CASE ReplayMessage
  <2>1. PICK role \in {"system", "user", "assistant"}, size \in Sizes :
          AddChatMessage(role, size)
    BY <1>3 DEF ReplayMessage
  <2>2. size \in Nat /\ phase = "replay" /\ phase' = "replay"
    BY <1>3, EngineAssumption DEF ReplayMessage
  <2>3. messages' # <<>> /\ (messages # <<>> => messages'[1] = messages[1])
    BY <1>0, <2>1, <2>2, AddKeepsHead, AddedLast
  <2> QED BY <2>2, <2>3 DEF QuestionLast, Answering, StoppedOnce, StopIsCancel, Running,
                            Starting, DeadIsEmpty, Dead, HeadStep, ReplyStep, SecondStep
<1>4. CASE AddQuery
  <2>1. PICK size \in Sizes : AddChatMessage("user", size)
    BY <1>4 DEF AddQuery
  <2>2. /\ size \in Nat /\ phase = "starting" /\ phase' = "formatting"
        /\ UNCHANGED <<stop, cancelled>>
    BY <1>4, EngineAssumption DEF AddQuery
  <2>3. messages # <<>> => messages'[1] = messages[1]
    BY <1>0, <2>1, <2>2, AddKeepsHead
  <2>4. messages' # <<>> /\ Last(messages').role = "user" /\ Last(messages').id = added'
    BY <1>0, <2>1, <2>2, AddedLast
  <2> QED BY <2>2, <2>3, <2>4 DEF QuestionLast, Answering, StoppedOnce, StopIsCancel, Running,
                            Starting, DeadIsEmpty, Dead, HeadStep, ReplyStep, SecondStep
<1>5. CASE FormatPrompt
  <2>1. /\ phase = "formatting" /\ phase' = "batching" /\ added' = added
        /\ cancelled' = cancelled
        /\ messages' = Kept(messages) \/ messages' = messages
        /\ stop'.storing => stop.storing
    BY <1>5 DEF FormatPrompt, Truncate, NoStop, TypeOK, Stop
  <2>2. messages # <<>>
    BY <2>1 DEF QuestionLast, Answering
  <2>3. /\ messages' # <<>> /\ messages'[1] = messages[1] /\ Last(messages') = Last(messages)
        /\ ~(Len(messages') > Len(messages))
    BY <1>0, <2>1, <2>2, KeptTurns
  <2> QED BY <2>1, <2>2, <2>3 DEF QuestionLast, Answering, StoppedOnce, StopIsCancel, Running,
                            Starting, DeadIsEmpty, Dead, HeadStep, ReplyStep, SecondStep
<1>6. CASE JobStops
  BY <1>6, StopsKeep
<1>7. CASE UserStops \/ StopStores
  <2>1. /\ UNCHANGED <<messages, added, phase>>
        /\ response' = 0 \/ response' = response
        /\ cancelled' \/ ~stop'.storing
        /\ phase \in Running => cancelled'
    BY <1>7 DEF UserStops, StopStores, NoStop, StopIsCancel
  <2> QED BY <1>0, <2>1 DEF QuestionLast, StoppedOnce, StopIsCancel, Running, Starting,
                            DeadIsEmpty, Dead, HeadStep, ReplyStep, SecondStep
<1>8. CASE \/ FinishReplay \/ Launch \/ Dispatch \/ BuildBatch \/ LoopFails
           \/ LoopDecodes \/ LoopOverflows \/ LoopReturns \/ Emit \/ JobCancels
  <2>1. /\ messages' = messages /\ added' = added /\ phase' \notin Dead
        /\ phase # "stopped" /\ phase' # "stopped"
        /\ phase' \in Answering => phase \in Answering
        /\ stop' = stop
    BY <1>8 DEF FinishReplay, Launch, Dispatch, BuildBatch, LoopFails, LoopDecodes,
                LoopOverflows, LoopReturns, Emit, JobCancels, engine, Answering, Dead
  <2>2. stop.storing /\ phase' \in Running => phase \in Running /\ cancelled' = cancelled
    BY <1>8 DEF FinishReplay, Launch, Dispatch, BuildBatch, LoopFails, LoopDecodes,
                LoopOverflows, LoopReturns, Emit, JobCancels, Running, Starting
  <2> QED BY <1>0, <2>1, <2>2 DEF QuestionLast, StoppedOnce, StopIsCancel, DeadIsEmpty,
                            HeadStep, ReplyStep, SecondStep
<1>9. CASE UNCHANGED vars
  <2>1. UNCHANGED <<messages, added, phase, response, prev_len, template, cancelled, stop,
                    formattedSize, batch, kv>>
    BY <1>9 DEF vars, engine
  <2>2. LengthOf(messages)' = LengthOf(messages)
    BY <2>1 DEF LengthOf
  <2> QED BY <1>0, <2>1, <2>2 DEF QuestionLast, StoppedOnce, StopIsCancel, DeadIsEmpty,
                            HeadStep, ReplyStep, SecondStep
<1> QED BY <1>1, <1>2, <1>3, <1>4, <1>5, <1>6, <1>7, <1>8, <1>9 DEF Next, Job

LEMMA TurnsCorrect == Spec => [](TypeOK /\ TurnsInv)
<1>1. TypeOK /\ TurnsInv /\ [Next]_vars => TurnsInv'
  BY StepTurns
<1> QED BY InitTurns, <1>1, TypeCorrect, PTL DEF Spec

(***************************************************************************)
(* The question being answered is the last message, through every          *)
(* truncation.                                                             *)
(***************************************************************************)
THEOREM QuestionCorrect == Spec => []QuestionKept
<1>1. TurnsInv => QuestionKept
  BY DEF TurnsInv, QuestionLast, Answering, QuestionKept, Last
<1> QED BY <1>1, TurnsCorrect, PTL

(***************************************************************************)
(* The engine records a reply only behind the query it answers, though     *)
(* stop_completion runs twice, and whatever the database has replayed.     *)
(***************************************************************************)
THEOREM NoDoubleReplyCorrect == Spec => NoDoubleReply
<1>1. TypeOK /\ TurnsInv /\ [Next]_vars =>
        [phase # "replay" /\ Len(messages') > Len(messages)
           /\ messages'[Len(messages')].role = "assistant" =>
             messages # <<>> /\ messages[Len(messages)].role = "user"]_vars
  BY StepTurns DEF ReplyStep, Last
<1> QED BY <1>1, TurnsCorrect, PTL DEF Spec, NoDoubleReply

(***************************************************************************)
(* The first message stays until the engine is gone.                       *)
(***************************************************************************)
THEOREM HeadCorrect == Spec => HeadKept
<1>1. TypeOK /\ TurnsInv /\ [Next]_vars =>
        [messages # <<>> /\ phase' \notin Dead =>
           messages' # <<>> /\ messages'[1] = messages[1]]_vars
  BY StepTurns DEF HeadStep
<1> QED BY <1>1, TurnsCorrect, PTL DEF Spec, HeadKept

(***************************************************************************)
(* The second stop_completion changes nothing in the engine, but prev_len  *)
(* where a stop has stored a length without the reply.                     *)
(***************************************************************************)
THEOREM SecondStopCorrect == Spec => SecondStopIsIdle
<1>1. TypeOK /\ TurnsInv /\ [Next]_vars =>
        [phase = "stopped" /\ phase' = "idle" =>
           /\ UNCHANGED <<messages, formattedSize, response, batch, kv, added>>
           /\ cancelled \/ UNCHANGED prev_len]_vars
  BY StepTurns DEF SecondStep
<1> QED BY <1>1, TurnsCorrect, PTL DEF Spec, SecondStopIsIdle

-----------------------------------------------------------------------------
(***************************************************************************)
(* The cache: prev_len counts only what the KV cache has been fed, as long *)
(* as no batch was refused, no prompt was read after it was freed and no   *)
(* stop came before a job had built its batch: what start_completion does  *)
(* with the two is a bookkeeping over several calls, and no test looks at  *)
(* it.                                                                     *)
(***************************************************************************)
\* Every message takes room.
NoEmptyMessage == \A i \in 1..Len(messages) : messages[i].size >= 1

\* What the cache has been fed, or will be by the batch that is ready.
AllIn(ids) == \A i \in 1..Len(messages) : messages[i].id \in ids

Sound == ~kv.refused /\ ~kv.garbled /\ ~overlap

\* A length the main thread still holds when the job is over counts no more than the chat.
CacheInv ==
  Sound =>
    /\ phase \in Starting \cup {"replay", "idle"} => HistoryCached
    /\ phase = "looping" => AllIn(kv.seen \cup batch.ids)
    /\ phase \in {"sampled", "emitting", "eog", "stopped"} => AllIn(kv.seen)
    /\ phase = "idle" /\ stop.storing => AllIn(kv.seen)

\* Of the reply being made, the cache lacks at most the token of the next batch.
ReplyFed ==
  /\ phase \notin {"looping", "sampled", "emitting", "eog"} => response = 0
  /\ ~kv.refused =>
       /\ phase \in {"looping", "emitting"} => response <= kv.fed + batch.reply
       /\ phase \in {"sampled", "eog"} => response <= kv.fed

\* A stop is beside a job or what is left of it; one that comes before a job has built its
\* batch, as every stop does that a truncation overtakes, is recorded as an overlap.
StopInv ==
  /\ stop.storing => phase \in Running \cup {"idle"}
  /\ stop.storing /\ phase \in Starting => overlap
  /\ stale \/ stop.cut => overlap

ReplayInv == phase = "replay" => prev_len = 0

FedInv == NoEmptyMessage /\ CacheInv /\ ReplyFed /\ StopInv /\ ReplayInv

-----------------------------------------------------------------------------
(***************************************************************************)
(* A chat that is not empty takes room.                                    *)
(***************************************************************************)
LEMMA PrefixPositive ==
  ASSUME NEW msgs \in Seq(Message), \A i \in 1..Len(msgs) : msgs[i].size >= 1,
         NEW k \in 1..Len(msgs)
  PROVE  FormattedLen(SubSeq(msgs, 1, k)) \in Nat /\ FormattedLen(SubSeq(msgs, 1, k)) > 0
<1> DEFINE p == SubSeq(msgs, 1, k)
<1>1. Len(msgs) \in Nat /\ Header \in Nat
  BY LenProperties, EngineAssumption
<1>2. \A i \in 1..k : msgs[i] \in Message
  BY <1>1, ElementOfSeq
<1>3. p \in Seq(Message) /\ Len(p) = k /\ p[1] = msgs[1]
  BY <1>1, <1>2, SubSeqProperties
<1>4. p[1].size \in Nat /\ p[1].size >= 1
  <2>1. 1 \in 1..k /\ 1 \in 1..Len(msgs)
    BY <1>1
  <2>2. msgs[1] \in Message /\ msgs[1].size >= 1
    BY <1>2, <2>1
  <2>3. msgs[1].size \in Nat
    BY <2>2, EngineAssumption DEF Message
  <2> QED BY <1>3, <2>2, <2>3
<1>5. <<1, 1>> \in Layout(p)
  BY <1>1, <1>3, <1>4 DEF Layout
<1>6. FormattedLen(p) # 0
  BY <1>5, <1>3, LayoutFinite, FS_EmptySet DEF FormattedLen
<1> HIDE DEF p
<1>7. FormattedLen(p) \in Nat /\ FormattedLen(p) > 0
  BY <1>3, <1>6, LayoutFinite
<1> QED BY <1>7 DEF p

(***************************************************************************)
(* A new message makes a chat longer.                                      *)
(***************************************************************************)
LEMMA AppendLonger ==
  ASSUME NEW msgs \in Seq(Message), NEW m \in Message, m.size >= 1
  PROVE  FormattedLen(Append(msgs, m)) > FormattedLen(msgs)
<1> DEFINE a == Append(msgs, m)
<1>1. /\ Len(msgs) \in Nat /\ Header \in Nat
      /\ a \in Seq(Message) /\ Len(a) = Len(msgs) + 1 /\ a[Len(msgs) + 1] = m
      /\ \A i \in 1..Len(msgs) : a[i] = msgs[i]
  BY LenProperties, AppendProperties, EngineAssumption
<1>2. Layout(msgs) \in SUBSET Layout(a)
  BY <1>1 DEF Layout
<1>3. <<Len(msgs) + 1, 1>> \in Layout(a) /\ <<Len(msgs) + 1, 1>> \notin Layout(msgs)
  <2>1. m.size \in Nat
    BY DEF Message
  <2>2. 1 \in 1..(Header + a[Len(msgs) + 1].size) /\ Len(msgs) + 1 \in 1..Len(a)
    BY <1>1, <2>1
  <2> HIDE DEF a
  <2>3. <<Len(msgs) + 1, 1>> \in Layout(a)
    BY <2>2, LayoutMember
  <2>4. \A i \in 1..Len(msgs) : i # Len(msgs) + 1
    BY <1>1
  <2> QED BY <2>3, <2>4, LayoutMember
<1>4. FormattedLen(msgs) <= FormattedLen(a) /\ FormattedLen(msgs) # FormattedLen(a)
  BY <1>1, <1>2, <1>3, LayoutFinite, FS_Subset DEF FormattedLen
<1>5. FormattedLen(msgs) \in Nat /\ FormattedLen(a) \in Nat
  BY <1>1, LayoutFinite
<1> HIDE DEF a
<1>6. FormattedLen(a) > FormattedLen(msgs)
  BY <1>4, <1>5
<1> QED BY <1>6 DEF a

(***************************************************************************)
(* Nothing is counted as fed from position 0 on.                           *)
(***************************************************************************)
LEMMA NothingCounted ==
  ASSUME messages \in Seq(Message), NoEmptyMessage, prev_len = 0
  PROVE  HistoryCached
BY PrefixPositive DEF HistoryCached, NoEmptyMessage

(***************************************************************************)
(* A message that is added is not empty, and not counted before it is fed. *)
(***************************************************************************)
LEMMA AddUncounted ==
  ASSUME messages \in Seq(Message), added \in Nat, NoEmptyMessage, prev_len \in Nat,
         NEW role \in {"system", "user", "assistant"}, NEW size \in Nat \ {0},
         AddChatMessage(role, size)
  PROVE  /\ messages' \in Seq(Message) /\ NoEmptyMessage'
         /\ HistoryCached /\ OnBoundary(prev_len) /\ kv' = kv /\ prev_len' = prev_len =>
              HistoryCached'
<1> DEFINE m == [role |-> role, id |-> added + 1,
                 size |-> IF size > MaxMessage THEN MaxMessage ELSE size]
<1>1. m \in Message /\ m.size >= 1
  BY EngineAssumption DEF Message
<1>2. messages' = Append(messages, m)
  BY DEF AddChatMessage
<1> HIDE DEF m
<1>3. /\ Len(messages) \in Nat /\ messages' \in Seq(Message)
      /\ Len(messages') = Len(messages) + 1 /\ messages'[Len(messages) + 1] = m
      /\ \A i \in 1..Len(messages) : messages'[i] = messages[i]
  BY <1>1, <1>2, AppendProperties, LenProperties
<1>4. NoEmptyMessage'
  BY <1>1, <1>3 DEF NoEmptyMessage
<1>5. ASSUME HistoryCached, OnBoundary(prev_len), kv' = kv, prev_len' = prev_len
      PROVE  HistoryCached'
  <2> SUFFICES ASSUME NEW i \in 1..Len(messages'), FormattedLen(SubSeq(messages', 1, i)) <= prev_len
               PROVE  messages'[i].id \in kv.seen
    BY <1>5 DEF HistoryCached
  <2>1. CASE i \in 1..Len(messages)
    <3>1. SubSeq(messages', 1, i) = SubSeq(messages, 1, i)
      BY <1>1, <1>2, <1>3, <2>1, AppendPrefix
    <3> QED BY <1>3, <1>5, <2>1, <3>1 DEF HistoryCached
  <2>2. CASE i = Len(messages')
    <3>1. SubSeq(messages', 1, i) = messages'
      BY <1>3, <2>2, SubSeqFull
    <3>2. FormattedLen(messages') > FormattedLen(messages) /\ prev_len <= FormattedLen(messages)
      BY <1>1, <1>2, <1>5, AppendLonger, BoundaryBelow
    <3>3. FormattedLen(messages') \in Nat /\ FormattedLen(messages) \in Nat
      BY <1>3, LayoutFinite
    <3>4. FormattedLen(SubSeq(messages', 1, i)) = FormattedLen(messages')
      BY <3>1, Zenon
    <3> QED BY <3>2, <3>3, <3>4
  <2> QED BY <1>3, <2>1, <2>2
<1> QED BY <1>3, <1>4, <1>5

-----------------------------------------------------------------------------
(***************************************************************************)
(* A truncation erases messages, and adds none.                            *)
(***************************************************************************)
LEMMA KeptFromList ==
  ASSUME messages \in Seq(Message), NoEmptyMessage, messages' = Kept(messages)
  PROVE  NoEmptyMessage'
<1>1. Len(messages) \in Nat /\ MessagesToKeep \in Nat \ {0, 1}
  BY LenProperties, EngineAssumption
<1>2. CASE Len(messages) <= MessagesToKeep
  BY <1>1, <1>2 DEF Kept, NoEmptyMessage
<1>3. CASE Len(messages) > MessagesToKeep
  <2>1. /\ Len(messages') = MessagesToKeep /\ messages'[1] = messages[1]
        /\ \A i \in 2..MessagesToKeep :
             messages'[i] = messages[i + (Len(messages) - MessagesToKeep)]
    BY <1>3, KeptElements
  <2> SUFFICES ASSUME NEW i \in 1..Len(messages') PROVE messages'[i].size >= 1
    BY DEF NoEmptyMessage
  <2>2. CASE i = 1
    BY <1>1, <1>3, <2>1, <2>2 DEF NoEmptyMessage
  <2>3. CASE i # 1
    <3>1. i + (Len(messages) - MessagesToKeep) \in 1..Len(messages)
      BY <1>1, <1>3, <2>1, <2>3
    <3> QED BY <1>1, <2>1, <2>3, <3>1 DEF NoEmptyMessage
  <2> QED BY <2>2, <2>3
<1> QED BY <1>1, <1>2, <1>3

LEMMA InitFed == Init => FedInv
<1> SUFFICES ASSUME Init PROVE FedInv
  OBVIOUS
<1>1. Len(messages) = 0 /\ phase = "absent"
  BY EmptySeq DEF Init
<1> QED BY <1>1 DEF Init, NoStop, FedInv, NoEmptyMessage, CacheInv, ReplyFed, StopInv, ReplayInv,
                    Starting

(***************************************************************************)
(* The two stop_completion calls: a reply that is added is in the cache.   *)
(***************************************************************************)
LEMMA StopsFeed ==
  ASSUME TypeOK, FedInv, JobStops PROVE FedInv'
<1> USE DEF FedInv
<1>1. /\ phase \in {"eog", "stopped"} /\ phase' \in {"stopped", "idle"} /\ overlap' = overlap
      /\ messages \in Seq(Message) /\ added \in Nat /\ response \in Nat /\ response' = 0
      /\ stop' = stop /\ stale' = FALSE
  BY DEF JobStops, StopCompletion, TypeOK
<1>2. ReplyFed' /\ StopInv' /\ ReplayInv'
  BY <1>1 DEF ReplyFed, StopInv, ReplayInv, Running, Starting
<1>3. AllIn(kv.seen)' => HistoryCached'
  BY DEF AllIn, HistoryCached
<1>4. CASE store_chats /\ response > 0
  <2>1. /\ AddChatMessage("assistant", response)
        /\ kv' = [kv EXCEPT !.seen = IF ~kv.refused /\ kv.fed >= response
                                       THEN @ \cup {added + 1} ELSE @]
    BY <1>4 DEF JobStops, StopCompletion, AddReply
  <2> DEFINE m == [role |-> "assistant", id |-> added + 1,
                   size |-> IF response > MaxMessage THEN MaxMessage ELSE response]
  <2>2. m \in Message /\ m.size >= 1 /\ m.id = added + 1
    BY <1>1, <1>4, EngineAssumption DEF Message
  <2>3. messages' = Append(messages, m)
    BY <2>1 DEF AddChatMessage
  <2> HIDE DEF m
  <2>4. /\ Len(messages) \in Nat /\ Len(messages') = Len(messages) + 1
        /\ messages'[Len(messages) + 1] = m
        /\ \A i \in 1..Len(messages) : messages'[i] = messages[i]
    BY <1>1, <2>2, <2>3, AppendProperties, LenProperties
  <2>5. NoEmptyMessage'
    BY <2>2, <2>4 DEF NoEmptyMessage
  <2>6. ~kv.refused => kv.fed >= response
    <3>1. kv.fed \in Nat
      BY DEF TypeOK, Cache
    <3> QED BY <1>1, <1>4, <3>1 DEF ReplyFed
  <2>7. /\ kv'.refused = kv.refused /\ kv'.garbled = kv.garbled
        /\ ~kv.refused => kv'.seen = kv.seen \cup {added + 1}
    BY <2>1, <2>6 DEF TypeOK, Cache
  <2>8. ~kv.refused /\ AllIn(kv.seen) => AllIn(kv.seen)'
    BY <2>2, <2>4, <2>7 DEF AllIn
  <2> QED BY <1>1, <1>2, <1>3, <2>5, <2>7, <2>8 DEF CacheInv, Sound, Starting
<1>5. CASE ~(store_chats /\ response > 0)
  <2>1. messages' = messages /\ kv' = kv
    BY <1>5 DEF JobStops, StopCompletion
  <2>2. AllIn(kv.seen) => AllIn(kv.seen)'
    BY <2>1 DEF AllIn
  <2> QED BY <1>1, <1>2, <1>3, <2>1, <2>2 DEF CacheInv, Sound, NoEmptyMessage, Starting
<1> QED BY <1>4, <1>5

(***************************************************************************)
(* Every step of the job and of the main thread.                           *)
(***************************************************************************)
LEMMA StepFed ==
  ASSUME TypeOK, TypeOK', PrevLenOnBoundary, FedInv, [Next]_vars PROVE FedInv'
<1> USE DEF FedInv
<1>0. /\ messages \in Seq(Message) /\ messages' \in Seq(Message) /\ added \in Nat
      /\ prev_len \in Nat /\ response \in Nat /\ kv.fed \in Nat /\ batch.reply \in {0, 1}
  BY DEF TypeOK, Cache, Batch
<1>a. ~overlap => OnBoundary(prev_len)
  BY DEF StopInv, PrevLenOnBoundary, OnBoundary
<1>1. CASE LoadModel \/ Close \/ StartAborts
  <2>1. /\ messages' = <<>> /\ phase' \in {"replay", "closed", "aborted"} /\ prev_len' = 0
        /\ response' = 0 /\ ~stop'.storing /\ ~stale'
        /\ stop'.cut => overlap'
    BY <1>1 DEF LoadModel, Close, StartAborts, NoStop, StopInv
  <2>2. Len(messages') = 0
    BY <2>1, EmptySeq
  <2> QED BY <2>1, <2>2 DEF NoEmptyMessage, CacheInv, HistoryCached, ReplyFed, StopInv, ReplayInv,
                            Starting
<1>2. CASE ReplayMessage
  <2>1. PICK role \in {"system", "user", "assistant"}, size \in Sizes : AddChatMessage(role, size)
    BY <1>2 DEF ReplayMessage
  <2>2. /\ size \in Nat \ {0} /\ phase = "replay" /\ phase' = "replay"
        /\ UNCHANGED <<prev_len, kv, overlap, stop, stale, response>>
    BY <1>2, EngineAssumption DEF ReplayMessage
  <2>3. NoEmptyMessage' /\ (HistoryCached /\ OnBoundary(prev_len) => HistoryCached')
    BY <1>0, <2>1, <2>2, AddUncounted
  <2> QED BY <1>a, <2>2, <2>3 DEF CacheInv, Sound, ReplyFed, StopInv, ReplayInv, Running, Starting
<1>3. CASE AddQuery
  <2>1. PICK size \in Sizes : AddChatMessage("user", size)
    BY <1>3 DEF AddQuery
  <2>2. /\ size \in Nat \ {0} /\ phase = "starting" /\ phase' = "formatting"
        /\ (prev_len' = prev_len /\ stale' = stale) \/ (prev_len' = 0 /\ ~stale')
        /\ UNCHANGED <<kv, overlap, stop, response>>
    BY <1>3, EngineAssumption DEF AddQuery
  <2>3. /\ NoEmptyMessage'
        /\ HistoryCached /\ OnBoundary(prev_len) /\ prev_len' = prev_len => HistoryCached'
    BY <1>0, <2>1, <2>2, AddUncounted
  <2>4. prev_len' = 0 => HistoryCached'
    <3>1. ASSUME prev_len' = 0, NEW i \in 1..Len(messages')
          PROVE  ~(FormattedLen(SubSeq(messages', 1, i)) <= prev_len')
      BY <1>0, <2>3, <3>1, PrefixPositive DEF NoEmptyMessage
    <3> QED BY <3>1 DEF HistoryCached
  <2> QED BY <1>a, <2>2, <2>3, <2>4
          DEF CacheInv, Sound, ReplyFed, StopInv, ReplayInv, Running, Starting
<1>4. CASE FormatPrompt
  <2>1. /\ phase = "formatting" /\ phase' = "batching"
        /\ UNCHANGED <<kv, overlap, response>>
    BY <1>4 DEF FormatPrompt
  <2>2. CASE Truncate
    <3>1. /\ messages' = Kept(messages) /\ prev_len' = 0 /\ ~stale'
          /\ stop'.storing => stop.storing
          /\ stop'.cut => stop.storing
      BY <2>2 DEF Truncate, NoStop, TypeOK, Stop
    <3>2. NoEmptyMessage'
      BY <1>0, <3>1, KeptFromList
    <3>3. ASSUME NEW i \in 1..Len(messages')
          PROVE  ~(FormattedLen(SubSeq(messages', 1, i)) <= prev_len')
      BY <1>0, <3>1, <3>2, PrefixPositive DEF NoEmptyMessage
    <3>4. StopInv'
      BY <2>1, <3>1 DEF StopInv, Running, Starting
    <3> QED BY <2>1, <3>2, <3>3, <3>4 DEF CacheInv, ReplyFed, ReplayInv, HistoryCached
  <2>3. CASE UNCHANGED <<messages, prev_len, stop, stale>>
    BY <2>1, <2>3 DEF NoEmptyMessage, CacheInv, Sound, ReplyFed, StopInv, ReplayInv,
                      HistoryCached, Running, Starting
  <2> QED BY <1>4, <2>2, <2>3 DEF FormatPrompt
<1>5. CASE BuildBatch
  <2>1. /\ messages' = messages /\ kv' = [kv EXCEPT !.fed = 0]
        /\ UNCHANGED <<overlap, stop, stale, response>>
        /\ phase = "batching" /\ phase' = "looping"
        /\ batch'.ids = Beyond(messages, prev_len) /\ batch'.reply = 0
    BY <1>5 DEF BuildBatch
  <2>2. ASSUME HistoryCached, NEW i \in 1..Len(messages)
        PROVE  messages[i].id \in kv.seen \cup Beyond(messages, prev_len)
    <3>1. Len(messages) \in Nat
      BY <1>0, LenProperties
    <3>2. FormattedLen(SubSeq(messages, 1, i)) \in Nat
      BY <1>0, <3>1, PrefixLen
    <3> QED BY <1>0, <2>2, <3>2 DEF HistoryCached, Beyond
  <2>3. kv'.seen = kv.seen /\ kv'.refused = kv.refused /\ kv'.garbled = kv.garbled
        /\ kv'.fed = 0
    BY <2>1 DEF TypeOK, Cache
  <2>4. HistoryCached => AllIn(kv.seen \cup batch.ids)'
    BY <2>1, <2>2, <2>3 DEF AllIn
  <2>5. ReplyFed' /\ StopInv' /\ ReplayInv' /\ NoEmptyMessage'
    BY <2>1, <2>3 DEF ReplyFed, StopInv, ReplayInv, NoEmptyMessage, Running, Starting
  <2> QED BY <2>1, <2>3, <2>4, <2>5 DEF CacheInv, Sound, Starting
<1>6. CASE LoopFails \/ LoopOverflows
  <2>1. /\ messages' = messages /\ kv'.refused /\ phase = "looping"
        /\ phase' \in {"emitting", "sampled"}
        /\ UNCHANGED <<overlap, stop, stale, response>>
    BY <1>6 DEF LoopFails, LoopOverflows, TypeOK, Cache
  <2> QED BY <2>1
          DEF CacheInv, Sound, ReplyFed, StopInv, ReplayInv, NoEmptyMessage, Running, Starting
<1>7. CASE LoopDecodes
  <2>1. PICK g \in BOOLEAN :
          kv' = [kv EXCEPT !.used = @ + batch.n, !.fed = @ + batch.reply,
                           !.seen = IF g THEN @ ELSE @ \cup batch.ids,
                           !.garbled = @ \/ g]
    BY <1>7 DEF LoopDecodes
  <2>2. /\ UNCHANGED <<messages, overlap, stop, stale, response>>
        /\ phase = "looping" /\ phase' = "sampled"
    BY <1>7 DEF LoopDecodes
  <2>3. /\ kv'.refused = kv.refused /\ kv'.fed = kv.fed + batch.reply
        /\ ~kv'.garbled => ~kv.garbled /\ kv'.seen = kv.seen \cup batch.ids
    BY <2>1 DEF TypeOK, Cache
  <2>4. ReplyFed' /\ StopInv' /\ ReplayInv' /\ NoEmptyMessage'
    BY <2>2, <2>3 DEF ReplyFed, StopInv, ReplayInv, NoEmptyMessage, Running, Starting
  <2> QED BY <2>2, <2>3, <2>4 DEF CacheInv, Sound, AllIn, Starting
<1>8. CASE LoopReturns
  <2>1. /\ UNCHANGED <<messages, overlap, kv, stop, stale>>
        /\ phase = "sampled" /\ phase' \in {"emitting", "eog"}
    BY <1>8 DEF LoopReturns
  <2>2. ReplyFed'
    <3>1. CASE kv.refused
      BY <2>1, <3>1 DEF ReplyFed
    <3>2. CASE ~kv.refused
      <4>1. \/ response' = response /\ batch' = batch /\ phase' = "eog"
            \/ response' = response /\ batch'.reply = 0
            \/ response' = response + 1 /\ batch'.reply = 1 /\ phase' = "emitting"
        BY <1>8, <3>2 DEF LoopReturns, CurrBatch
      <4> QED BY <1>0, <2>1, <3>2, <4>1 DEF ReplyFed
    <3> QED BY <3>1, <3>2
  <2> QED BY <2>1, <2>2
          DEF CacheInv, Sound, StopInv, ReplayInv, NoEmptyMessage, AllIn, Running, Starting
<1>9. CASE Emit
  <2>1. /\ UNCHANGED <<messages, overlap, kv, stop, stale, response, batch>>
        /\ phase = "emitting" /\ phase' = "looping"
    BY <1>9 DEF Emit, engine
  <2> QED BY <2>1
          DEF CacheInv, Sound, ReplyFed, StopInv, ReplayInv, NoEmptyMessage, AllIn, Running, Starting
<1>10. CASE JobCancels
  <2>1. /\ UNCHANGED <<messages, overlap, kv, stop>> /\ ~stale' /\ response' = 0
        /\ phase = "emitting" /\ phase' = "idle"
    BY <1>10 DEF JobCancels, CancelCompletion
  <2>2. AllIn(kv.seen) => AllIn(kv.seen)' /\ HistoryCached'
    BY <2>1 DEF AllIn, HistoryCached
  <2> QED BY <2>1, <2>2
          DEF CacheInv, Sound, ReplyFed, StopInv, ReplayInv, NoEmptyMessage, Running, Starting
<1>11. CASE JobStops
  BY <1>11, StopsFeed
<1>12. CASE UserStops
  <2>1. /\ UNCHANGED <<messages, kv, phase, prev_len, stale, batch>> /\ phase \in Running
        /\ overlap' = (overlap \/ phase \in Starting)
        /\ response' = 0 /\ stop'.storing /\ ~stop'.cut
    BY <1>12 DEF UserStops
  <2>2. ReplyFed' /\ NoEmptyMessage' /\ ReplayInv'
    BY <1>0, <2>1 DEF ReplyFed, NoEmptyMessage, ReplayInv
  <2>3. StopInv'
    BY <2>1 DEF StopInv
  <2>4. CacheInv'
    BY <2>1 DEF CacheInv, Sound, HistoryCached, AllIn, Running, Starting
  <2> QED BY <2>2, <2>3, <2>4
<1>13. CASE StopStores
  <2>1. /\ UNCHANGED <<messages, kv, phase, overlap, batch, response>>
        /\ stop.storing /\ stale' = stop.cut /\ ~stop'.storing /\ ~stop'.cut
    BY <1>13 DEF StopStores, NoStop
  <2>2. ReplyFed' /\ NoEmptyMessage' /\ StopInv' /\ ReplayInv'
    BY <2>1 DEF ReplyFed, NoEmptyMessage, StopInv, ReplayInv, Running, Starting
  <2>3. AllIn(kv.seen) => HistoryCached'
    BY <2>1 DEF AllIn, HistoryCached
  <2>4. CacheInv'
    BY <2>1, <2>3 DEF CacheInv, Sound, StopInv, AllIn, Running, Starting
  <2> QED BY <2>2, <2>4
<1>14. CASE FinishReplay \/ Launch \/ Dispatch
  <2>1. /\ UNCHANGED <<messages, kv, overlap, prev_len, stop, stale, response>>
        /\ phase \in {"replay", "idle", "queued"} /\ phase' \in {"idle", "queued", "starting"}
        /\ phase \in {"replay", "idle"} => ~stop.storing
        /\ phase' = "idle" /\ stop.storing => overlap
    BY <1>14 DEF FinishReplay, Launch, Dispatch, engine, StopInv, Running, Starting
  <2>2. HistoryCached => HistoryCached'
    BY <2>1 DEF HistoryCached
  <2> QED BY <2>1, <2>2
          DEF CacheInv, Sound, ReplyFed, StopInv, ReplayInv, NoEmptyMessage, Running, Starting
<1>15. CASE UNCHANGED vars
  BY <1>15 DEF vars, engine, CacheInv, Sound, ReplyFed, StopInv, ReplayInv, NoEmptyMessage,
               HistoryCached, AllIn
<1> QED BY <1>1, <1>2, <1>3, <1>4, <1>5, <1>6, <1>7, <1>8, <1>9, <1>10, <1>11, <1>12, <1>13,
           <1>14, <1>15 DEF Next, Job

(***************************************************************************)
(* Between two generations the text of every message that prev_len counts  *)
(* is in the KV cache, if no batch was refused, no prompt was read after   *)
(* it was freed and no stop came before a batch was built: across replays, *)
(* truncations, replies and stops. The reply is there because every token  *)
(* of it was decoded to sample the next one.                               *)
(***************************************************************************)
THEOREM CacheCorrect == Spec => []CachedWhenSerial
<1>1. Spec => []PrevLenOnBoundary
  BY BoundaryCorrect
<1>2. TypeOK /\ TypeOK' /\ PrevLenOnBoundary /\ FedInv /\ [Next]_vars => FedInv'
  BY StepFed
<1>3. Spec => []FedInv
  BY <1>1, <1>2, InitFed, TypeCorrect, PTL DEF Spec
<1>4. FedInv => CachedWhenSerial
  BY DEF FedInv, CacheInv, Sound, CachedWhenSerial
<1> QED BY <1>3, <1>4, PTL
===========================================================================

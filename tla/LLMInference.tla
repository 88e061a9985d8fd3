--------------------------- MODULE LLMInference ---------------------------
(***************************************************************************)
(* One native engine (class LLMInference, llm_inference.cpp) driven by the *)
(* two threads that reach it through SmollAI.kt:                           *)
(*   - the generation job, which runs SmollAI.getResponse: startCompletion,*)
(*     then completionLoop until "[EOG]", then stopCompletion twice;       *)
(*   - the main thread, whose stopGeneration cancels the job and calls     *)
(*     cancelCompletion at any moment, whatever the job is in the middle   *)
(*     of: the class has no lock.                                          *)
(* start_completion and completion_loop are therefore split where they     *)
(* read or write a field that cancel_completion also touches, and the main *)
(* thread's cancel_completion is split between the length it takes of      *)
(* `messages` and the store of it in prev_len. That the two threads may be *)
(* inside one std::vector or std::string at once is not modelled.          *)
(*                                                                         *)
(* Text is measured in tokens. A message keeps its role, its size and the  *)
(* serial number of the add_chat_message call that made it; the code does  *)
(* not store `id`, `kv`, `overlap` and `stale`: they let a property say    *)
(* what the model has really been fed, and which prev_len is out of date.  *)
(***************************************************************************)
EXTENDS Integers, Sequences, FiniteSets

CONSTANTS
  NCtx,           \* llama_n_ctx(ctx)
  PromptReserve,  \* 800: tokens start_completion keeps for the reply
  LoopReserve,    \* 300: tokens completion_loop keeps
  MessagesToKeep, \* 5: messages that survive a truncation
  MaxMessage,     \* 8192: longest message that is stored whole
  Header,         \* tokens the template puts around one message
  Opening,        \* tokens of the reply opening (add_ass = true)
  InitialBuffer,  \* size of `formatted` after load_model
  Sizes,          \* sizes of a message
  Templates,      \* what the model file may carry as its chat template
  StoreChats,     \* values of the store_chats flag
  MaxAdded,       \* bound: add_chat_message calls per engine
  MaxReply        \* bound: visible tokens of one reply

ASSUME EngineAssumption ==
  /\ NCtx \in Nat /\ PromptReserve \in Nat /\ LoopReserve \in Nat
  /\ MessagesToKeep \in Nat \ {0, 1}
  /\ MaxMessage \in Nat \ {0}
  /\ Header \in Nat /\ Opening \in Nat \ {0} /\ InitialBuffer \in Nat
  /\ Sizes \subseteq Nat \ {0}
  /\ Templates \subseteq {"known", "unknown", "missing"}
  /\ StoreChats \subseteq BOOLEAN
  /\ MaxAdded \in Nat /\ MaxReply \in Nat

VARIABLES
  phase,      \* where the client of the engine is
  cancelled,  \* job.cancel() has been called on the running job
  messages, prev_len, formattedSize, response, batch, store_chats, template,
  new_len,    \* local of start_completion
  piece,      \* what the running completion_loop returns
  kv,         \* what llama_decode has put in the KV cache of ctx
  overlap,    \* a cancel_completion has run before a job had built its batch
  stop,       \* the cancel_completion of the main thread: the length it is about to
              \* store, and whether a truncation has cut the chat since it was taken
  stale,      \* prev_len is the length of a chat that a truncation has cut since
  added       \* add_chat_message calls so far

engine == <<messages, prev_len, formattedSize, response, batch, kv, added>>
vars == <<phase, cancelled, engine, store_chats, template, new_len, piece, overlap, stop,
          stale>>

Message == [role : {"system", "user", "assistant"}, size : 0..MaxMessage, id : Nat]
\* `ids` are the messages a batch has the text of, `reply` counts its tokens of the reply
\* being made; `seen` and `fed` count what llama_decode has taken of the two.
Batch == [tokens : {"null", "curr_token", "final_tokens"}, n : Int, ids : SUBSET Nat,
          reply : {0, 1}]
Cache == [used : Nat, seen : SUBSET Nat, fed : Nat, garbled : BOOLEAN, refused : BOOLEAN]
Stop == [storing : BOOLEAN, len : Nat, cut : BOOLEAN]

\* The markers the job may meet: the other ones tell of a destroyed engine or of a token
\* no sampler gives.
Sentinel == {"[CONTEXT_EXCEEDED]", "[INVALID_BATCH]", "[DECODE_ERROR]", "[LOGITS_ERROR]"}

\* The job has not yet put the prompt into a batch.
Starting == {"queued", "starting", "formatting", "batching"}
Running == Starting \cup {"looping", "sampled", "emitting", "eog", "stopped"}
Dead == {"absent", "closed", "aborted"}

(***************************************************************************)
(* llama_chat_apply_template (llama-chat.cpp, llm_chat_apply_template) lays*)
(* the messages out one after the other: the positions they take, and      *)
(* their number.                                                           *)
(***************************************************************************)
Layout(msgs) == UNION {{i} \X (1..(Header + msgs[i].size)) : i \in 1..Len(msgs)}

FormattedLen(msgs) == Cardinality(Layout(msgs))

\* The messages whose text lies beyond position `from`.
Beyond(msgs, from) ==
  {msgs[i].id : i \in {j \in 1..Len(msgs) : FormattedLen(SubSeq(msgs, 1, j)) > from}}

NullBatch == [tokens |-> "null", n |-> 0, ids |-> {}, reply |-> 0]
CurrBatch(reply) == [tokens |-> "curr_token", n |-> 1, ids |-> {}, reply |-> reply]
EmptyCache == [used |-> 0, seen |-> {}, fed |-> 0, garbled |-> FALSE, refused |-> FALSE]
NoStop == [storing |-> FALSE, len |-> 0, cut |-> FALSE]

Init ==
  /\ phase = "absent" /\ cancelled = FALSE
  /\ messages = <<>> /\ prev_len = 0 /\ formattedSize = 0 /\ response = 0
  /\ batch = NullBatch /\ kv = EmptyCache /\ added = 0
  /\ store_chats \in StoreChats /\ template \in Templates
  /\ new_len = 0 /\ piece = "empty" /\ overlap = FALSE
  /\ stop = NoStop /\ stale = FALSE

-----------------------------------------------------------------------------
\* mutant: the text is not cut
AddChatMessageWhole(role, size) ==
  /\ added' = added + 1
  /\ messages' = Append(messages, [role |-> role, id |-> added + 1, size |-> size])

\* LLMInference::add_chat_message, for a text that is not empty
AddChatMessage(role, size) ==
  /\ added' = added + 1
  /\ messages' = Append(messages,
       [role |-> role, id |-> added + 1,
        size |-> IF size > MaxMessage THEN MaxMessage ELSE size])

\* The length stop_completion and cancel_completion store in prev_len.
LengthOf(msgs) == IF template = "known" THEN FormattedLen(msgs) ELSE 0

\* mutant: the partial reply is counted, though it is not added
CancelCountsPartial ==
  /\ response' = 0
  /\ prev_len' = LengthOf(messages) + response
  /\ stale' = FALSE

\* LLMInference::cancel_completion on the job's thread, the only one that changes messages:
\* the length stays that of the chat until it is stored.
CancelCompletion ==
  /\ response' = 0
  /\ prev_len' = LengthOf(messages)
  /\ stale' = FALSE

\* add_chat_message of the reply. The model has seen its text if llama_decode has taken
\* every token of it; of a cache that refused a batch nothing is claimed. The end token and
\* the template's closing, which prev_len counts too, are never decoded.
AddReply ==
  /\ AddChatMessage("assistant", response)
  /\ kv' = [kv EXCEPT !.seen = IF ~kv.refused /\ kv.fed >= response
                                 THEN @ \cup {added + 1} ELSE @]

\* mutant: response is not cleared
StopKeepsResponse ==
  /\ IF store_chats /\ response > 0 THEN AddReply ELSE UNCHANGED <<messages, added, kv>>
  /\ UNCHANGED response
  /\ prev_len' = LengthOf(messages')
  /\ stale' = FALSE

\* mutant: the length is taken before the reply is added
StopMeasuresFirst ==
  /\ IF store_chats /\ response > 0 THEN AddReply ELSE UNCHANGED <<messages, added, kv>>
  /\ response' = 0
  /\ prev_len' = LengthOf(messages)
  /\ stale' = FALSE

\* LLMInference::stop_completion
StopCompletion ==
  /\ IF store_chats /\ response > 0 THEN AddReply ELSE UNCHANGED <<messages, added, kv>>
  /\ response' = 0
  /\ prev_len' = LengthOf(messages')
  /\ stale' = FALSE

-----------------------------------------------------------------------------
\* A new LLMInference whose load_model succeeds
LoadModel ==
  /\ phase \in Dead
  /\ phase' = "replay"
  /\ store_chats' \in StoreChats /\ template' \in Templates
  /\ messages' = <<>> /\ prev_len' = 0 /\ formattedSize' = InitialBuffer
  /\ response' = 0 /\ batch' = NullBatch /\ kv' = EmptyCache /\ added' = 0
  /\ cancelled' = FALSE /\ new_len' = 0 /\ piece' = "empty" /\ overlap' = FALSE
  /\ stop' = NoStop /\ stale' = FALSE

\* ChatScreenViewModel.loadModel adds the system prompt, then the saved turns in the order
\* of the database, which may hold two queries or two replies in a row
ReplayMessage ==
  /\ phase = "replay"
  /\ added + 2 < MaxAdded                                \* bound
  /\ \E role \in {"system", "user", "assistant"}, size \in Sizes :
       /\ role = "system" => messages = <<>>
       /\ AddChatMessage(role, size)
  /\ UNCHANGED <<phase, cancelled, prev_len, formattedSize, response, batch, kv,
                 store_chats, template, new_len, piece, overlap, stop, stale>>

FinishReplay ==
  /\ phase = "replay"
  /\ phase' = "idle"
  /\ UNCHANGED <<cancelled, engine, store_chats, template, new_len, piece, overlap, stop,
                 stale>>

\* ~LLMInference
Close ==
  /\ phase = "idle" /\ ~stop.storing
  /\ phase' = "closed"
  /\ messages' = <<>> /\ formattedSize' = 0 /\ response' = 0 /\ kv' = EmptyCache
  /\ prev_len' = 0 /\ batch' = NullBatch /\ added' = 0
  /\ cancelled' = FALSE /\ stale' = FALSE
  /\ UNCHANGED <<store_chats, template, new_len, piece, overlap, stop>>

-----------------------------------------------------------------------------
\* sendUserQuery launches the job, on the main thread: it is not in a stop
Launch ==
  /\ phase = "idle" /\ ~stop.storing
  /\ added < MaxAdded                                    \* bound
  /\ phase' = "queued" /\ cancelled' = FALSE
  /\ UNCHANGED <<engine, store_chats, template, new_len, piece, overlap, stop, stale>>

\* The dispatcher runs the job, unless it was cancelled while it was queued
Dispatch ==
  /\ phase = "queued"
  /\ phase' = IF cancelled THEN "idle" ELSE "starting"
  /\ UNCHANGED <<cancelled, engine, store_chats, template, new_len, piece, overlap, stop,
                 stale>>

\* mutant: the query is counted as fed at once
AddQueryAsFed ==
  /\ phase = "starting"
  /\ phase' = "formatting"
  /\ \E size \in Sizes : AddChatMessage("user", size)
  /\ prev_len' = LengthOf(messages') /\ stale' = FALSE
  /\ UNCHANGED <<cancelled, formattedSize, response, batch, kv, store_chats, template,
                 new_len, piece, overlap, stop>>

\* start_completion up to add_chat_message(query, "user")
AddQuery ==
  /\ phase = "starting"
  /\ phase' = "formatting"
  /\ IF store_chats THEN UNCHANGED <<prev_len, stale, formattedSize>>
                    ELSE prev_len' = 0 /\ stale' = FALSE /\ formattedSize' = 0
  /\ \E size \in Sizes : AddChatMessage("user", size)
  /\ UNCHANGED <<cancelled, response, batch, kv, store_chats, template, new_len,
                 piece, overlap, stop>>

\* mutants: the newest messages are erased; the first one is
KeptOldest(msgs) ==
  IF Len(msgs) > MessagesToKeep THEN SubSeq(msgs, 1, MessagesToKeep) ELSE msgs
KeptNewest(msgs) ==
  IF Len(msgs) > MessagesToKeep
    THEN SubSeq(msgs, Len(msgs) - MessagesToKeep + 1, Len(msgs)) ELSE msgs

\* What messages.erase leaves: the first message and the last ones
Kept(msgs) ==
  IF Len(msgs) > MessagesToKeep
    THEN <<msgs[1]>> \o SubSeq(msgs, Len(msgs) - MessagesToKeep + 2, Len(msgs))
    ELSE msgs

\* The template, laid out with the opening of the reply
PromptLen == FormattedLen(messages) + Opening

\* mutant: formatted is not resized
FormatInPlace ==
  /\ phase = "formatting"
  /\ template = "known" /\ prev_len <= PromptLen
  /\ new_len' = PromptLen
  /\ phase' = "batching"
  /\ UNCHANGED <<cancelled, engine, store_chats, template, piece, overlap, stop, stale>>

\* messages.erase and prev_len = 0. A length the main thread took before the erase is out of
\* date when it is stored; a store that falls before the reset is lost.
Truncate ==
  /\ messages' = Kept(messages)
  /\ prev_len' = 0 /\ stale' = FALSE
  /\ \/ stop' = [stop EXCEPT !.cut = stop.storing /\ (stop.cut \/ messages' # messages)]
     \/ stop.storing /\ stop' = NoStop

\* start_completion from llama_model_chat_template to the end of the truncation
FormatPrompt ==
  /\ phase = "formatting"
  /\ template = "known" /\ prev_len <= PromptLen
  /\ formattedSize' = IF PromptLen > formattedSize THEN PromptLen ELSE formattedSize
  /\ IF PromptLen - prev_len > NCtx - PromptReserve
       THEN /\ Truncate
            /\ new_len' = FormattedLen(messages') + Opening
       ELSE /\ new_len' = PromptLen
            /\ UNCHANGED <<messages, prev_len, stop, stale>>
  /\ phase' = "batching"
  /\ UNCHANGED <<cancelled, response, batch, kv, added, store_chats, template,
                 piece, overlap>>

\* The same code throws when the template is missing or not one llama.cpp knows, and
\* std::string throws when prev_len lies behind the length of the prompt. No frame of the JNI
\* bridge catches it: the process is gone.
StartAborts ==
  /\ \/ phase = "formatting" /\ (template # "known" \/ prev_len > PromptLen)
     \/ phase = "batching" /\ prev_len > new_len
  /\ phase' = "aborted"
  /\ messages' = <<>> /\ prev_len' = 0 /\ formattedSize' = 0 /\ response' = 0
  /\ batch' = NullBatch /\ kv' = EmptyCache /\ added' = 0 /\ cancelled' = FALSE
  /\ stop' = NoStop /\ stale' = FALSE
  /\ UNCHANGED <<store_chats, template, new_len, piece, overlap>>

\* The end of start_completion: the batch points into final_tokens, a local
BuildBatch ==
  /\ phase = "batching" /\ prev_len <= new_len
  /\ phase' = "looping"
  /\ batch' = [tokens |-> "final_tokens", n |-> new_len - prev_len,
               ids |-> Beyond(messages, prev_len), reply |-> 0]
  /\ kv' = [kv EXCEPT !.fed = 0]                         \* a new reply
  /\ new_len' = 0                                        \* out of scope
  /\ UNCHANGED <<cancelled, messages, prev_len, formattedSize, response, added,
                 store_chats, template, piece, overlap, stop, stale>>

-----------------------------------------------------------------------------
\* The guards at the top of completion_loop
BatchRefusal ==
  IF batch.n > NCtx - LoopReserve THEN {"[CONTEXT_EXCEEDED]"}
  ELSE IF batch.tokens = "null" \/ batch.n <= 0 THEN {"[INVALID_BATCH]"}
  ELSE {}

\* completion_loop returns a marker instead of a piece; llama_decode may also
\* fail of itself, and then takes back what it had stored
LoopFails ==
  /\ phase = "looping"
  /\ \E marker \in Sentinel :
       /\ BatchRefusal # {} => marker \in BatchRefusal
       /\ BatchRefusal = {} => marker = "[DECODE_ERROR]"
       /\ piece' = marker
  /\ phase' = "emitting"
  /\ kv' = [kv EXCEPT !.refused = TRUE]
  /\ UNCHANGED <<cancelled, messages, prev_len, formattedSize, response, batch,
                 added, store_chats, template, new_len, overlap, stop, stale>>

\* llama_decode finds room in the cache (llama-kv-cache-unified.cpp, find_slot). What it
\* reads from final_tokens, freed when start_completion returned, is still the prompt or is
\* not: then the cache is not given the texts of the messages.
LoopDecodes ==
  /\ phase = "looping"
  /\ BatchRefusal = {}
  /\ kv.used + batch.n <= NCtx
  /\ \E garbled \in IF batch.tokens = "final_tokens" THEN BOOLEAN ELSE {FALSE} :
       kv' = [kv EXCEPT !.used = @ + batch.n, !.fed = @ + batch.reply,
                        !.seen = IF garbled THEN @ ELSE @ \cup batch.ids,
                        !.garbled = @ \/ garbled]
  /\ phase' = "sampled"
  /\ UNCHANGED <<cancelled, messages, prev_len, formattedSize, response, batch,
                 added, store_chats, template, new_len, piece, overlap, stop, stale>>

\* llama_decode finds no room and returns 1 (llama-context.cpp:968), which is not < 0:
\* the next token is sampled from the logits of the decode before
LoopOverflows ==
  /\ phase = "looping"
  /\ BatchRefusal = {}
  /\ kv.used + batch.n > NCtx
  /\ kv' = [kv EXCEPT !.refused = TRUE]
  /\ phase' = "sampled"
  /\ UNCHANGED <<cancelled, messages, prev_len, formattedSize, response, batch,
                 added, store_chats, template, new_len, piece, overlap, stop, stale>>

\* The rest of completion_loop: no logits, which only a decode that failed can have lost,
\* an end token, a token that is filtered or that stop_completion will strip, or a token
\* of the reply
LoopReturns ==
  /\ phase = "sampled"
  /\ \/ /\ kv.refused
        /\ piece' = "[LOGITS_ERROR]" /\ phase' = "emitting"
        /\ UNCHANGED <<response, batch>>
     \/ /\ piece' = "[EOG]" /\ phase' = "eog"
        /\ UNCHANGED <<response, batch>>
     \/ /\ piece' = "empty" /\ phase' = "emitting"
        /\ batch' = CurrBatch(0)
        /\ UNCHANGED response
     \/ /\ response < MaxReply /\ added < MaxAdded       \* bounds
        /\ piece' = "text" /\ phase' = "emitting"
        /\ response' = response + 1
        /\ batch' = CurrBatch(1)
  /\ UNCHANGED <<cancelled, messages, prev_len, formattedSize, kv, added,
                 store_chats, template, new_len, overlap, stop, stale>>

\* mutant: emit does not look whether the job is cancelled
EmitAnyway ==
  /\ phase = "emitting"
  /\ phase' = "looping" /\ piece' = "empty"
  /\ UNCHANGED <<cancelled, engine, store_chats, template, new_len, overlap, stop, stale>>

\* emit(piece) in getResponse, which throws in a cancelled job
Emit ==
  /\ phase = "emitting" /\ ~cancelled
  /\ phase' = "looping" /\ piece' = "empty"
  /\ UNCHANGED <<cancelled, engine, store_chats, template, new_len, overlap, stop, stale>>

\* catch (e: Exception) in sendUserQuery
JobCancels ==
  /\ phase = "emitting" /\ cancelled
  /\ CancelCompletion
  /\ phase' = "idle" /\ piece' = "empty"
  /\ UNCHANGED <<cancelled, messages, formattedSize, batch, kv, added, store_chats,
                 template, new_len, overlap, stop>>

\* getResponse calls stopCompletionInternal, then sendUserQuery stopCompletion
JobStops ==
  /\ phase \in {"eog", "stopped"}
  /\ StopCompletion
  /\ phase' = IF phase = "eog" THEN "stopped" ELSE "idle"
  /\ piece' = "empty"
  /\ UNCHANGED <<cancelled, formattedSize, batch, store_chats, template, new_len,
                 overlap, stop>>

\* stopGeneration on the main thread, up to the length cancel_completion takes of messages.
\* What the job does between job.cancel(), response.clear() and this reading of messages
\* leads to the same states when the three come at the reading.
UserStops ==
  /\ phase \in Running /\ ~cancelled
  /\ cancelled' = TRUE
  /\ response' = 0
  /\ stop' = [storing |-> TRUE, len |-> LengthOf(messages), cut |-> FALSE]
  /\ overlap' = (overlap \/ phase \in Starting)
  /\ UNCHANGED <<phase, messages, prev_len, formattedSize, batch, kv, added, store_chats,
                 template, new_len, piece, stale>>

\* The rest of it: prev_len is stored, in the middle of whatever the job has come to, or
\* when the job is over
StopStores ==
  /\ stop.storing
  /\ prev_len' = stop.len /\ stale' = stop.cut
  /\ stop' = NoStop
  /\ UNCHANGED <<phase, cancelled, messages, formattedSize, response, batch, kv, added,
                 store_chats, template, new_len, piece, overlap>>

Job == \/ Dispatch \/ AddQuery \/ FormatPrompt \/ StartAborts \/ BuildBatch
       \/ LoopFails \/ LoopDecodes \/ LoopOverflows \/ LoopReturns
       \/ Emit \/ JobCancels \/ JobStops

Next == \/ LoadModel \/ ReplayMessage \/ FinishReplay \/ Close \/ Launch
        \/ UserStops \/ StopStores \/ Job

\* The dispatcher keeps running a job it has; nobody has to load, send or stop.
Spec == Init /\ [][Next]_vars /\ WF_vars(Job)

-----------------------------------------------------------------------------
\* The engine's fields have their types.
TypeOK ==
  /\ phase \in Running \cup Dead \cup {"replay", "idle"}
  /\ cancelled \in BOOLEAN /\ overlap \in BOOLEAN /\ stale \in BOOLEAN
  /\ store_chats \in BOOLEAN /\ template \in {"known", "unknown", "missing"}
  /\ messages \in Seq(Message)
  /\ prev_len \in Nat /\ new_len \in Nat /\ formattedSize \in Nat
  /\ response \in Nat /\ added \in Nat
  /\ batch \in Batch /\ kv \in Cache /\ stop \in Stop
  /\ piece \in Sentinel \cup {"empty", "text", "[EOG]"}

\* start_completion builds a string from formatted[prev_len, new_len): the range is inside the
\* buffer, and ordered wherever cancel_completion strikes, through truncations and buffer
\* resizes, but for one case: the stop took its length before a truncation and stored it after.
\* Then it may be reversed, in this job or in the next one, and the process ends.
PromptInBuffer ==
  /\ phase = "formatting" => prev_len <= PromptLen \/ stale
  /\ phase = "batching" => (prev_len <= new_len \/ stale) /\ new_len <= formattedSize

\* prev_len falls on the end of a message, so a prompt never starts in the middle of one,
\* unless it is the length a stop took before a truncation and stored after it.
PrevLenOnBoundary ==
  \/ stale
  \/ \E k \in 0..Len(messages) : prev_len = FormattedLen(SubSeq(messages, 1, k))

\* While the job works on a reply, the last message is the user's query: the
\* truncation never drops the question being answered.
QuestionKept ==
  phase \in {"batching", "looping", "sampled", "emitting", "eog"} =>
    /\ messages # <<>>
    /\ messages[Len(messages)].role = "user" /\ messages[Len(messages)].id = added

\* The engine records a reply only behind the query it answers: never twice, though
\* stop_completion runs twice per reply and a stop may come between the two. What the
\* database replays may still hold two replies in a row.
NoDoubleReply ==
  [][phase # "replay" /\ Len(messages') > Len(messages)
       /\ messages'[Len(messages')].role = "assistant" =>
         messages # <<>> /\ messages[Len(messages)].role = "user"]_vars

\* The messages whose layout ends within prev_len have their text in the KV cache. The end
\* token and the template's closing of a reply are never decoded, whatever prev_len counts.
HistoryCached == \A i \in 1..Len(messages) :
  FormattedLen(SubSeq(messages, 1, i)) <= prev_len => messages[i].id \in kv.seen

\* The text of every message that prev_len counts as already fed is in the KV cache between
\* two generations, unless a batch was refused, a prompt was read after it was freed, or a
\* stop came before a job's batch was built.
CachedWhenSerial ==
  phase = "idle" /\ ~kv.refused /\ ~kv.garbled /\ ~overlap => HistoryCached

\* The first message, the system prompt when there is one, is never dropped or
\* replaced while the engine lives.
HeadKept ==
  [][messages # <<>> /\ phase' \notin Dead =>
       messages' # <<>> /\ messages'[1] = messages[1]]_vars

\* The second stop_completion of a reply adds nothing to what the model will see, and moves
\* prev_len only beside a stop, which may have stored a length without the reply.
SecondStopIsIdle ==
  [][phase = "stopped" /\ phase' = "idle" =>
       /\ UNCHANGED <<messages, formattedSize, response, batch, kv, added>>
       /\ cancelled \/ UNCHANGED prev_len]_vars

\* A cancelled job ends: the loop notices at the next emit, markers included.
StopHonoured == (phase \in Running /\ cancelled) ~> phase \notin Running

-----------------------------------------------------------------------------
\* What comments of the source say and the code does not do.

\* "key, value pairs of all previous tokens have been cached in the KV cache"
\* (llm_inference.cpp:320), between two generations, where no batch was refused and no
\* prompt was read after it was freed.
AllPreviousTokensCached == phase = "idle" /\ ~kv.refused /\ ~kv.garbled => HistoryCached
===========================================================================

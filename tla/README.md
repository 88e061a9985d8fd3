# A TLA+ model of SmollAI

SmollAI is an Android application that runs language models on the device. This
directory models the part of it that carries its own logic: the native engine, the
wrapper around it, the view model of the chat screen with its coroutines, the
databases and the model files; and, of the llama.cpp it is built on, the two parts whose
state outlives a call: the KV cache and the thread pool. It holds TLA+ modules, TLC
configurations, and proofs for TLAPS.

Paths below are relative to `src/`; `app/…` stands for
`app/src/main/java/io/smollai/smollaiandroid/`.

## 1. The system

| Component | Source | State it keeps | Operations | Model |
|---|---|---|---|---|
| Native engine | `smollai/src/main/cpp/llm_inference.cpp`, `.h` | the list of messages, `formatted` and its size, `prev_len`, `response`, `batch`, `store_chats`; the llama.cpp model, context (KV cache) and sampler | `load_model`, `add_chat_message`, `start_completion`, `completion_loop`, `stop_completion`, `cancel_completion`, destructor | `LLMInference` |
| Bridge and wrapper | `smollai.cpp`, `SmollAI.kt` | `nativePtr` | one method per engine operation; `getResponse` turns start, loop and stop into a flow | `SmollAI` |
| Chat view model | `app/ui/screens/chat/ChatScreenViewModel.kt` | `currChatState`, `isGeneratingResponse`, `partialResponse`, `responseGenerationJob`, `isInitializingModel`, the dialog flags | `sendUserQuery`, `stopGeneration`, `switchChat`, `deleteChat`, `deleteModel`, `updateChatLLM`, `updateChat`, `loadModel` | `ChatScreenViewModel` |
| Chat screen | `ChatActivity.kt`, `ChatMoreOptionsPopup.kt`, `EditChatSettingsScreen.kt`, `DrawerUI` | what is shown, `LaunchedEffect(currChat)` | the buttons and their guards, the import of a model file | `ChatScreenViewModel` |
| Chat and message databases | `app/data/ChatsDB.kt`, `MessagesDB.kt` | rows in ObjectBox | add, get, update, delete | variables of `ChatScreenViewModel` |
| Model database, files, setup, preferences | `ModelsDB.kt`, `ModelsRepository.kt`, `ModernModelSetupActivity.kt`, `ChatActivity.kt`, `SmollAIPreferences.kt` | rows, files, the selection and the setup mark in memory and on disk | copy, add, select, delete, the purge at start | `ModelStore` |
| CPU thread pool | `llama.cpp/ggml/src/ggml-cpu/ggml-cpu.c` | `ggml_threadpool`, its mutex and condition variable, the workers' states | `ggml_graph_compute`, `ggml_barrier`, new, free, pause, resume | `ThreadPool`, `GgmlBarrier` |
| KV cache | `llama.cpp/src/llama-kv-cells.h`, `llama-kv-cache-unified.cpp`, and `llama_context::decode` around it | cells, `head`, the rows of keys, pending shifts | sequence operations, `find_slot`, `prepare`, `apply_ubatch`, `update`, `decode` | `KVCache`, `KVCells` |
| Tasks | `TasksDB.kt`, `manage_tasks/` | rows | — | none: the activity is an empty file |
| Web view, welcome, theme, syntax highlighting | `webview/`, `welcome/`, `ui/theme/`, `prism4j/` | layout | — | none: no state shared with the chat |
| llama.cpp, the rest | `llama.cpp/` | vendored | — | only what the engine observes of it |

### How the parts interact

* The **main thread** runs every input handler, the effect that calls `loadModel`
  whenever `currChatState` takes a new value, and the tail of a job that switches
  to `Dispatchers.Main`.
* `sendUserQuery` launches a **generation job** on `Dispatchers.Default`. It runs
  `getResponse`, appends every piece to `partialResponse`, and in `finally` stores
  that field in `MessagesDB`.
* `loadModel` launches a **load job**: `create`, the system prompt, then the
  messages of the chat. Nothing stops a second load from running beside the first.
* The **import** of a model file runs on `Dispatchers.IO`: it copies the file, adds
  the row, stores the selection, and calls `updateChatLLM` and `loadModel` from there.
  The setup screen copies the first model in the same way.
* All of them share one `SmollAI` object, which reads `nativePtr` anew in each
  call. Neither it nor the engine has a lock.
* `completion_loop` calls **`llama_decode`**, which asks the KV cache for the slots of a
  batch and computes a graph for each part of it. A graph is computed by the caller and
  the **workers** of a pool, which meet at a barrier between two nodes and take chunks of
  a matrix multiplication from a shared counter.

### What is hard

Coroutines that overlap on the engine (a stop while `start_completion` runs, two
loads, a load beside a generation); fields shared by an old and a new job
(`partialResponse`); state read before a switch of dispatcher and used after it
(the import); cancellation, which takes effect only where a coroutine looks for it;
a pointer that stays after `close`; the death of the process or the recreation of
the activity in the middle of a job, a copy or a deletion; a KV cache, a prompt buffer
and a message list with limits; counters that repeat what other fields say; a batch that
is stored on trial and taken out again; workers that go from polling to sleeping while a
graph is published, and a barrier that is entered again before everybody has left it.
`PROJECT.json` lists each as a hazard, at its line, with the properties that watch it.

### What makes each component correct

* Engine: the prompt handed to the tokenizer lies inside the buffer and starts at a
  message; the messages that `prev_len` counts are cached; a truncation keeps the question
  and the head; a reply is recorded behind its question.
* View model: a job that runs is one the user can stop, and a stopped job ends; a
  spinner that shows has a load behind it and goes away; a reply is stored once and
  after its query; the engine was given the chat it serves.
* Databases: what is deleted stays deleted; what was running when the process died
  leaves a chat that still reads as one.
* Model store: a model that is offered has its whole file; a deletion that can leaves no
  file without a row; a setup that is recorded has its model.
* Thread pool: every chunk is computed once and nodes do not overlap; nobody uses the
  parameters of a graph that is over; no wakeup is lost.
* KV cache: to its user it is a set of tokens with positions and sequences; room that
  is there is found; a decode that fails leaves it as it was.

## 2. The modules

| Module | What it is |
|---|---|
| `LLMInference.tla` | one engine, the job that drives it and the main thread that cancels it |
| `LLMInferenceProofs.tla` | theorems about it: types, `prev_len`, the prompt, the messages, what is cached |
| `SmollAI.tla` | `nativePtr`, the bridge, and a coarse engine behind it |
| `ChatScreenViewModel.tla` | extends `SmollAI`: view model, screen, databases, jobs |
| `ChatScreenViewModelProofs.tla` | theorems about it: the stop button, the spinner, the stored chats, what a load gives the engine |
| `ModelStore.tla`, `ModelStoreProofs.tla` | model files, rows and preferences, and theorems about them |
| `Rendezvous.tla` | what a barrier promises |
| `GgmlBarrier.tla` | `ggml_barrier` |
| `ThreadPool.tla` | extends `GgmlBarrier`: the pool, its workers, a graph |
| `ThreadPoolProofs.tla` | the barrier is a rendezvous; theorems about the pools whose graphs use all of their threads |
| `KVCells.tla`, `KVCellsProofs.tla` | the methods of `llama_kv_cells_unified`, and the proof that they keep it consistent; induction for the loops |
| `KVStore.tla` | what the KV cache is to its user |
| `KVCache.tla` | extends `KVCells`: the unified cache and `llama_decode`; implements `KVStore` |
| `Loops.tla` | what is true of a loop over a sequence once its body keeps it true |
| `KVCacheLemmas.tla` | what each operation of the cache does to cells, tokens and data |
| `KVCacheProofs.tla` | theorems about the cache, that it is a `KVStore`, and what a sliding window takes from it |
| `MC….tla` | values for TLC |

`PROJECT.json` maps each definition to the lines it stands for. Definitions with a
comment that begins with `mutant:` are plausible bugs, used to see that each property
can fail; nothing else refers to them.

### LLMInference

Text is measured in tokens: a message is a role, a size and a serial number. The
layout of a chat is a set of positions (`Layout`), one block after the other, so the
length of a formatted chat is a cardinality. `prev_len`, `formattedSize`, `response`,
`batch`, `messages`, `store_chats` are the fields of the class. `phase` is where the
client stands. Four variables are not fields, they say what a property compares the fields
with: `kv`, what `llama_decode` has taken; `overlap`, that a stop struck before a job had
its batch; `stop`, which holds the length that `cancel_completion` on the main thread has
taken of `messages` and not yet stored in `prev_len`, and whether a truncation has cut
the chat since; `stale`, that such a length has been stored.

| Action | Code |
|---|---|
| `LoadModel`, `ReplayMessage`, `FinishReplay`, `Close` | `load_model`, the load job's additions, the destructor |
| `Launch`, `Dispatch` | the launch of the job, and the dispatcher, which drops a job cancelled while queued |
| `AddQuery`, `FormatPrompt` (with `Truncate`), `BuildBatch` | the three parts of `start_completion` between which `cancel_completion` may read `messages` or rewrite `prev_len` |
| `StartAborts` | its two `throw`s, and that of `std::string` for a range whose end lies before its begin; no frame catches them: the bridge's `startCompletion` has no handler |
| `LoopFails`, `LoopDecodes`, `LoopOverflows`, `LoopReturns` | `completion_loop`: the guards, `llama_decode` with and without room, the token |
| `Emit`, `JobCancels`, `JobStops` | `emit` of the flow, the `catch` block, the two calls of `stop_completion` |
| `UserStops` | `stopGeneration` on the main thread, at any moment of the job, up to the length that `cancel_completion` takes |
| `StopStores` | the store of that length in `prev_len`, at any later moment, the job may be over by then |

The main thread does nothing else between the two (`Launch` and `Close` wait for the
store). On the job's own thread `cancel_completion` is one step (`CancelCompletion`),
because that thread alone changes `messages`. A replay may hold any order of turns, as the
database may: a late reply is stored behind a later query.

Two things of the C++ are choices here. The batch points into `final_tokens`, a local
of `start_completion`; what the first decode reads is the prompt or something else
(`garbled`), and then none of its messages counts as seen (`kv.seen`). A reply counts as
seen when each of its tokens has been decoded (`kv.fed`); the end token and the template's
closing of a reply, which `prev_len` counts too, never are, and nothing is claimed of
them. `llama_decode` returns 1 when it finds no room, which the test `< 0`
takes for success (`LoopOverflows`).

### SmollAI

`engine` is the record `nativePtr` leads to: null, open or freed, its model, the
messages it was given, whether it was ever started. Every native method is a `Call`:
the bridge ignores a null pointer (`completion_loop` answers `[ERROR]`), and a freed
engine is undefined behaviour, taken to be that the process dies or that nothing
shows. The `assert`s of `SmollAI.kt` are not evaluated by the Android runtime. An
engine that `create` replaces is never freed and never reached again, so it is not
kept.

### ChatScreenViewModel

Each handler of the main thread is one action and holds all it does: `SwitchChat` is
`stopGeneration` and the assignment, `DeleteModel` the row, the copy and the `close`.
A job is cut at each call of the wrapper, of a database and of a dispatcher:
`GenStart`, `GenStartCompletion`, `GenLoop`, `GenLoopEnds`, `GenEmit`, `GenStop`,
`GenCancel`, `GenSave`, `GenFinish` follow `sendUserQuery` and `getResponse`;
`LoadCreate`, `LoadPrompt`, `LoadReplay`, `LoadFinish` follow `loadModel`;
`ImportStart` … `ImportLoad` follow `copyAndSetNewModel`. Where a guard of a button is
in a composable, the action has it.

What the model takes for granted of Android:

* an input comes after the frame that shows the result of the last one, so
  `RunEffect` has run (`Input`); jobs know no such order;
* `emit` throws in a cancelled job; a job cancelled while queued never runs its body
  or its `finally`; `withContext(Dispatchers.Main)` in the `finally` of a cancelled
  job throws at once, so it does not reset `isGeneratingResponse`;
* an ObjectBox call is one transaction, and an id is never given twice;
* `by inject()` of a Koin factory gives each `ChatActivity` a new view model and a new
  `SmollAI`: a rotation leaves the jobs of the old view model running with its fields,
  out of reach (`Recreate`). Such a job is kept as what it may store in the end
  (`GenLeft`): any part of what its field may come to hold, an over-approximation;
* a confirmation dialog is taken as given at once.

`Prompted` are the chats whose system prompt is not empty (`loadModel` skips an empty one);
which they are does not change. `crossed` is not in the code: it remembers what the last
load met when it was launched, no other load ("no"), only loads of the same chat and model
("alike"), or others ("mixed"). A selection and the settings always start two loads, their
own and the effect's.

### ModelStore

A file is absent, partly written or whole; a row is an identifier and a name. `file`,
`rows` and `disk` survive the process, `mem` (the preferences in memory), `main` and
`job` do not. `Pick`, `Open`, `Copied`, `NoStream`, `Fail`, `Add`, `Select`, `Complete`
are the steps of `copyAndSetNewModel` and `copyModelFile`; `MakeRepository` and `Purge`
are the `init` of `ModelsRepository`; `Delete` and `DeleteModel` its `deleteModel`, file
first. `Flush` is the thread that writes preferences some time after `apply()`. `Kill`
may come between any two steps; a job that was copying leaves a partial file.
`File.delete()` may fail (`UnlinkFile`), and the row goes all the same.

`FileOutputStream` truncates what another job is still writing, and a deletion unlinks a
file from under a job (`linked`, `alone`). `odd` is not in the code: it remembers the
names for which an import met a row or another import of that name, or a document that
gave no stream. For those the list of models may offer a file that is empty, mixed or
gone, and no text of the repository says otherwise; the properties are about the others,
and say with that that the damage stays with the name it was done to.

### GgmlBarrier and ThreadPool

The application builds llama.cpp without OpenMP, so the pool is ggml's own. Every read
or write of a shared variable is a step, and memory is sequentially consistent: the
code's fences and atomics are taken to give that order, reorderings below it are not
modelled. A critical section that only reads what the mutex protects is one step; those
of thread 0 that write are several, with `mutex` held.

| Action | Code |
|---|---|
| `Enter` … `Exit` | `ggml_barrier`, one atomic operation each |
| `NewDisposable`, `NewPersistent`, `Submit`, `Return` | `ggml_threadpool_new_impl`, `ggml_graph_compute` |
| `Kick`, `Publish`, `Wake` | `ggml_graph_compute_kickoff` |
| `SetPause`, `FreePersistent`, `SetStop`, `ClearPause`, `Join` | pause, resume, free |
| `LookAtPause` … `SleepReady` | a worker that polls, sleeps or is paused |
| `Start`, `For`, `Node`, `Chunk`, `Fetch`, `After` | `ggml_graph_compute_thread`, with `ggml_compute_forward_mul_mat` as the operation of every node |

A disposable pool, which is made for one graph and freed with it, is all that the
application uses; a persistent one serves the graphs of other users of the library.
Nodes are matrix multiplications because those share chunks through `current_chunk`;
other operations divide their rows by thread number and touch nothing shared.

`Inside` and `Leaving` map the barrier to `Rendezvous`: a waiting thread is inside as
long as the `n_barrier_passed` it read is the current one.

### KVCells and KVCache

`KVCells` has an operator for each method of `llama_kv_cells_unified`, on a record with
the class's fields, and a specification in which they are called in any order their
assertions allow. `KVCache` builds the sequence operations, `FindSlot`, `Apply`,
`Prepare`, `DefragPrepare`, `KShift` and `Update` on it, as operators on a record of
cells, head and data, because `prepare` runs them on trial; `Decode` puts them together
as `llama_context::decode` does, and each ubatch is then one `Compute` or
`ComputeFails`. `data` stands for the tensors: the token a row was computed from and the
position its key is rotated to.

`KVStore` is the cache as `llama.h` describes it: a set of tokens, each at a position
and in some sequences. `Entries` is that set, read off the cells; slots, moves, shifts
and failures do not show in it.

What the model leaves out: the outputs, the mask, saved states, the recurrent and hybrid
memories, and of `llama_kv_cache_unified_iswa` the half that does not slide. With a
sliding window a batch has tokens of one sequence. `seq_cp` is called as its cells
assert, for tokens that are not in the other sequence.

## 3. The runs

`expect: pass`:

| Run | Question | Bounds |
|---|---|---|
| `engine_chat` | Are buffer, boundary, cache and record right, and what does a truncation keep, with a stop that measures at one moment and stores at another, every template, both values of `store_chats`? | 5 messages, `NCtx` 9, replies of up to two tokens, two messages survive a truncation |
| `app_generate` | Two queries in two chats, stops, switches, deletions, recreations and deaths of the process: is any job out of reach, does each reply answer its query? | two queries: one job still ending beside a new one; two chats, interchangeable; two jobs at a time |
| `app_life` | Loads of the effect, the dialog, the settings and an import overlap, beside a query, with recreations and deaths: does the spinner go away, has the engine the chat of its model, once or at least whole, does a stopped job end? | two loads, one query, one import, at most two of them at a time; one chat with a saved query, one model |
| `store` | Imports, deletions and the purge, with failures and the process dying anywhere: are rows whole, are files left behind only by `File.delete()` that fails, is the setup in order? | two imports at a time, two names, three rows |
| `pool` | Graphs on both kinds of pool, with aborts, pauses and frees: is each chunk computed once, do nodes stay apart, is the barrier a rendezvous, does everything end? | three threads, two graphs of two nodes, `Wrap` 2 |
| `kv` | Every operation but division on two sequences, ubatches that fail: is the cache the store its user sees, with its keys rotated, its counts right and its room found? | three cells, positions to 2, batches of three in ubatches of two |
| `kv_window` | A sliding window: does what is overwritten and purged lie out of the window, and do positions stay consecutive, also when ubatches fail? | window of two, five cells, batches of one ubatch of up to three, positions to 10 |

`engine_chat` is bounded so that what the constants guard does happen. A replayed turn,
a query, its reply, and a second query with its reply make five messages (`MaxAdded`), so
that a job is left for what a late store did to the one before. The reserves and
`NCtx` keep their order (`LoopReserve` < `PromptReserve` < `NCtx`) and are small enough
that the truncation, the refusal of a batch, the resize of the buffer and the overflow
of the cache all occur. Two survivors instead of the code's five let the first query
after a load truncate, as a long chat does; the theorems hold for any number from two
on. Queries and replayed turns are long enough to be cut, replies are shorter; one of two
tokens has a token that the cache has taken and one that it may not have.

The application's bounds: two queries, because a job shares its fields with the job
launched after it was stopped; two loads, for the same reason, and because a selection
starts two. `MaxJobs` bounds how many loads, generations and imports run at one time: two
interleave, a third waits. `Inputs` leaves out, run by run, what the question does not
need: `app_generate` has no dialog, settings or import, `app_life` one chat, so that its
loads are alike or alone. Loads of different chats or models that overlap ("mixed") are
allowed by the model and promise nothing: the engine may end up with parts of both, and
no text of the repository says otherwise. `Recreate` waits for the import to end, and
`DeleteChat` asks that another chat id be left.

`store`: a second import is what an import can collide with, a second name shows that a
collision stays with its own, and three rows let one be deleted, one be added twice.
Jobs and names are interchangeable (`SYMMETRY`; no liveness is checked there).

`pool`: the third thread is the one that can be late while two others are already in the
next barrier; two nodes and two graphs put a barrier, a graph and a free after each
other; `Wrap` 2 is the smallest counter that changes at all, so that a thread that could
be overtaken by two barriers would be seen. `NChunks` 8 is below and at four chunks per
thread, so both branches of the re-chunking are taken; a persistent pool is asked for as
many threads as it has and for more.

`kv`: three cells and two sequences give shared cells, holes, a wrapped search and a
full cache; a batch of three has a ubatch that fails after one that did not. Offsets of
0 leave out the callers that number their tokens wrongly; `kv_window` has them. There
the cache has the size `llama_kv_cache_unified_iswa` gives it, the window and a ubatch,
and MaxPos lets the window pass over all cells twice. Its batches are single ubatches:
for several, `Consecutive` is not true (see below). A shift of a cell is bounded by
`MaxShift`, and a division waits until keys are where they belong.

Deadlock is checked in every run but those of `ThreadPool`, where the user may stop for
good after `MaxGraphs` graphs: the application always accepts an input or a start, the
store a start, the cache a call.

`expect: violation`. Each checks one sentence of the source, and TLC shows a behaviour
of the code that contradicts it; the finding in `PROJECT.json` quotes the line.

| Run | What happens |
|---|---|
| `engine_cached` | a stop before the first decode counts the query as cached, and the next prompt leaves it out |
| `app_deleted` | the import of a model reads the chat on the screen to give it the model (`updateChatLLM`, off the main thread); the chat is deleted; the import writes its copy back, and the chat is in the database again, without its messages, though the screen has said "Chat … deleted" |
| `kv_shared` | a ubatch with a token of two sequences fails, and the token is taken out of the first one only |
| `kv_trial` | a user has removed the first token; the second ubatch of a batch overwrites a cell on trial, the purge takes tokens that the first ubatch attends to, and `prepare` puts back only the overwritten cells |
| `pool_resize` | graphs with different numbers of threads on one pool: a worker reads `n_graph` of one graph and `n_threads_cur` of the next, takes part in it, and runs it once more when it is over |

The application does not meet the last three: it has one sequence, it does not remove
single tokens, and its pools serve one graph.

The model has other behaviours that a reader may not expect, which no run is spent on
because no text of the repository speaks of them:

* engine: a stop may take the length of the chat before a truncation and store it after:
  `prev_len` is then the length of a chat that is gone, the next prompt begins in the
  middle of a message, or the range is reversed and `std::string` throws, in this job
  (`llm_inference.cpp:228`) or the next (`:188`); `PrevLenOnBoundary` and
  `PromptInBuffer` say that nothing else does that;
* engine: a truncation may keep an answer whose question it drops; the guard of
  `completion_loop` looks at one batch, and the cache overflows (`LoopOverflows`); the
  prompt may be decoded from a freed vector (`garbled`); an unknown chat template ends
  the process at the first query (`StartAborts`);
* view model: the text of a stopped job may be stored as the reply to the next query;
  two loads at a time replay a chat twice into one engine (`LoadedWhole` says that it is
  in there whole), and the first of them to end opens the input for a query which the
  second may read from the database and add again; a deleted chat gets the row of its
  job's partial reply, which is not shown. `RepliesAnswer` is checked and proved without
  imports, because a chat that an import put back (`app_deleted`) has lost its messages
  and may get replies of its old jobs; a chat whose model is gone is served by the engine
  that was loaded before; after a `create` that failed a query goes to the null pointer,
  and its loop shows `[ERROR]` until it is stopped;
* model store: a file that could not be deleted has no row any more, and stays until a
  document of its name is imported;
* KV cache: `pos_div` records its shift with the opposite sign of `pos_add`, so keys are
  rotated the wrong way (`KeysRotated` fails as soon as "div" is among `UserOps`); the
  check of `llama_batch_allocr` that positions do not decrease refuses nothing
  (`cur_seq_pos` is never assigned, `llama-batch.cpp:321`), and with a batch that
  descends over two ubatches the removal of a failed one would take tokens of the one
  before: no such batch is in the model, whose callers count up (`Batches`); the graph of a defragmentation that fails leaves cells with the rows of others (`MayFail`
  may hold "defrag");
* KV cache with a window, a batch of several ubatches: `prepare` puts back what the
  ubatches had overwritten on trial, but not what the purge took with it. If the decode
  then does not overwrite it, positions are missing in the middle of a sequence, where
  the comment in `apply_ubatch` (`llama-kv-cache-unified.cpp:705`) wants "all positions
  between [pos_min, pos_max]" to be there. It is the cause of `kv_trial` with another
  effect, and comes about in two ways. A later ubatch has no slot, because another
  sequence has the cells (`Consecutive` fails with `NCells = 7`, `NSwa = 2`, `NUbatch =
  3`, `NBatch = 6`, `MaxPos = 9`, `Seqs = {0, 1}`, `Words <- Apart`, `Ranges <- Whole`,
  `UserOps = {"rm"}`, no failures). Or an earlier ubatch fails (`MCKVCache_trial.cfg`
  with "ubatch" in `MayFail` and `MaxPos = 9`). With one sequence and no failures TLC
  has found no hole. A prompt of the application is several ubatches as soon as it
  exceeds 512 tokens (`n_ubatch`), so the theorems about the window (section 4) do not
  cover it entirely.

### Fairness

`LLMInference`: weak fairness of the job as a whole, since a dispatcher that has a
runnable coroutine runs it. None for the user, who need not load, send or stop, and none
for the store of a length (`StopStores`), which `StopHonoured` does not wait for.
`ChatScreenViewModel`: weak fairness of the frame's effect, of the import, of each
load job and of each generation job, each a coroutine of its own to a dispatcher. A job
that was left behind by a recreation ends
if it was cancelled; an uncancelled one may generate for ever. Nothing is assumed of
the model: it may never produce its end token, so `StopHonoured` speaks of jobs that
were stopped. A load is finite, so `InitializingEnds` needs no more than its steps.
`ThreadPool`: weak fairness of each thread inside a graph and of each worker's loop, and
of thread 0 inside `ggml_graph_compute` and the free, since the operating system runs
every runnable thread; none for what its caller does between, nor for wakeups without a
cause. `ModelStore` and `KVCache` have none: nothing is promised of them but safety.

## 4. What is proved

All theorems hold for every value of the constants that satisfies the assumption of the
module (any context size, reserves and message sizes; any number of threads, cells,
sequences, imports, names). The structure is the same in each module: an inductive
invariant, a lemma per action, and a last step by PTL.

**`LLMInferenceProofs`**, from `EngineAssumption` (at least two messages kept by a
truncation):

* `TypeCorrect == Spec => []TypeOK`;
* `BoundaryCorrect == Spec => []PrevLenOnBoundary`: a prompt never starts inside a
  message, unless `prev_len` is `stale`;
* `PromptCorrect == Spec => []PromptInBuffer`: the range `[prev_len, new_len)` that
  `start_completion` copies is inside `formatted`, and ordered unless `prev_len` is
  `stale`.

Both say that of all interleavings of a stop one alone does damage, the store of a length
that was taken before a truncation. `PromptInBuffer` is not inductive: between
`FormatPrompt` and `BuildBatch` the main thread may replace `prev_len` by a length it
holds since before. The inductive invariant is

    IInv == PrevLenOnBoundary /\ StopOnBoundary /\ PromptReady

where `StopOnBoundary` says that the length a stop holds is the end of a message of the
chat until a truncation cuts it, and `PromptReady` that, in that window, `new_len` is
still the length of the messages that are there, with the opening of the reply, and fits
the buffer. A `prev_len` on a boundary is the length of a prefix, a prefix is no longer than the
whole (`PrefixLen`), so `prev_len <= new_len`. The truncation needs that a selection
of distinct messages is no longer than the chat (`SelectionLen`, by an injection of
layouts; `KeptLen` applies it to what `messages.erase` leaves), so that the buffer,
sized before the truncation, still holds the shorter prompt.

`QuestionCorrect`, `NoDoubleReplyCorrect`, `HeadCorrect` and `SecondStopCorrect` are
about the messages, for `QuestionKept`, `NoDoubleReply`, `HeadKept` and
`SecondStopIsIdle`. The replay may have left any order of turns, so that `NoDoubleReply`
speaks of what the engine itself records: behind a query only. The invariant is

    TurnsInv == QuestionLast /\ StoppedOnce /\ StopIsCancel /\ DeadIsEmpty

`StoppedOnce` says what the first `stop_completion` of a reply leaves for the second;
between the two a stop of the user may store a length without the reply, and then, and
only then (`StopIsCancel`), the second call moves `prev_len`.

`CacheCorrect`, for `CachedWhenSerial`, is about the cache. What has been fed to it is
compared with the messages during the whole turn, not only at its end,
and an empty message would hide a boundary:

    FedInv == NoEmptyMessage /\ CacheInv /\ ReplyFed /\ StopInv /\ ReplayInv

`ReplyFed` counts the tokens of the reply that were decoded: all but the one in the batch,
so that at the end token, which is asked for after a decode, none is missing. `StopInv`
says that a length which a truncation has overtaken comes from a stop that struck before
the batch was built.

**`ChatScreenViewModelProofs`**, from `ViewModelAssumption` and `FirstRowsAssumption`
(what earlier sessions stored reads as a chat):

* `TypeCorrect` and `SpinnerCorrect`, for `TypeOK` and `SpinnerHasLoad`, by

      TypeInv == TypeOK /\ LoadInv /\ ImportHasModel

  where `LoadInv` says that the spinner has a load and a load a chat, and
  `ImportHasModel` that what the import will write is a model, so that the
  current chat keeps its type;
* `RunawayCorrect`, for `NoRunawayJob`, which is inductive once types are known: only
  `Send` makes a job active, and its guard excludes another one; `GenFinish` of a
  stopped job leaves `isGeneratingResponse` alone;
* `RepliesCorrect`, for `RepliesAnswer`, where no model is imported (`Imported = {}`). It
  rests on `ShownInv`, that a chat on the screen is in the database, which the import
  breaks: it may write a copy of `currChatState` that a deletion has overtaken
  (`app_deleted`). Replies follow their queries by

      ReplyInv == EmptyChats /\ JobChats /\ QueryStored /\ Unsent /\ RepliesAnswer

  `QueryStored` is what makes the late store of a reply right: as long as a job waits to
  store it, either its chat is deleted or the query is there and has no reply, and no
  step of another job, view model or process changes that;
* `OnceCorrect`, for `LoadedOnce`, for any number of loads at a time. `LoadedOnce` speaks of
  the moments when nothing is due or running and the last load met no other
  (`crossed = "no"`; two that overlap replay the chat twice, `LoadedWhole` is what TLC
  checks of them). A load that was launched alone may be met later, but then that later
  one is the last: so as long as `crossed` is "no" at most one load runs (`OneLoad`). The
  invariant behind it speaks of the load on its way there:

      OnceInv == Current => /\ \A l \in Loads : Loading(l) => LoadOfCurrent(l)
                            /\ no load runs and an engine is there => it is the model's,
                               and was given the whole chat

  The chat on the screen is `Current` when `crossed` is "no", no effect is due for it, its
  model is there, no import is about to change it and no query has been sent. A load that
  runs then is a load of this chat and model, and what it has given the engine followed by
  what it has still to give is the system prompt and the stored messages (`Given`). An
  input that switches or edits makes an effect due and takes `Current` away, while a load
  of the former chat goes on; if it still runs when the effect launches another, `crossed`
  is no longer "no", until a load is launched that is alone again, with an engine of its
  own.

**`ThreadPoolProofs`** first has the barrier on its own: `BarrierTypeCorrect`,
`BarrierCorrect`, and `BarrierImplementsRendezvous == Spec => IsRendezvous`. By `BarrierInv` the counter counts
exactly the threads that wait with the current `n_barrier_passed`, except while the one
that completed the count is between its reset and its last step, when all others wait.
So nobody can read `n_barrier_passed` in the middle, it changes once per meeting, and
two values are enough for the inequality to be seen: the counter may wrap around.

Then the pools whose graphs use all of their threads, with any number of threads, nodes,
chunks and graphs, with aborts, pauses and frees:

    Steady == "persistent" \in Kinds => \A n \in Requests : n >= NMax

The application's pools are among them, which serve one graph each, and so is the
instance of the run `pool`. `Steady` cannot be dropped: `pool_resize` shows `NoLateWorker`
violated when a graph is given fewer threads than its persistent pool has.

* `ChunksOnce == Steady => (SpecPool => []EachChunkOnce)`;
* `NodesApart`, for `OneNodeAtATime`, and `NobodyLate`, for `NoLateWorker`;
* `PoolImplementsRendezvous == Steady => (SpecPool => IsRendezvous)`: what
  `BarrierImplementsRendezvous` says of the barrier on its own, for the barriers of the
  graphs, which follow each other on the same counters until a new pool starts them anew;
* `PoolTypeCorrect`, for `PoolTypeOK`, whose bounds on the counters (`Bounded`) rest on
  `PoolInv`: a thread that could be late would take chunks of a graph that is over.

The invariant:

    PoolInv == /\ IInv /\ Types /\ Shape
               /\ kind # "none" => /\ HeldNow /\ SameRound /\ AbortSeen
                                   /\ ChunksHeld /\ ChunksDone

`IInv` is the barrier's own. `Round` numbers the stretches between two barriers, and
`SameRound` says that all threads of the graph are in the same one, where a thread that
is in a barrier and may not leave it yet (`Held`) still belongs to the stretch behind
it. A step outside the barrier keeps its thread's round, and the step that opens the
barrier finds all threads held, hence at the same barrier (`SameBarrier`): a thread that
has seen an abort waits at the end of the graph, and `AbortSeen` says that then nobody
is in the node it stopped at. `ChunksHeld` and `ChunksDone` are the counting: in the
second half of a node the chunks at work are distinct and below `current_chunk`, and
those below it that nobody works on have been computed once.

What carries this from one graph to the next on a persistent pool is `Graph`, the number
that `n_graph` has or is about to get. By `Shape` a worker's `last_graph` is that number
or the one before, and a worker that has not seen the graph yet is waiting, or on its way
out of the graph before. It may even still spin in that graph's last barrier: `HeldNow`
says that it is one of those that may leave. So `Submit` finds all threads in the last
round (`RoundLast`), hence out of every barrier and with `last_graph = Graph`, and by
advancing `Graph` puts all of them at the beginning of the next graph at once
(`SubmitKept`).

**`KVCellsProofs`**: `CellsTypeCorrect` and `CellsCorrect`, for `CellsOK`: `used`,
`seq_pos` and `has_shift` agree with `pos`, `seq` and `shift` after any sequence of
calls. `OneCell` is the counting argument: when one cell changes, the number of cells at
a position changes by what that cell contributes; each method then has a lemma saying
that it adjusts the counts by that.

**`ModelStoreProofs`**: `RowsAlwaysWhole`, `RowsOutliveFiles`, `SetupAlwaysStored`. The
argument is that a name that is not odd is the business of one party at a time
(`RowsOutliveFiles` excepts the row whose `File.delete()` has just failed, the one case in
which the code drops a row and leaves the file):

    StoreInv == Types /\ JobInv /\ Deleting /\ RowsAreWhole /\ Setup

`JobInv` says that an ordinary name has one import (`OneJob`) or one row (`OneRow`), the
row only once the import has added it (`RowAfterJob`), and that the copy has the file to
itself (`OwnCopy`) and ends whole (`WholeCopy`). `Deleting` ties the row under deletion
to its file; `Setup` follows the identifier from `Add` to the disk.

`StoreTypeCorrect` needs the identifiers: none in use is above the last one given
(`Numbered`), an import has none before its row (`JobIds`), and those that have no row
yet have `Room` below the bound.

**`KVCacheLemmas` and `KVCacheProofs`**, from the assumption of `KVCache`: any number of
cells, sequences and positions, any batch and ubatch size, any window, any set of user
operations.

The code is loops: over cells, over the tokens of a ubatch, over the ubatches of a
batch, over the moves of a defragmentation. Each is a fold in the model, and the
library's theorems on induction take the statement as a parameter, which the provers
cannot supply. `Loops` states the rule with a set instead (`Invariant`: the states of a
round are in a set, and the body keeps them there; `Result`: so is the last), and is
instantiated once for the body of each loop. Induction up to a number, again over a set,
is a hypothesis of its lemmas (`Inductive`); `Induct` of `KVCellsProofs` proves it from
the well-foundedness of finite sets, and every use of `Invariant` discharges it in a
step of its own. Nothing is assumed by this: `Loops` merely extends no library, since
each instance of it would bring the library along. `KVCacheLemmas` then says of each
operation what it does cell by cell, and in particular that every call it makes respects
what the methods of `KVCells` assert.

* `CacheTypeCorrect` and `CacheCellsCorrect`, for `CacheTypeOK` and `CellsOK`;
* `SlotsAreFound`, for `FindsASlot`: the search that starts at the head, wraps around and
  skips what a hole cannot hold misses no slot;
* `KeysStayRotated == Rotating => (SpecCache => []KeysRotated)`, by

      CacheInv == /\ Sound(Cache) /\ Pending(ctx) /\ ret \in Results
                  /\ Rotating => Rotated(Cache)

  `Sound` is the consistency of the cells and the type of the rest. `Pending` says that
  a decode in progress has a slot of as many cells for each ubatch that is left,
  which `prepare` has shown by trial on a cache that it then restores. `Rotating`
  excludes what breaks the property in the code: divisions, a defragmentation whose
  graph fails, a failed ubatch with a token of two sequences, and, with a window, a
  failed shift before a trial whose restored cells lose their shift;
* `RoomIsFound == MovesSuffice => (SpecCache => []SlotIfItFits)`: "no slot" for a batch of
  one ubatch means that there are too few free cells. `llama_decode` defragments before it
  gives up, and what has to be shown is that this leaves no hole. `Packing` is the
  invariant of the loop of `defrag_prepare`: the tokens that still have to go are no more
  than the holes that are left, and moves made plus holes left do not exceed `MaxMoves`.
  So the cache is packed after it (`PackedFits`), in a packed cache `find_slot` fails only
  for want of cells, and a `prepare` of one ubatch that fails leaves the cache as it was.
  The invariant of the specification is

      RoomInv == CacheInv /\ SlotIfItFits /\ (ret # NoResult => ctx = Idle)

  `MovesSuffice` is `NCells <= 2 * MaxMoves`: a move fills at least one cell, and the
  cells to fill are at most as many as the tokens beyond them. In the code `max_moves` is
  `(n_max_nodes - 2*n_layer)/(6*n_layer)` (`llama-kv-cache-unified.cpp:1225`) with 65536
  nodes, 341 moves for 32 layers, so that the theorem covers every state of a cache of up
  to 682 cells (726 for 30 layers). A larger one is covered by nothing here when its holes
  are more than the moves: a defragmentation may then leave some, and a batch that would
  fit may be refused;
* `CacheIsStore == Clean => (SpecCache => IsStore)` and `FailuresAreClean`, for
  `FailureIsClean`. `Clean` (no window, no defragmentation that fails, tokens of one
  sequence) is what the run `kv` assumes, too: with a window tokens disappear when they
  are overwritten, by design, and a failed token of two sequences stays in one
  (`kv_shared`). The positions of a batch count up, as `Batches` makes them; that is what
  callers do, the code does not enforce it.

Each operation between decodes maps to the store's of the same name or, for the
internal ones, to a stutter: `Entries` is the image of the used cells, so that a slot,
a move or a shift shows only if it changes a position or a sequence. The lemmas on
single operations give that. A decode is another matter, since it is many steps: the
store takes the tokens of a ubatch when it is computed, in cells that the trial chose
before the earlier ubatches were computed. The invariant for it is

    StoreInv == /\ CacheInv /\ (ctx # Idle => ret = NoResult)
                /\ Entries \subseteq Store!Entry /\ InProgress(Cache, ctx)

`InProgress` says that the slots of the ubatches left are free and apart, so that
nothing the store has is overwritten; that their tokens come after all entries of
their sequence, and those of a later ubatch after those of an earlier one, so that the
removal of a failed ubatch (`seq_rm` from its first position on, per sequence) takes its
own tokens and no others. The first needs that the trial put the ubatches where the
decode will (`PreparedStores`), the second that the positions of a batch ascend and begin
behind the last of the sequence (`BelowMax`, `SplitLater`). The second half of that
`llama_batch_allocr` checks (a batch must follow the last position of the cache), the
order within the batch is the callers'.

* `WindowCorrect == OneUbatch => (SpecCache => OnlyMaskedLost)` and
  `UnbrokenCorrect == OneUbatch /\ Trimming => (SpecCache => []Consecutive)`, for any
  window, standard or chunked. `OneUbatch` is `NBatch <= NUbatch`; without it the second
  is false (section 3). `Trimming` says that the user removes heads, tails or whole
  sequences, and neither copies, adds nor divides, which make holes by themselves.

`KVCacheLemmas` says for this what each operation leaves of the positions of a sequence
(`Present`): a shift or a defragmentation all of them (`UpdatePresent`), a ubatch those
behind the last one it overwrites, with its own (`ApplyPresent`), the removal of a failed
ubatch those before its first token (`RemoveFailedPresent`). The trial in `prepare` is
the difficult one (`TriedPresent`): it puts back the cells of the slot and not what was
purged, so the sequence is not what it was. But what is missing lies below the last
position that the slot holds, and the decode will overwrite that one and purge the rest
again. So the invariant compares only what is behind it:

    WindowInv == CacheInv /\ (ctx # Idle =>
      one ubatch is left, and for every sequence
        the last position it overwrites (Behind) is out of the window of the next token,
        its own positions come after all that are there)
    UnbrokenInv == every sequence has no hole, or will have none when the decode is over:
                   Above(cells, s, Behind(s)) \union PosOf(ctx.ubs[1], s)

What a position is masked for is masked for all positions before it (`MaskedBelow`),
which with `ComputedWindow` gives `OnlyMaskedLost`; that a batch follows the last position
without a gap (`BatchFollows`, from `Batches` and the checks of `llama_batch_allocr`) and that what is
cut from the front or from the end leaves no hole (`UnbrokenJoin`, `UnbrokenCut`) gives
`Consecutive`. Both cover failing ubatches, shifts and defragmentations.

Only model-checked: of `KVCache` `SlotIfItFits` without `MovesSuffice`, and the window
when the user divides; of `ThreadPool` the persistent pools that are given graphs with
different numbers of threads, where `NoLateWorker` fails (`pool_resize`); the
findings, which are behaviours. Out of the provers' reach: liveness under fairness and
ENABLED. Sums over a sequence of any length would need induction for each statement;
`FormattedLen` is a cardinality for that reason.

## 5. What is not modelled

* Data races inside one step: two threads in the middle of the same `std::vector` or
  `std::string` (`cancel_completion` formats `messages` and clears `response` while the job
  may be changing them; it is modelled as reading a chat that is or was there), or the read and the write of `partialResponse += it`. Steps are as fine as the calls; in
  the thread pool, as the atomic operations.
* Weak memory: `ThreadPool` is sequentially consistent.
* In `LLMInference`, two jobs on one engine at a time; the interleavings of two jobs
  are in `ChatScreenViewModel`, with the coarse engine. `LLMInference` has its own,
  smaller cache (`kv`, what was fed to it); it does not contain `KVCache`.
* In `ChatScreenViewModel`, an edit of a system prompt (`Prompted` is fixed).
* Text: encoding, the filters that remove chat markers from a piece, the cut of a
  message inside a UTF-8 sequence. A filtered piece is an empty one.
* Going back to an older activity; dialogs and layout of the setup screen.
* Of the KV cache: saving and loading states, the attention mask, the outputs of a
  decode (`output_reserve`, whose failure returns -2), the non-sliding half of iswa, the
  recurrent and hybrid memories.
* Of the thread pool: NUMA, priorities, affinities, the OpenMP build, operations other
  than matrix multiplication (and its `mul_mat_id` variant, with a counter per expert).
* Of llama.cpp, the rest: model loaders, graph builders, quantised kernels, GPU
  backends, vocabularies, grammars, samplers, the server and the tools. Kernels and
  graph builders are arithmetic and data layout, which TLC does not reach; the
  application never calls the server, the tools or another backend than the CPU's. They
  are the bulk of the files.
* Tasks (an empty activity), web view, welcome screen, theme, the generated grammars.

## 6. Plan

Done: `LLMInference`, `ChatScreenViewModel` and `ModelStore` with their theorems,
`SmollAI`, the barrier as a rendezvous, `ThreadPool` with theorems about pools of both
kinds, `KVCells` with its theorems, `KVCache` with its invariants and as a `KVStore`,
checked and proved.

Next:

1. Two jobs on one engine: `LLMInference` with a phase per job, for the window between
   a stop and the end of the stopped job, and for `stop_completion` beside
   `cancel_completion`.
2. `ChatLog`: the abstract chat, a query followed by at most one reply, and the view
   model's databases shown to implement it (`INSTANCE … WITH`), with the crash.
3. `Transcript`: the abstract engine (what the model has been told), which both
   `LLMInference` and the record of `SmollAI` implement; over it, what a stop leaves
   different in `MessagesDB` and in the engine, and a query that a later load replays.
4. The window for batches of several ubatches, of one sequence and without failures,
   where TLC finds neither `Consecutive` nor `OnlyMaskedLost` violated.

## 7. Running it

    tlc -workers 2 -config MCLLMInference_chat.cfg MCLLMInference.tla
    tlapm LLMInferenceProofs.tla

Each configuration runs alone; the largest (`engine_chat`, `app_generate`, `app_life`,
`store`, `kv_window`) take one to three minutes with two workers.

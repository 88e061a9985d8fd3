------------------------ MODULE ChatScreenViewModel ------------------------
(***************************************************************************)
(* ChatScreenViewModel.kt with the screens that call it, the databases it  *)
(* writes and the wrapper SmollAI. Four kinds of threads interleave:       *)
(*   - the main thread: the input handlers of ChatActivity.kt, the effect  *)
(*     that loads the model of a chat, and the tail of a job that switches *)
(*     to Dispatchers.Main;                                                *)
(*   - one generation job per query, on Dispatchers.Default;               *)
(*   - one job per loadModel, on Dispatchers.Default and IO;               *)
(*   - the import of a model file, on Dispatchers.IO.                      *)
(* A handler of the main thread is one action; a job is cut at every call  *)
(* of the wrapper, of a database and of another dispatcher. An input comes *)
(* after the frame that shows the result of the one before, so after the   *)
(* effect has run; the jobs know no such order.                            *)
(***************************************************************************)
EXTENDS SmollAI, FiniteSets

CONSTANTS
  Chats,       \* ids ChatsDB may hold
  NoChat,      \* currChatState.value = null
  Absent,      \* a chat that has never been in the database
  Deleted,     \* a chat that has been removed; ObjectBox gives no id twice
  MaxQueries,  \* bound: queries sent
  MaxLoads,    \* bound: loads at one time
  MaxJobs,     \* bound: loads, generations and imports at one time
  Inputs,      \* bound: what happens besides sending and stopping
  FirstRows,   \* what MessagesDB may hold of a chat at first
  Prompted,    \* chats whose systemPrompt is not empty, the same all along
  FirstModels, \* llmModelId a chat may have at first, Absent when it has no row
  Imported     \* rows the import may add to ModelsDB

ASSUME ViewModelAssumption ==
  /\ NoChat \notin Chats
  /\ {Absent, Deleted} \cap (Models \cup {NoModel}) = {}
  /\ Absent # Deleted
  /\ MaxQueries \in Nat /\ MaxLoads \in Nat /\ MaxJobs \in Nat
  /\ FirstModels \subseteq Models \cup {NoModel, Absent}
  /\ Imported \subseteq Models /\ Prompted \subseteq Chats
  /\ Inputs \subseteq {"die", "switch", "delete chat", "settings", "dialog",
                "recreate"}

VARIABLES
  \* the databases
  chatRow,    \* ChatsDB: llmModelId of each chat
  rows,       \* MessagesDB: the messages of each chat
  modelRow,   \* ModelsDB
  \* the view model
  curr,       \* currChatState, a copy of a row of ChatsDB
  isGeneratingResponse, partialResponse, responseGenerationJob,
  isInitializingModel, dialog,
  effect,     \* LaunchedEffect(currChat) has yet to run
  \* the jobs
  gen, load, import,
  crossed     \* history: what the last load met of the loads still running,
              \* "no" load, only loads of its chat and model "alike", or "mixed"

databases == <<chatRow, rows, modelRow>>
screen == <<curr, isGeneratingResponse, partialResponse, responseGenerationJob,
            isInitializingModel, dialog, effect>>
native == <<alive, engine>>
vars == <<databases, screen, gen, load, import, crossed, native>>

Queries == 1..MaxQueries
Loads == 1..MaxLoads

\* A message of MessagesDB: the query it is or answers, and for a reply the
\* queries whose generation wrote a part of its text.
Row == [user : BOOLEAN, query : Nat, text : SUBSET Nat]
UserRow(q) == [user |-> TRUE, query |-> q, text |-> {}]
ReplyRow(q, text) == [user |-> FALSE, query |-> q, text |-> text]

\* A chat in which a reply comes after the query it answers, once.
Answered(chat) ==
  \A i \in 1..Len(chat) : ~chat[i].user =>
    /\ \E j \in 1..(i - 1) : chat[j].user /\ chat[j].query = chat[i].query
    /\ \A j \in 1..(i - 1) : ~chat[j].user => chat[j].query # chat[i].query

\* What earlier sessions stored: whole turns, of queries that are none of these.
ASSUME FirstRowsAssumption ==
  /\ FirstRows \subseteq Seq(Row)
  /\ \A chat \in FirstRows :
       Answered(chat) /\ \A i \in 1..Len(chat) : chat[i].query \notin Queries

TextOf(row) == [role |-> IF row.user THEN "user" ELSE "assistant", of |-> row.query]
SystemPrompt == [role |-> "system", of |-> 0]

IdleGen == [at |-> "none", chat |-> NoChat, cancelled |-> FALSE, shown |-> FALSE,
            text |-> {}]
IdleLoad == [at |-> "none", chat |-> NoChat, model |-> NoModel, todo |-> <<>>]
IdleImport == [at |-> "none", model |-> NoModel, copy |-> NoChat]

Done == [IdleGen EXCEPT !.at = "done"]

\* job.isActive, for a job of this view model
Running(q) == gen[q].at \notin {"none", "done", "left"}
Active(q) == Running(q) /\ ~gen[q].cancelled
Loading(l) == load[l].at # "none"
FreeLoads == {l \in Loads : ~Loading(l)}
Jobs == Cardinality({l \in Loads : Loading(l)})
          + Cardinality({q \in Queries : Running(q)})
          + IF import.at \in {"none", "load"} THEN 0 ELSE 1
Exists(c) == chatRow[c] \notin {Absent, Deleted}

Init ==
  /\ alive = FALSE /\ engine = Null
  /\ curr = NoChat /\ isGeneratingResponse = FALSE /\ partialResponse = {}
  /\ responseGenerationJob = 0 /\ isInitializingModel = FALSE /\ dialog = FALSE
  /\ effect = FALSE
  /\ load = [l \in Loads |-> IdleLoad] /\ import = IdleImport /\ crossed = "no"
  /\ gen = [q \in Queries |-> IdleGen]
  /\ modelRow = Models \ Imported
  /\ chatRow \in [Chats -> FirstModels] /\ \E c \in Chats : Exists(c)
  /\ rows \in [Chats -> FirstRows]
  /\ \A c \in Chats : chatRow[c] = Absent => rows[c] = <<>>

-----------------------------------------------------------------------------
\* A new view model: init takes a chat of the database, or adds one; the first frame
\* will load it.
NewViewModel ==
  /\ \E c \in Chats :
       /\ Exists(c) \/ (chatRow[c] = Absent /\ \A d \in Chats : ~Exists(d))
       /\ chatRow' = [chatRow EXCEPT ![c] = IF @ = Absent THEN NoModel ELSE @]
       /\ curr' = [chat |-> c, llm |-> chatRow'[c]]
  /\ effect' = TRUE /\ dialog' = FALSE
  /\ isGeneratingResponse' = FALSE /\ partialResponse' = {}
  /\ responseGenerationJob' = 0 /\ isInitializingModel' = FALSE
  /\ engine' = Null /\ load' = [l \in Loads |-> IdleLoad] /\ crossed' = "no"
  /\ UNCHANGED <<rows, modelRow>>

\* The process dies, at any moment.
Die ==
  /\ alive
  /\ alive' = FALSE
  /\ UNCHANGED <<databases, screen, gen, load, crossed, import, engine>>

\* The process starts anew. Nothing of the last one is left but the databases.
Open ==
  /\ ~alive
  /\ alive' = TRUE
  /\ NewViewModel
  /\ gen' = [q \in Queries |-> IF gen[q].at = "none" THEN IdleGen ELSE Done]
  /\ import' = IdleImport

\* The activity is destroyed and created anew, as on a rotation, and is given a new
\* view model. The jobs of the old one run on with its fields and its engine, out
\* of reach; all that shows of them is the reply they store in the end.
Recreate ==
  /\ alive
  /\ import.at = "none"                                  \* bound
  /\ NewViewModel
  /\ gen' = [q \in Queries |->
               IF ~Running(q) THEN gen[q]
               ELSE IF gen[q].at = "main" THEN Done
               ELSE [gen[q] EXCEPT !.at = "left", !.shown = FALSE,
                       !.text = partialResponse \cup {k \in Queries : Running(k)}]]
  /\ UNCHANGED <<alive, import>>

-----------------------------------------------------------------------------
(***************************************************************************)
(* Pieces of the view model's handlers                                     *)
(***************************************************************************)
\* currChatState.value = chat: a state of equal value relaunches no effect
SetChat(chat) ==
  /\ curr' = chat
  /\ effect' = (effect \/ chat # curr)

\* What a load of this chat meets
Crossing(chat) ==
  LET met == {l \in Loads : Loading(l)}
      same == \A l \in met : load[l].chat = chat.chat /\ load[l].model = chat.llm
  IN IF met = {} THEN "no" ELSE IF same /\ crossed # "mixed" THEN "alike" ELSE "mixed"

LaunchLoad(chat) ==
  /\ isInitializingModel' = TRUE
  /\ crossed' = Crossing(chat)
  /\ Jobs < MaxJobs                                      \* bound
  /\ \E l \in FreeLoads :                                \* bound
       /\ \A k \in FreeLoads : l <= k
       /\ load' = [load EXCEPT ![l] =
            [at |-> "create", chat |-> chat.chat, model |-> chat.llm, todo |-> <<>>]]

\* loadModel(), for a current chat that may be null
LoadModel(chat) ==
  IF chat = NoChat THEN UNCHANGED <<dialog, isInitializingModel, load, crossed>>
  ELSE IF chat.llm \in modelRow
    THEN LaunchLoad(chat) /\ UNCHANGED dialog
    ELSE /\ dialog' = TRUE
         /\ UNCHANGED <<isInitializingModel, load, crossed>>

\* mutant: the job is not cancelled
StopNothing ==
  /\ isGeneratingResponse' = FALSE
  /\ UNCHANGED <<gen, native>>

\* stopGeneration()
StopGeneration ==
  /\ isGeneratingResponse' = FALSE
  /\ IF responseGenerationJob # 0 /\ Active(responseGenerationJob)
       THEN /\ gen' = [gen EXCEPT ![responseGenerationJob].cancelled = TRUE]
            /\ CancelCompletion
       ELSE UNCHANGED <<gen, native>>

\* An input reaches the screen: no dialog hides it, no frame is due.
Input == alive /\ ~effect /\ ~dialog

-----------------------------------------------------------------------------
(***************************************************************************)
(* The main thread                                                         *)
(***************************************************************************)
\* LaunchedEffect(currChat) { viewModel.loadModel() }
RunEffect ==
  /\ alive /\ effect
  /\ effect' = FALSE
  /\ LoadModel(curr)
  /\ UNCHANGED <<databases, curr, isGeneratingResponse, partialResponse,
                 responseGenerationJob, gen, import, native>>

\* The send button of MessageInput, and sendUserQuery
Send ==
  /\ Input /\ curr # NoChat /\ curr.llm # NoModel
  /\ ~isGeneratingResponse /\ ~isInitializingModel
  /\ Jobs < MaxJobs                                      \* bound
  /\ \E q \in Queries :                                  \* bound
       /\ gen[q].at = "none" /\ \A k \in 1..(q - 1) : gen[k].at # "none"
       /\ chatRow' = [chatRow EXCEPT ![curr.chat] = curr.llm]
       /\ rows' = [rows EXCEPT ![curr.chat] = Append(@, UserRow(q))]
       /\ gen' = [gen EXCEPT ![q] = [IdleGen EXCEPT !.at = "queued", !.chat = curr.chat]]
       /\ responseGenerationJob' = q
  /\ isGeneratingResponse' = TRUE
  /\ UNCHANGED <<modelRow, curr, partialResponse, isInitializingModel, dialog, effect,
                 load, crossed, import, native>>

\* The stop button
Stop ==
  /\ Input /\ curr # NoChat /\ curr.llm # NoModel /\ isGeneratingResponse
  /\ StopGeneration
  /\ UNCHANGED <<databases, curr, partialResponse, responseGenerationJob,
                 isInitializingModel, dialog, effect, load, crossed, import>>

\* mutant: the row of a new chat is read before it is added
SwitchEarly ==
  /\ Input
  /\ \E c \in Chats :
       /\ chatRow[c] # Deleted
       /\ chatRow' = [chatRow EXCEPT ![c] = IF @ = Absent THEN NoModel ELSE @]
       /\ SetChat([chat |-> c, llm |-> chatRow[c]])
  /\ StopGeneration
  /\ UNCHANGED <<rows, modelRow, partialResponse, responseGenerationJob,
                 isInitializingModel, dialog, load, crossed, import>>

\* A chat of the drawer, or a new one: switchChat
SwitchChat ==
  /\ Input
  /\ \E c \in Chats :
       /\ chatRow[c] # Deleted
       /\ chatRow' = [chatRow EXCEPT ![c] = IF @ = Absent THEN NoModel ELSE @]
       /\ SetChat([chat |-> c, llm |-> chatRow'[c]])
  /\ StopGeneration
  /\ UNCHANGED <<rows, modelRow, partialResponse, responseGenerationJob,
                 isInitializingModel, dialog, load, crossed, import>>

\* "Delete chat" of the options menu: deleteChat
DeleteChat ==
  /\ Input /\ curr # NoChat
  /\ \E c \in Chats \ {curr.chat} : chatRow[c] # Deleted  \* bound: an id is left
  /\ StopGeneration
  /\ chatRow' = [chatRow EXCEPT ![curr.chat] = Deleted]
  /\ rows' = [rows EXCEPT ![curr.chat] = <<>>]
  /\ SetChat(NoChat)
  /\ UNCHANGED <<modelRow, partialResponse, responseGenerationJob,
                 isInitializingModel, dialog, load, crossed, import>>

\* Saving the settings: updateChat, which loads the model, and the return to the
\* chat screen, whose effect will load it again
UpdateChat ==
  /\ Input /\ curr # NoChat
  /\ chatRow' = [chatRow EXCEPT ![curr.chat] = curr.llm]
  /\ LoadModel(curr)
  /\ effect' = TRUE
  /\ UNCHANGED <<rows, modelRow, curr, isGeneratingResponse, partialResponse,
                 responseGenerationJob, gen, import, native>>

\* The settings are left without saving: the chat screen returns, and its effect
LeaveSettings ==
  /\ Input /\ curr # NoChat
  /\ effect' = TRUE
  /\ UNCHANGED <<databases, curr, isGeneratingResponse, partialResponse,
                 responseGenerationJob, isInitializingModel, dialog, gen, load,
                 crossed, import, native>>

\* "Change model" of the options menu
OpenDialog ==
  /\ Input /\ curr # NoChat
  /\ dialog' = TRUE
  /\ UNCHANGED <<databases, curr, isGeneratingResponse, partialResponse,
                 responseGenerationJob, isInitializingModel, effect, gen, load,
                 crossed, import, native>>

DismissDialog ==
  /\ alive /\ ~effect /\ dialog
  /\ dialog' = FALSE
  /\ UNCHANGED <<databases, curr, isGeneratingResponse, partialResponse,
                 responseGenerationJob, isInitializingModel, effect, gen, load,
                 crossed, import, native>>

\* A model of the dialog: updateChatLLM, loadModel
SelectModel ==
  /\ alive /\ ~effect /\ dialog /\ curr # NoChat
  /\ \E m \in modelRow :
       /\ SetChat([curr EXCEPT !.llm = m])
       /\ chatRow' = [chatRow EXCEPT ![curr.chat] = m]
       /\ LaunchLoad(curr')
  /\ dialog' = FALSE
  /\ UNCHANGED <<rows, modelRow, isGeneratingResponse, partialResponse,
                 responseGenerationJob, gen, import, native>>

\* The bin beside a model of the dialog: deleteModel
DeleteModel ==
  /\ alive /\ ~effect /\ dialog
  /\ \E m \in modelRow :
       /\ modelRow' = modelRow \ {m}
       /\ IF curr # NoChat /\ curr.llm = m
            THEN SetChat([curr EXCEPT !.llm = NoModel]) /\ Close
            ELSE UNCHANGED <<curr, effect, native>>
  /\ UNCHANGED <<chatRow, rows, isGeneratingResponse, partialResponse,
                 responseGenerationJob, isInitializingModel, dialog, gen, load,
                 crossed, import>>

-----------------------------------------------------------------------------
(***************************************************************************)
(* A generation job: the coroutine of sendUserQuery around getResponse     *)
(***************************************************************************)
At(q, here) == alive /\ gen[q].at = here
Goto(q, there) == gen' = [gen EXCEPT ![q].at = there]
Ends(q) == gen' = [gen EXCEPT ![q] = Done]

GenUnchanged == UNCHANGED <<chatRow, modelRow, curr, responseGenerationJob,
                            isInitializingModel, dialog, effect, load, crossed, import>>

\* The dispatcher starts the body, or drops it when the job is cancelled
GenStart(q) ==
  /\ At(q, "queued")
  /\ IF gen[q].cancelled
       THEN Ends(q) /\ UNCHANGED partialResponse
       ELSE Goto(q, "start") /\ partialResponse' = {}
  /\ GenUnchanged /\ UNCHANGED <<rows, isGeneratingResponse, native>>

GenStartCompletion(q) ==
  /\ At(q, "start")
  /\ StartCompletion(TextOf(UserRow(q)))
  /\ Goto(q, "loop")
  /\ GenUnchanged /\ UNCHANGED <<rows, isGeneratingResponse, partialResponse>>

\* completionLoop returns something to show
GenLoop(q) ==
  /\ At(q, "loop")
  /\ \E piece \in Pieces \ {"[EOG]"} :
       /\ CompletionLoop(piece)
       /\ gen' = [gen EXCEPT ![q].at = "emit", ![q].shown = piece # "filtered"]
  /\ GenUnchanged /\ UNCHANGED <<rows, isGeneratingResponse, partialResponse>>

\* completionLoop returns "[EOG]"
GenLoopEnds(q) ==
  /\ At(q, "loop")
  /\ "[EOG]" \in Pieces
  /\ CompletionLoop("[EOG]")
  /\ Goto(q, "stop")
  /\ GenUnchanged /\ UNCHANGED <<rows, isGeneratingResponse, partialResponse>>

\* mutant: emit does not look whether the job is cancelled
GenEmitAnyway(q) ==
  /\ At(q, "emit")
  /\ Goto(q, "loop")
  /\ partialResponse' = partialResponse \cup {k \in {q} : gen[q].shown}
  /\ GenUnchanged /\ UNCHANGED <<rows, isGeneratingResponse, native>>

\* emit(piece): the collector appends it, unless the job is cancelled
GenEmit(q) ==
  /\ At(q, "emit")
  /\ IF gen[q].cancelled
       THEN Goto(q, "cancel") /\ UNCHANGED partialResponse
       ELSE /\ Goto(q, "loop")
            /\ partialResponse' = partialResponse \cup {k \in {q} : gen[q].shown}
  /\ GenUnchanged /\ UNCHANGED <<rows, isGeneratingResponse, native>>

\* stopCompletionInternal at the end of getResponse, then stopCompletion
GenStop(q) ==
  /\ At(q, "stop") \/ At(q, "stop again")
  /\ StopCompletion([role |-> "assistant", of |-> q])
  /\ Goto(q, IF gen[q].at = "stop" THEN "stop again" ELSE "save")
  /\ GenUnchanged /\ UNCHANGED <<rows, isGeneratingResponse, partialResponse>>

\* catch (e: Exception)
GenCancel(q) ==
  /\ At(q, "cancel")
  /\ CancelCompletion
  /\ Goto(q, "save")
  /\ GenUnchanged /\ UNCHANGED <<rows, isGeneratingResponse, partialResponse>>

\* addAssistantMessage, unless the text is empty
Store(q, text) ==
  rows' = IF text = {} THEN rows
          ELSE [rows EXCEPT ![gen[q].chat] = Append(@, ReplyRow(q, text))]

\* mutant: the reply goes to the chat on the screen
GenSaveHere(q) ==
  /\ At(q, "save")
  /\ rows' = IF partialResponse = {} \/ curr = NoChat THEN rows
             ELSE [rows EXCEPT ![curr.chat] = Append(@, ReplyRow(q, partialResponse))]
  /\ Goto(q, "main")
  /\ GenUnchanged /\ UNCHANGED <<isGeneratingResponse, partialResponse, native>>

\* finally: whatever the field holds now is stored as the reply
GenSave(q) ==
  /\ At(q, "save")
  /\ Store(q, partialResponse)
  /\ Goto(q, "main")
  /\ GenUnchanged /\ UNCHANGED <<isGeneratingResponse, partialResponse, native>>

\* withContext(Dispatchers.Main), which a cancelled job does not enter
GenFinish(q) ==
  /\ At(q, "main")
  /\ isGeneratingResponse' = (gen[q].cancelled /\ isGeneratingResponse)
  /\ Ends(q)
  /\ GenUnchanged /\ UNCHANGED <<rows, partialResponse, native>>

\* A job of an old view model ends
GenLeft(q) ==
  /\ At(q, "left")
  /\ \E text \in SUBSET gen[q].text : Store(q, text)
  /\ Ends(q)
  /\ GenUnchanged /\ UNCHANGED <<isGeneratingResponse, partialResponse, native>>

Generation(q) ==
  \/ GenStart(q) \/ GenStartCompletion(q) \/ GenLoop(q) \/ GenLoopEnds(q) \/ GenEmit(q)
  \/ GenStop(q) \/ GenCancel(q) \/ GenSave(q) \/ GenFinish(q)

-----------------------------------------------------------------------------
(***************************************************************************)
(* A load job: the coroutine of loadModel                                  *)
(***************************************************************************)
LoadUnchanged == UNCHANGED <<databases, curr, isGeneratingResponse, partialResponse,
                             responseGenerationJob, dialog, effect, gen, import, crossed>>

\* mutant: a create that fails ends the job
LoadCreateOrEnd(l) ==
  /\ alive /\ load[l].at = "create"
  /\ \E ok \in BOOLEAN :
       /\ ok => load[l].model \in modelRow
       /\ Create(load[l].model, ok)
       /\ load' = [load EXCEPT ![l] = IF ok THEN [@ EXCEPT !.at = "prompt"] ELSE IdleLoad]
  /\ LoadUnchanged /\ UNCHANGED isInitializingModel

\* create, which fails when the file is gone or is not a model
LoadCreate(l) ==
  /\ alive /\ load[l].at = "create"
  /\ \E ok \in BOOLEAN :
       /\ ok => load[l].model \in modelRow
       /\ Create(load[l].model, ok)
  /\ load' = [load EXCEPT ![l].at = "prompt"]
  /\ LoadUnchanged /\ UNCHANGED isInitializingModel

\* mutant: the prompt is added only to an engine that has no messages
LoadPromptFirst(l) ==
  /\ alive /\ load[l].at = "prompt"
  /\ IF load[l].chat \in Prompted /\ engine.messages = <<>>
       THEN AddMessage(SystemPrompt) ELSE UNCHANGED native
  /\ load' = [load EXCEPT ![l].at = "replay", ![l].todo = rows[load[l].chat]]
  /\ LoadUnchanged /\ UNCHANGED isInitializingModel

\* addSystemPrompt, unless the prompt is empty, then one read of the messages
LoadPrompt(l) ==
  /\ alive /\ load[l].at = "prompt"
  /\ IF load[l].chat \in Prompted THEN AddMessage(SystemPrompt) ELSE UNCHANGED native
  /\ load' = [load EXCEPT ![l].at = "replay", ![l].todo = rows[load[l].chat]]
  /\ LoadUnchanged /\ UNCHANGED isInitializingModel

\* addUserMessage or addAssistantMessage of the next message read
LoadReplay(l) ==
  /\ alive /\ load[l].at = "replay" /\ load[l].todo # <<>>
  /\ AddMessage(TextOf(Head(load[l].todo)))
  /\ load' = [load EXCEPT ![l].todo = Tail(@)]
  /\ LoadUnchanged /\ UNCHANGED isInitializingModel

\* mutant: the spinner goes only when there is an engine
LoadFinishLoaded(l) ==
  /\ alive /\ load[l].at = "replay" /\ load[l].todo = <<>>
  /\ isInitializingModel' = (isInitializingModel /\ ~Loaded)
  /\ load' = [load EXCEPT ![l] = IdleLoad]
  /\ LoadUnchanged /\ UNCHANGED native

\* withContext(Dispatchers.Main) { isInitializingModel.value = false }
LoadFinish(l) ==
  /\ alive /\ load[l].at = "replay" /\ load[l].todo = <<>>
  /\ isInitializingModel' = FALSE
  /\ load' = [load EXCEPT ![l] = IdleLoad]
  /\ LoadUnchanged /\ UNCHANGED native

LoadJob(l) == LoadCreate(l) \/ LoadPrompt(l) \/ LoadReplay(l) \/ LoadFinish(l)

-----------------------------------------------------------------------------
(***************************************************************************)
(* The import: the coroutine of copyAndSetNewModel                         *)
(***************************************************************************)
ImportUnchanged == UNCHANGED <<rows, isGeneratingResponse, partialResponse,
                               responseGenerationJob, gen, native>>

\* The file picker hands a file over
ImportStart ==
  /\ Input /\ curr # NoChat /\ import.at = "none"
  /\ Jobs < MaxJobs                                      \* bound
  /\ \E m \in Imported \ modelRow :
       import' = [IdleImport EXCEPT !.at = "copy", !.model = m]
  /\ ImportUnchanged
  /\ UNCHANGED <<chatRow, modelRow, curr, dialog, effect, isInitializingModel, load,
                 crossed>>

\* The file is copied and addModel stores its row, or an exception ends the import
ImportAdd ==
  /\ alive /\ import.at = "copy"
  /\ \/ modelRow' = modelRow \cup {import.model} /\ import' = [import EXCEPT !.at = "read"]
     \/ import' = IdleImport /\ UNCHANGED modelRow
  /\ ImportUnchanged
  /\ UNCHANGED <<chatRow, curr, dialog, effect, isInitializingModel, load,
                 crossed>>

\* updateChatLLM, off the main thread: read currChatState, write it, then read it
\* again to store it; a null there is an exception that ends the import
ImportRead ==
  /\ alive /\ import.at = "read"
  /\ import' = [import EXCEPT !.at = "write",
                  !.copy = IF curr = NoChat THEN NoChat
                           ELSE [curr EXCEPT !.llm = import.model]]
  /\ ImportUnchanged
  /\ UNCHANGED <<chatRow, modelRow, curr, dialog, effect, isInitializingModel, load,
                 crossed>>

ImportWrite ==
  /\ alive /\ import.at = "write"
  /\ SetChat(import.copy)
  /\ import' = [import EXCEPT !.at = "put", !.copy = NoChat]
  /\ ImportUnchanged
  /\ UNCHANGED <<chatRow, modelRow, dialog, isInitializingModel, load, crossed>>

ImportPut ==
  /\ alive /\ import.at = "put"
  /\ IF curr = NoChat
       THEN import' = IdleImport /\ UNCHANGED chatRow
       ELSE /\ chatRow' = [chatRow EXCEPT ![curr.chat] = curr.llm]
            /\ import' = [import EXCEPT !.at = "load"]
  /\ ImportUnchanged
  /\ UNCHANGED <<modelRow, curr, dialog, effect, isInitializingModel, load,
                 crossed>>

ImportLoad ==
  /\ alive /\ import.at = "load"
  /\ LoadModel(curr)
  /\ import' = IdleImport
  /\ ImportUnchanged
  /\ UNCHANGED <<chatRow, modelRow, curr, effect>>

Import == ImportAdd \/ ImportRead \/ ImportWrite \/ ImportPut \/ ImportLoad

-----------------------------------------------------------------------------
User ==
  \/ Open \/ Send \/ Stop \/ ImportStart
  \/ "die" \in Inputs /\ Die
  \/ "recreate" \in Inputs /\ Recreate
  \/ "switch" \in Inputs /\ SwitchChat
  \/ "delete chat" \in Inputs /\ DeleteChat
  \/ "settings" \in Inputs /\ (UpdateChat \/ LeaveSettings)
  \/ "dialog" \in Inputs /\ OpenDialog
  \/ DismissDialog \/ SelectModel \/ DeleteModel

Next == \/ User \/ RunEffect \/ Import
        \/ \E q \in Queries : Generation(q) \/ GenLeft(q)
        \/ \E l \in Loads : LoadJob(l)

\* The dispatchers run what they were given; the user owes nothing. A job left
\* behind ends if it was stopped.
Fairness ==
  /\ WF_vars(RunEffect) /\ WF_vars(Import)
  /\ \A q \in Queries : WF_vars(Generation(q)) /\ WF_vars(gen[q].cancelled /\ GenLeft(q))
  /\ \A l \in Loads : WF_vars(LoadJob(l))

Spec == Init /\ [][Next]_vars /\ Fairness

-----------------------------------------------------------------------------
Steps == {"none", "queued", "start", "loop", "emit", "stop", "stop again", "cancel",
          "save", "main", "done", "left"}
Chat == [chat : Chats, llm : Models \cup {NoModel}]
Engine == [life : {"null", "open", "freed"}, model : Models \cup {NoModel},
           messages : Seq(Text), batch : BOOLEAN, response : BOOLEAN]
GenJob == [at : Steps, chat : Chats \cup {NoChat}, cancelled : BOOLEAN,
           shown : BOOLEAN, text : SUBSET Queries]
Job == [at : {"none", "create", "prompt", "replay"}, chat : Chats \cup {NoChat},
        model : Models \cup {NoModel}, todo : Seq(Row)]
ImportJob == [at : {"none", "copy", "read", "write", "put", "load"},
              model : Models \cup {NoModel}, copy : Chat \cup {NoChat}]

\* The state has its types.
TypeOK ==
  /\ alive \in BOOLEAN /\ engine \in Engine
  /\ chatRow \in [Chats -> Models \cup {NoModel, Absent, Deleted}]
  /\ rows \in [Chats -> Seq(Row)] /\ modelRow \subseteq Models
  /\ curr \in Chat \cup {NoChat} /\ partialResponse \subseteq Queries
  /\ responseGenerationJob \in 0..MaxQueries
  /\ isGeneratingResponse \in BOOLEAN /\ isInitializingModel \in BOOLEAN
  /\ dialog \in BOOLEAN /\ effect \in BOOLEAN
  /\ gen \in [Queries -> GenJob] /\ load \in [Loads -> Job] /\ import \in ImportJob
  /\ crossed \in {"no", "alike", "mixed"}

\* A job the user has not stopped is the one the stop button reaches, and the
\* button is there: no generation runs on out of reach, though jobs of earlier
\* queries may still be running and finishing.
NoRunawayJob ==
  \A q \in Queries : Active(q) => q = responseGenerationJob /\ isGeneratingResponse

\* The spinner of a load means that a load runs: overlapping loads, each with its
\* own last step, never leave it on for ever.
SpinnerHasLoad == isInitializingModel => \E l \in Loads : Loading(l)

\* In a chat of the database a reply is stored after the query it answers, once.
RepliesAnswer == \A c \in Chats : Exists(c) => Answered(rows[c])

\* A stopped job ends, whatever the engine under it has become.
StopHonoured ==
  \A q \in Queries : gen[q].cancelled ~> (gen[q].at = "done" \/ ~alive)

\* A load that has started ends, so the input field comes back.
InitializingEnds == isInitializingModel ~> (~isInitializingModel \/ ~alive)

-----------------------------------------------------------------------------
\* What comments and messages of the source say.

\* "Load the model for the current chat [...] read the system prompt and user
\* messages from the database and add them to the model" (ChatScreenViewModel.kt:
\* 198-200): once no load is due or running, and before any query, the engine is the
\* one of the chat's model and has been given the chat, once. So the code has it
\* when the last load met no other.
Settled ==
  /\ Input /\ curr # NoChat /\ curr.llm # NoModel /\ \A l \in Loads : ~Loading(l)
  /\ import.at = "none" /\ \A q \in Queries : gen[q].at = "none"
  /\ Loaded /\ curr.llm \in modelRow
Transcript(c) ==
  (IF c \in Prompted THEN <<SystemPrompt>> ELSE <<>>)
    \o [i \in 1..Len(rows[c]) |-> TextOf(rows[c][i])]
LoadedOnce ==
  Settled /\ crossed = "no" =>
    engine.model = curr.llm /\ engine.messages = Transcript(curr.chat)

\* The two loads of one chat and one model that SelectModel and UpdateChat start
\* share an engine and may both replay the chat into it: the engine is that of the
\* chat's model, and the chat is in it, in its order and at least once.
Subsequence(part, whole) ==
  \E at \in [1..Len(part) -> 1..Len(whole)] :
    /\ \A i \in 1..Len(part) : whole[at[i]] = part[i]
    /\ \A i \in 2..Len(part) : at[i - 1] < at[i]
LoadedWhole ==
  Settled /\ crossed = "alike" =>
    engine.model = curr.llm /\ Subsequence(Transcript(curr.chat), engine.messages)

\* "Chat %s deleted" (strings.xml:179): a deleted chat stays deleted.
DeletedStays == [][\A c \in Chats : chatRow[c] = Deleted => chatRow'[c] = Deleted]_vars
===========================================================================

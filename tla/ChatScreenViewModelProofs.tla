--------------------- MODULE ChatScreenViewModelProofs ----------------------
(***************************************************************************)
(* The view model, for any number of chats, models, queries and loads: no  *)
(* generation runs where the stop button does not reach it, no spinner     *)
(* stays without a load, the engine is given the chat once when loads do   *)
(* not meet, and, where no model is imported, replies follow their query.  *)
(***************************************************************************)
EXTENDS ChatScreenViewModel, SequenceTheorems, TLAPS

LEMMA Bounds == MaxQueries \in Nat /\ MaxLoads \in Nat
  BY ViewModelAssumption

LEMMA OnlyIds ==
  ASSUME NEW m \in Models \cup {NoModel} PROVE m \notin {Absent, Deleted}
  BY ViewModelAssumption, Zenon

LEMMA QueryNumbers == \A q \in Queries : q \in Nat /\ q \in 0..MaxQueries /\ q # 0
  BY Bounds DEF Queries

(***************************************************************************)
(* Types of the wrapper's calls                                            *)
(***************************************************************************)
LEMMA NullTypes == Null \in Engine /\ Freed \in Engine
<1>1. Null \in Engine
  BY EmptySeq DEF Null, Engine
<1> QED BY <1>1 DEF Freed, Engine

LEMMA MadeTypes == ASSUME NEW m \in Models \cup {NoModel} PROVE Made(m) \in Engine
  BY EmptySeq DEF Made, Engine

LEMMA CallTypes ==
  ASSUME TypeOK, NEW e \in Engine, Call(e)
  PROVE  alive' \in BOOLEAN /\ engine' \in Engine
  BY DEF Call, TypeOK

LEMMA TextTypes ==
  ASSUME NEW row \in Row
  PROVE  TextOf(row) \in Text /\ SystemPrompt \in Text
  BY DEF TextOf, SystemPrompt, Text, Row

LEMMA RowTypes ==
  ASSUME NEW q \in Queries, NEW text \in SUBSET Queries
  PROVE  UserRow(q) \in Row /\ ReplyRow(q, text) \in Row
<1>1. q \in Nat /\ text \subseteq Nat
  BY QueryNumbers
<1>2. {} \subseteq Nat
  OBVIOUS
<1> QED BY <1>1, <1>2 DEF UserRow, ReplyRow, Row

LEMMA AddTypes ==
  ASSUME TypeOK, NEW text \in Text
  PROVE  AddMessage(text) \/ StartCompletion(text) \/ StopCompletion(text)
           => alive' \in BOOLEAN /\ engine' \in Engine
<1>1. Append(engine.messages, text) \in Seq(Text)
  BY AppendProperties DEF TypeOK, Engine
<1>2. CASE AddMessage(text)
  <2>1. [engine EXCEPT !.messages = Append(@, text)] \in Engine
    BY <1>1 DEF TypeOK, Engine
  <2> QED BY <1>2, <2>1, CallTypes DEF AddMessage
<1>3. CASE StartCompletion(text)
  <2>1. [engine EXCEPT !.messages = Append(@, text), !.batch = TRUE] \in Engine
    BY <1>1 DEF TypeOK, Engine
  <2> QED BY <1>3, <2>1, CallTypes DEF StartCompletion
<1>4. CASE StopCompletion(text)
  <2>1. [engine EXCEPT !.response = FALSE,
           !.messages = IF engine.response THEN Append(@, text) ELSE @] \in Engine
    BY <1>1 DEF TypeOK, Engine
  <2> QED BY <1>4, <2>1, CallTypes DEF StopCompletion
<1> QED BY <1>2, <1>3, <1>4

LEMMA OtherTypes ==
  ASSUME TypeOK
  PROVE  (\E piece : CompletionLoop(piece)) \/ CancelCompletion \/ Close
           => alive' \in BOOLEAN /\ engine' \in Engine
<1>1. ASSUME NEW piece, CompletionLoop(piece) PROVE alive' \in BOOLEAN /\ engine' \in Engine
  <2>1. [engine EXCEPT !.response = @ \/ piece = "text"] \in Engine
    BY DEF TypeOK, Engine
  <2> QED BY <1>1, <2>1, CallTypes DEF CompletionLoop
<1>2. CASE CancelCompletion
  <2>1. [engine EXCEPT !.response = FALSE] \in Engine
    BY DEF TypeOK, Engine
  <2> QED BY <1>2, <2>1, CallTypes DEF CancelCompletion
<1>3. CASE Close
  BY <1>3, NullTypes, CallTypes DEF Close
<1> QED BY <1>1, <1>2, <1>3

-----------------------------------------------------------------------------
(***************************************************************************)
(* Types of the pieces of handlers                                         *)
(***************************************************************************)
LEMMA StopTypes ==
  ASSUME TypeOK, StopGeneration
  PROVE  /\ isGeneratingResponse' = FALSE /\ gen' \in [Queries -> GenJob]
         /\ alive' \in BOOLEAN /\ engine' \in Engine
<1>1. CASE gen' = gen /\ native' = native
  BY <1>1 DEF StopGeneration, TypeOK, native
<1>2. CASE CancelCompletion /\ gen' = [gen EXCEPT ![responseGenerationJob].cancelled = TRUE]
  BY <1>2, OtherTypes DEF StopGeneration, TypeOK, GenJob
<1> QED BY <1>1, <1>2 DEF StopGeneration, native

\* What a load may have met.
Meetings == {"no", "alike", "mixed"}

LEMMA LaunchTypes ==
  ASSUME load \in [Loads -> Job], NEW chat \in Chat, LaunchLoad(chat)
  PROVE  isInitializingModel' = TRUE /\ load' \in [Loads -> Job] /\ crossed' \in Meetings
<1>1. [at |-> "create", chat |-> chat.chat, model |-> chat.llm, todo |-> <<>>] \in Job
  BY EmptySeq DEF Chat, Job
<1>2. crossed' \in Meetings
  BY DEF LaunchLoad, Crossing, Meetings
<1> QED BY <1>1, <1>2 DEF LaunchLoad, FreeLoads

LEMMA LoadModelTypes ==
  ASSUME TypeOK, NEW chat \in Chat \cup {NoChat}, LoadModel(chat)
  PROVE  /\ dialog' \in BOOLEAN /\ isInitializingModel' \in BOOLEAN
         /\ load' \in [Loads -> Job] /\ crossed' \in Meetings
<1>1. CASE chat = NoChat
  BY <1>1 DEF LoadModel, TypeOK, Meetings
<1>2. CASE chat # NoChat
  BY <1>2, LaunchTypes DEF LoadModel, TypeOK, Meetings
<1> QED BY <1>1, <1>2

LEMMA NewViewModelTypes ==
  ASSUME TypeOK, NewViewModel
  PROVE  /\ chatRow' \in [Chats -> Models \cup {NoModel, Absent, Deleted}]
         /\ curr' \in Chat /\ effect' \in BOOLEAN /\ dialog' \in BOOLEAN
         /\ isGeneratingResponse' \in BOOLEAN /\ partialResponse' \subseteq Queries
         /\ responseGenerationJob' \in 0..MaxQueries /\ isInitializingModel' \in BOOLEAN
         /\ engine' \in Engine /\ load' \in [Loads -> Job] /\ crossed' = "no"
         /\ rows' = rows /\ modelRow' = modelRow
<1>1. IdleLoad \in Job
  BY EmptySeq DEF IdleLoad, Job
<1>2. PICK c \in Chats :
        /\ Exists(c) \/ chatRow[c] = Absent
        /\ chatRow' = [chatRow EXCEPT ![c] = IF @ = Absent THEN NoModel ELSE @]
        /\ curr' = [chat |-> c, llm |-> chatRow'[c]]
  BY DEF NewViewModel
<1>3. chatRow'[c] \in Models \cup {NoModel}
  BY <1>2, ViewModelAssumption DEF Exists, TypeOK
<1>4. curr' \in Chat
  BY <1>2, <1>3 DEF Chat
<1>5. chatRow' \in [Chats -> Models \cup {NoModel, Absent, Deleted}]
  BY <1>2 DEF TypeOK
<1>6. load' \in [Loads -> Job] /\ engine' \in Engine
  BY <1>1, NullTypes DEF NewViewModel
<1>7. responseGenerationJob' \in 0..MaxQueries
  BY Bounds DEF NewViewModel
<1> QED BY <1>4, <1>5, <1>6, <1>7 DEF NewViewModel

LEMMA IdleTypes == IdleGen \in GenJob /\ Done \in GenJob /\ IdleImport \in ImportJob
<1>1. IdleGen \in GenJob /\ IdleImport \in ImportJob
  BY DEF IdleGen, GenJob, Steps, IdleImport, ImportJob
<1> QED BY <1>1 DEF Done, GenJob, Steps

-----------------------------------------------------------------------------
(***************************************************************************)
(* The types are kept by every step                                        *)
(***************************************************************************)
LEMMA LifeTypes == TypeOK /\ (Die \/ Open \/ Recreate) => TypeOK'
<1> SUFFICES ASSUME TypeOK, Die \/ Open \/ Recreate PROVE TypeOK'
  OBVIOUS
<1>1. CASE Die
  BY <1>1 DEF Die, TypeOK, databases, screen
<1>2. CASE Open
  <2>1. gen' \in [Queries -> GenJob] /\ import' \in ImportJob
    BY <1>2, IdleTypes DEF Open, TypeOK
  <2>2. NewViewModel /\ alive' = TRUE
    BY <1>2 DEF Open
  <2> QED BY <2>1, <2>2, NewViewModelTypes DEF TypeOK
<1>3. CASE Recreate
  <2>1. ASSUME NEW q \in Queries, NEW text \in SUBSET Queries
        PROVE  [gen[q] EXCEPT !.at = "left", !.shown = FALSE, !.text = text] \in GenJob
    <3>1. gen[q] \in GenJob
      BY DEF TypeOK
    <3> QED BY <3>1 DEF GenJob, Steps
  <2>2. partialResponse \cup {k \in Queries : Running(k)} \in SUBSET Queries
    BY DEF TypeOK
  <2>3. gen' \in [Queries -> GenJob]
    BY <1>3, <2>1, <2>2, IdleTypes DEF Recreate, TypeOK
  <2>4. NewViewModel /\ alive' = alive /\ import' = import
    BY <1>3 DEF Recreate
  <2> QED BY <2>3, <2>4, NewViewModelTypes DEF TypeOK
<1> QED BY <1>1, <1>2, <1>3

LEMMA RowOfChat ==
  ASSUME TypeOK, NEW c \in Chats, NEW m \in Models \cup {NoModel, Absent, Deleted},
         chatRow' = [chatRow EXCEPT ![c] = m]
  PROVE  chatRow' \in [Chats -> Models \cup {NoModel, Absent, Deleted}]
  BY DEF TypeOK

LEMMA Stored ==
  ASSUME TypeOK, NEW c \in Chats, NEW row \in Row
  PROVE  [rows EXCEPT ![c] = Append(@, row)] \in [Chats -> Seq(Row)]
<1>1. Append(rows[c], row) \in Seq(Row)
  BY AppendProperties DEF TypeOK
<1> QED BY <1>1 DEF TypeOK

LEMMA SendTypes == TypeOK /\ Send => TypeOK'
<1> SUFFICES ASSUME TypeOK, Send PROVE TypeOK'
  OBVIOUS
<1>1. curr \in Chat /\ curr.chat \in Chats /\ curr.llm \in Models
  BY DEF Send, TypeOK, Chat
<1>2. PICK q \in Queries :
        /\ chatRow' = [chatRow EXCEPT ![curr.chat] = curr.llm]
        /\ rows' = [rows EXCEPT ![curr.chat] = Append(@, UserRow(q))]
        /\ gen' = [gen EXCEPT ![q] = [IdleGen EXCEPT !.at = "queued", !.chat = curr.chat]]
        /\ responseGenerationJob' = q
  BY DEF Send
<1>3. chatRow' \in [Chats -> Models \cup {NoModel, Absent, Deleted}]
  BY <1>1, <1>2, RowOfChat
<1>4. rows' \in [Chats -> Seq(Row)]
  BY <1>1, <1>2, Stored, RowTypes
<1>5. gen' \in [Queries -> GenJob]
  BY <1>1, <1>2, IdleTypes DEF TypeOK, GenJob, Steps
<1>6. responseGenerationJob' \in 0..MaxQueries
  BY <1>2, QueryNumbers
<1> QED BY <1>3, <1>4, <1>5, <1>6 DEF Send, TypeOK, native

LEMMA SwitchTypes == TypeOK /\ (Stop \/ SwitchChat \/ DeleteChat) => TypeOK'
<1> SUFFICES ASSUME TypeOK, Stop \/ SwitchChat \/ DeleteChat PROVE TypeOK'
  OBVIOUS
<1>0. /\ isGeneratingResponse' = FALSE /\ gen' \in [Queries -> GenJob]
      /\ alive' \in BOOLEAN /\ engine' \in Engine
  BY StopTypes DEF Stop, SwitchChat, DeleteChat
<1>1. CASE Stop
  BY <1>0, <1>1 DEF Stop, TypeOK, databases
<1>2. CASE SwitchChat
  <2>1. PICK c \in Chats :
          /\ chatRow[c] # Deleted
          /\ chatRow' = [chatRow EXCEPT ![c] = IF @ = Absent THEN NoModel ELSE @]
          /\ SetChat([chat |-> c, llm |-> chatRow'[c]])
    BY <1>2 DEF SwitchChat
  <2>2. chatRow' \in [Chats -> Models \cup {NoModel, Absent, Deleted}]
    BY <2>1 DEF TypeOK
  <2>3. chatRow'[c] \in Models \cup {NoModel}
    BY <2>1 DEF TypeOK
  <2>4. curr' \in Chat /\ effect' \in BOOLEAN
    BY <2>1, <2>3 DEF SetChat, Chat, TypeOK
  <2> QED BY <1>0, <1>2, <2>2, <2>4 DEF SwitchChat, TypeOK
<1>3. CASE DeleteChat
  <2>1. curr \in Chat /\ curr.chat \in Chats
    BY <1>3 DEF DeleteChat, TypeOK, Chat
  <2>2. chatRow' \in [Chats -> Models \cup {NoModel, Absent, Deleted}]
    BY <1>3, <2>1, RowOfChat DEF DeleteChat
  <2>3. rows' \in [Chats -> Seq(Row)]
    BY <1>3, <2>1, EmptySeq DEF DeleteChat, TypeOK
  <2>4. curr' = NoChat /\ effect' \in BOOLEAN
    BY <1>3 DEF DeleteChat, SetChat, TypeOK
  <2> QED BY <1>0, <1>3, <2>2, <2>3, <2>4 DEF DeleteChat, TypeOK
<1> QED BY <1>1, <1>2, <1>3

LEMMA ScreenTypes ==
  TypeOK /\ (RunEffect \/ UpdateChat \/ LeaveSettings \/ OpenDialog \/ DismissDialog) => TypeOK'
<1> SUFFICES ASSUME TypeOK, RunEffect \/ UpdateChat \/ LeaveSettings \/ OpenDialog \/ DismissDialog
             PROVE  TypeOK'
  OBVIOUS
<1>1. CASE RunEffect
  BY <1>1, LoadModelTypes DEF RunEffect, TypeOK, Meetings, databases, native
<1>2. CASE UpdateChat
  <2>1. curr \in Chat /\ curr.chat \in Chats /\ curr.llm \in Models \cup {NoModel}
    BY <1>2 DEF UpdateChat, TypeOK, Chat
  <2>2. chatRow' \in [Chats -> Models \cup {NoModel, Absent, Deleted}]
    BY <1>2, <2>1, RowOfChat DEF UpdateChat
  <2> QED BY <1>2, <2>1, <2>2, LoadModelTypes
      DEF UpdateChat, TypeOK, Meetings, native
<1>3. CASE LeaveSettings \/ OpenDialog \/ DismissDialog
  BY <1>3 DEF LeaveSettings, OpenDialog, DismissDialog, TypeOK, databases, native
<1> QED BY <1>1, <1>2, <1>3

LEMMA DialogTypes == TypeOK /\ (SelectModel \/ DeleteModel) => TypeOK'
<1> SUFFICES ASSUME TypeOK, SelectModel \/ DeleteModel PROVE TypeOK'
  OBVIOUS
<1>1. ASSUME NEW m \in Models \cup {NoModel}, curr # NoChat
      PROVE  curr.chat \in Chats /\ [curr EXCEPT !.llm = m] \in Chat
  BY <1>1 DEF TypeOK, Chat
<1>2. CASE SelectModel
  <2>1. PICK m \in modelRow :
          /\ SetChat([curr EXCEPT !.llm = m])
          /\ chatRow' = [chatRow EXCEPT ![curr.chat] = m]
          /\ LaunchLoad(curr')
    BY <1>2 DEF SelectModel
  <2>2. m \in Models /\ curr # NoChat
    BY <1>2 DEF SelectModel, TypeOK
  <2>3. curr' \in Chat /\ effect' \in BOOLEAN
    BY <1>1, <2>1, <2>2 DEF SetChat, TypeOK
  <2>4. chatRow' \in [Chats -> Models \cup {NoModel, Absent, Deleted}]
    BY <1>1, <2>1, <2>2, RowOfChat
  <2>5. isInitializingModel' = TRUE /\ load' \in [Loads -> Job] /\ crossed' \in Meetings
    BY <2>1, <2>3, LaunchTypes DEF TypeOK
  <2> QED BY <1>2, <2>3, <2>4, <2>5 DEF SelectModel, TypeOK, Meetings, native
<1>3. CASE DeleteModel
  <2>1. PICK m \in modelRow :
          /\ modelRow' = modelRow \ {m}
          /\ IF curr # NoChat /\ curr.llm = m
               THEN SetChat([curr EXCEPT !.llm = NoModel]) /\ Close
               ELSE UNCHANGED <<curr, effect, native>>
    BY <1>3 DEF DeleteModel
  <2>2. curr' \in Chat \cup {NoChat} /\ effect' \in BOOLEAN
    BY <1>1, <2>1 DEF SetChat, TypeOK
  <2>3. alive' \in BOOLEAN /\ engine' \in Engine
    BY <2>1, OtherTypes DEF TypeOK, native
  <2>4. modelRow' \subseteq Models
    BY <2>1 DEF TypeOK
  <2> QED BY <1>3, <2>2, <2>3, <2>4 DEF DeleteModel, TypeOK
<1> QED BY <1>2, <1>3

LEMMA GenerationTypes ==
  ASSUME TypeOK, NEW q \in Queries, Generation(q) \/ GenLeft(q)
  PROVE  TypeOK'
<1>1. gen[q] \in GenJob
  BY DEF TypeOK
<1>2. ASSUME NEW there \in Steps, NEW shown \in BOOLEAN
      PROVE  /\ [gen[q] EXCEPT !.at = there] \in GenJob
             /\ [gen[q] EXCEPT !.at = there, !.shown = shown] \in GenJob
  BY <1>1 DEF GenJob
<1>3. /\ {"start", "loop", "emit", "stop", "stop again", "cancel", "save", "main"} \subseteq Steps
      /\ UserRow(q) \in Row /\ TextOf(UserRow(q)) \in Text
      /\ [role |-> "assistant", of |-> q] \in Text
  BY RowTypes, TextTypes, QueryNumbers, {} \in SUBSET Queries DEF Steps, Text
<1>4. gen' \in [Queries -> GenJob]
  <2>1. CASE Ends(q)
    BY <2>1, IdleTypes DEF Ends, TypeOK
  <2>2. ASSUME NEW there \in Steps, Goto(q, there) PROVE gen' \in [Queries -> GenJob]
    BY <2>2, <1>2 DEF Goto, TypeOK
  <2>3. ASSUME GenLoop(q) PROVE gen' \in [Queries -> GenJob]
    BY <2>3, <1>2, <1>3 DEF GenLoop, TypeOK
  <2> QED BY <2>1, <2>2, <2>3, <1>3
          DEF Generation, GenStart, GenStartCompletion, GenLoopEnds, GenEmit,
              GenStop, GenCancel, GenSave, GenFinish, GenLeft
<1>5. alive' \in BOOLEAN /\ engine' \in Engine
  <2>1. CASE GenStartCompletion(q) \/ GenStop(q)
    BY <2>1, <1>3, AddTypes DEF GenStartCompletion, GenStop
  <2>2. CASE GenLoop(q) \/ GenLoopEnds(q) \/ GenCancel(q)
    BY <2>2, OtherTypes DEF GenLoop, GenLoopEnds, GenCancel
  <2>3. CASE GenStart(q) \/ GenEmit(q) \/ GenSave(q) \/ GenFinish(q) \/ GenLeft(q)
    BY <2>3 DEF GenStart, GenEmit, GenSave, GenFinish, GenLeft, TypeOK, native
  <2> QED BY <2>1, <2>2, <2>3 DEF Generation
<1>6. rows' \in [Chats -> Seq(Row)]
  <2>1. ASSUME NEW text \in SUBSET Queries, Store(q, text), gen[q].chat \in Chats
        PROVE  rows' \in [Chats -> Seq(Row)]
    BY <2>1, Stored, RowTypes DEF Store, TypeOK
  <2>2. ASSUME NEW text \in SUBSET Queries, Store(q, text), gen[q].chat \notin Chats
        PROVE  rows' \in [Chats -> Seq(Row)]
    BY <2>2 DEF Store, TypeOK
  <2>3. gen[q].text \subseteq Queries /\ partialResponse \subseteq Queries
    BY <1>1 DEF GenJob, TypeOK
  <2>4. CASE GenSave(q)
    BY <2>1, <2>2, <2>3, <2>4 DEF GenSave
  <2>5. CASE GenLeft(q)
    <3>1. PICK text \in SUBSET gen[q].text : Store(q, text)
      BY <2>5 DEF GenLeft
    <3> QED BY <2>1, <2>2, <2>3, <3>1
  <2> QED BY <2>4, <2>5
          DEF Generation, GenStart, GenStartCompletion, GenLoop, GenLoopEnds, GenEmit,
              GenStop, GenCancel, GenFinish, TypeOK
<1>7. partialResponse' \subseteq Queries /\ isGeneratingResponse' \in BOOLEAN
  BY DEF Generation, GenStart, GenStartCompletion, GenLoop, GenLoopEnds, GenEmit,
         GenStop, GenCancel, GenSave, GenFinish, GenLeft, TypeOK
<1>8. GenUnchanged
  BY DEF Generation, GenStart, GenStartCompletion, GenLoop, GenLoopEnds, GenEmit,
         GenStop, GenCancel, GenSave, GenFinish, GenLeft
<1> QED BY <1>4, <1>5, <1>6, <1>7, <1>8 DEF GenUnchanged, TypeOK

\* A load was launched for a chat: LoadPrompt reads its messages.
LoadsHaveChat == \A l \in Loads : Loading(l) => load[l].chat \in Chats

LEMMA LoadTypes ==
  ASSUME TypeOK, LoadsHaveChat, NEW l \in Loads, LoadJob(l)
  PROVE  TypeOK'
<1>1. load[l] \in Job
  BY DEF TypeOK
<1>2. CASE LoadCreate(l)
  <2>1. engine' \in Engine /\ alive' = alive
    <3>1. load[l].model \in Models \cup {NoModel}
      BY <1>1 DEF Job
    <3> QED BY <1>2, <3>1, NullTypes, MadeTypes DEF LoadCreate, Create
  <2>2. [load[l] EXCEPT !.at = "prompt"] \in Job
    BY <1>1 DEF Job
  <2>3. load' \in [Loads -> Job]
    BY <1>2, <2>2 DEF LoadCreate, TypeOK
  <2> QED BY <1>2, <2>1, <2>3 DEF LoadCreate, LoadUnchanged, TypeOK, databases
<1>3. CASE LoadPrompt(l)
  <2>1. engine' \in Engine /\ alive' \in BOOLEAN
    <3>1. SystemPrompt \in Text
      BY DEF SystemPrompt, Text
    <3>2. CASE AddMessage(SystemPrompt)
      BY <3>1, <3>2, AddTypes
    <3>3. CASE UNCHANGED native
      BY <3>3 DEF native, TypeOK
    <3> QED BY <1>3, <3>2, <3>3 DEF LoadPrompt
  <2>2. rows[load[l].chat] \in Seq(Row)
    BY <1>3 DEF LoadPrompt, LoadsHaveChat, Loading, TypeOK
  <2>3. [load[l] EXCEPT !.at = "replay", !.todo = rows[load[l].chat]] \in Job
    BY <1>1, <2>2 DEF Job
  <2>4. load' \in [Loads -> Job]
    BY <1>3, <2>3 DEF LoadPrompt, TypeOK
  <2> QED BY <1>3, <2>1, <2>4 DEF LoadPrompt, LoadUnchanged, TypeOK, databases
<1>4. CASE LoadReplay(l)
  <2>1. load[l].todo \in Seq(Row) /\ load[l].todo # <<>>
    BY <1>1, <1>4 DEF Job, LoadReplay
  <2>2. Head(load[l].todo) \in Row /\ Tail(load[l].todo) \in Seq(Row)
    BY <2>1, HeadTailProperties
  <2>3. engine' \in Engine /\ alive' \in BOOLEAN
    BY <1>4, <2>2, AddTypes, TextTypes DEF LoadReplay
  <2>4. [load[l] EXCEPT !.todo = Tail(@)] \in Job
    BY <1>1, <2>2 DEF Job
  <2>5. load' \in [Loads -> Job]
    BY <1>4, <2>4 DEF LoadReplay, TypeOK
  <2> QED BY <1>4, <2>3, <2>5 DEF LoadReplay, LoadUnchanged, TypeOK, databases
<1>5. CASE LoadFinish(l)
  <2>1. IdleLoad \in Job
    BY EmptySeq DEF IdleLoad, Job
  <2>2. load' \in [Loads -> Job]
    BY <1>5, <2>1 DEF LoadFinish, TypeOK
  <2> QED BY <1>5, <2>2 DEF LoadFinish, LoadUnchanged, TypeOK, databases, native
<1> QED BY <1>2, <1>3, <1>4, <1>5 DEF LoadJob

\* An import has a model to add.
ImportHasModel == import.at # "none" => import.model \in Models

LEMMA ImportTypes == TypeOK /\ ImportHasModel /\ (ImportStart \/ Import) => TypeOK'
<1> SUFFICES ASSUME TypeOK, ImportHasModel, ImportStart \/ Import PROVE TypeOK'
  OBVIOUS
<1>1. import \in ImportJob
  BY DEF TypeOK
<1>2. CASE ImportStart
  <2>1. import' \in ImportJob
    BY <1>2, ViewModelAssumption, IdleTypes DEF ImportStart, ImportJob
  <2> QED BY <1>2, <2>1 DEF ImportStart, ImportUnchanged, TypeOK, native
<1>3. CASE ImportAdd
  <2>1. import' \in ImportJob
    BY <1>1, <1>3, IdleTypes DEF ImportAdd, ImportJob
  <2>2. modelRow' \subseteq Models
    BY <1>3 DEF ImportAdd, ImportHasModel, TypeOK
  <2> QED BY <1>3, <2>1, <2>2 DEF ImportAdd, ImportUnchanged, TypeOK, native
<1>4. CASE ImportRead
  <2>1. (IF curr = NoChat THEN NoChat ELSE [curr EXCEPT !.llm = import.model]) \in Chat \cup {NoChat}
    BY <1>1 DEF TypeOK, Chat, ImportJob
  <2>2. import' \in ImportJob
    BY <1>1, <1>4, <2>1 DEF ImportRead, ImportJob
  <2> QED BY <1>4, <2>2 DEF ImportRead, ImportUnchanged, TypeOK, native
<1>5. CASE ImportWrite
  <2>1. curr' \in Chat \cup {NoChat} /\ effect' \in BOOLEAN /\ import' \in ImportJob
    BY <1>1, <1>5 DEF ImportWrite, SetChat, ImportJob, TypeOK
  <2> QED BY <1>5, <2>1 DEF ImportWrite, ImportUnchanged, TypeOK, native
<1>6. CASE ImportPut
  <2>1. import' \in ImportJob
    BY <1>1, <1>6, IdleTypes DEF ImportPut, ImportJob
  <2>2. chatRow' \in [Chats -> Models \cup {NoModel, Absent, Deleted}]
    <3>1. CASE curr = NoChat
      BY <1>6, <3>1 DEF ImportPut, TypeOK
    <3>2. CASE curr # NoChat
      BY <1>6, <3>2, RowOfChat DEF ImportPut, TypeOK, Chat
    <3> QED BY <3>1, <3>2
  <2> QED BY <1>6, <2>1, <2>2 DEF ImportPut, ImportUnchanged, TypeOK, native
<1>7. CASE ImportLoad
  <2>1. /\ dialog' \in BOOLEAN /\ isInitializingModel' \in BOOLEAN
        /\ load' \in [Loads -> Job] /\ crossed' \in Meetings
    BY <1>7, LoadModelTypes DEF ImportLoad, TypeOK
  <2> QED BY <1>7, <2>1, IdleTypes
          DEF ImportLoad, ImportUnchanged, TypeOK, Meetings, native
<1> QED BY <1>2, <1>3, <1>4, <1>5, <1>6, <1>7 DEF Import

-----------------------------------------------------------------------------
(***************************************************************************)
(* A load is launched with a chat, and a spinner that is switched on has a *)
(* load.                                                                   *)
(***************************************************************************)
LoadInv == LoadsHaveChat /\ SpinnerHasLoad

LEMMA ImportHasModelKept == TypeOK /\ ImportHasModel /\ [Next]_vars => ImportHasModel'
<1> SUFFICES ASSUME TypeOK, ImportHasModel, [Next]_vars PROVE ImportHasModel'
  OBVIOUS
<1> USE DEF ImportHasModel
<1>1. CASE import' \in {import, IdleImport}
  BY <1>1 DEF IdleImport
<1>2. CASE ImportStart
  BY <1>2, ViewModelAssumption DEF ImportStart, IdleImport
<1>3. CASE Import
  BY <1>1, <1>3 DEF Import, ImportAdd, ImportRead, ImportWrite, ImportPut, ImportLoad,
                    TypeOK, ImportJob
<1>4. ASSUME NEW q \in Queries, Generation(q) \/ GenLeft(q) PROVE import' = import
  BY <1>4 DEF Generation, GenStart, GenStartCompletion, GenLoop, GenLoopEnds, GenEmit,
         GenStop, GenCancel, GenSave, GenFinish, GenLeft, GenUnchanged
<1>5. ASSUME NEW l \in Loads, LoadJob(l) PROVE import' = import
  BY <1>5 DEF LoadJob, LoadCreate, LoadPrompt, LoadReplay, LoadFinish, LoadUnchanged
<1>6. CASE Open \/ Die \/ Recreate \/ Send \/ Stop \/ SwitchChat \/ DeleteChat
  BY <1>1, <1>6 DEF Open, Die, Recreate, Send, Stop, SwitchChat, DeleteChat
<1>7. CASE RunEffect \/ UpdateChat \/ LeaveSettings \/ OpenDialog \/ DismissDialog
           \/ SelectModel \/ DeleteModel \/ UNCHANGED vars
  BY <1>1, <1>7 DEF RunEffect, UpdateChat, LeaveSettings, OpenDialog, DismissDialog,
                    SelectModel, DeleteModel, vars
<1> QED BY <1>1, <1>2, <1>3, <1>4, <1>5, <1>6, <1>7 DEF Next, User

LEMMA LaunchKeepsLoads ==
  ASSUME TypeOK, LoadInv, NEW chat \in Chat, LaunchLoad(chat)
  PROVE  LoadInv'
<1>1. chat.chat \in Chats
  BY DEF Chat
<1>2. PICK l \in Loads :
        load' = [load EXCEPT ![l] =
          [at |-> "create", chat |-> chat.chat, model |-> chat.llm, todo |-> <<>>]]
  BY DEF LaunchLoad, FreeLoads
<1>3. load'[l].at = "create" /\ load'[l].chat = chat.chat
      /\ \A k \in Loads : k # l => load'[k] = load[k]
  BY <1>2 DEF TypeOK
<1> QED BY <1>1, <1>3 DEF LoadInv, LoadsHaveChat, SpinnerHasLoad, Loading

LEMMA LoadModelKeepsLoads ==
  ASSUME TypeOK, LoadInv, NEW chat \in Chat \cup {NoChat}, LoadModel(chat)
  PROVE  LoadInv'
<1>1. CASE UNCHANGED <<isInitializingModel, load>>
  BY <1>1 DEF LoadInv, LoadsHaveChat, SpinnerHasLoad, Loading
<1>2. CASE LaunchLoad(chat) /\ chat # NoChat
  BY <1>2, LaunchKeepsLoads
<1> QED BY <1>1, <1>2 DEF LoadModel

LEMMA LoadJobKeepsLoads ==
  ASSUME TypeOK, LoadInv, NEW l \in Loads, LoadJob(l)
  PROVE  LoadInv'
<1>1. load[l] \in Job
  BY DEF TypeOK
<1>2. ASSUME LoadCreate(l) \/ LoadPrompt(l) \/ LoadReplay(l)
      PROVE  /\ isInitializingModel' = isInitializingModel
             /\ load'[l].at # "none" /\ load[l].at # "none" /\ load'[l].chat = load[l].chat
             /\ \A k \in Loads : k # l => load'[k] = load[k]
  BY <1>1, <1>2 DEF LoadCreate, LoadPrompt, LoadReplay, Job, TypeOK
<1>3. CASE LoadCreate(l) \/ LoadPrompt(l) \/ LoadReplay(l)
  BY <1>2, <1>3 DEF LoadInv, LoadsHaveChat, SpinnerHasLoad, Loading
<1>4. CASE LoadFinish(l)
  BY <1>4 DEF LoadFinish, IdleLoad, LoadInv, LoadsHaveChat, SpinnerHasLoad, Loading, TypeOK
<1> QED BY <1>3, <1>4 DEF LoadJob

LEMMA LoadInvKept == TypeOK /\ LoadInv /\ [Next]_vars => LoadInv'
<1> SUFFICES ASSUME TypeOK, LoadInv, [Next]_vars PROVE LoadInv'
  OBVIOUS
<1> USE DEF LoadInv, LoadsHaveChat, SpinnerHasLoad, Loading
<1>1. CASE UNCHANGED <<isInitializingModel, load>>
  BY <1>1
<1>2. CASE Open \/ Recreate
  <2>1. isInitializingModel' = FALSE /\ \A l \in Loads : load'[l].at = "none"
    <3>1. NewViewModel
      BY <1>2 DEF Open, Recreate
    <3>2. isInitializingModel' = FALSE /\ load' = [l \in Loads |-> IdleLoad]
      BY <3>1 DEF NewViewModel
    <3> QED BY <3>2 DEF IdleLoad
  <2> QED BY <2>1
<1>3. CASE RunEffect \/ UpdateChat \/ ImportLoad
  BY <1>3, LoadModelKeepsLoads DEF RunEffect, UpdateChat, ImportLoad, TypeOK
<1>4. CASE SelectModel
  <2>1. PICK m \in Models : curr' = [curr EXCEPT !.llm = m] /\ LaunchLoad(curr')
    BY <1>4 DEF SelectModel, SetChat, TypeOK
  <2>2. curr' \in Chat
    BY <1>4, <2>1 DEF SelectModel, TypeOK, Chat
  <2> QED BY <2>1, <2>2, LaunchKeepsLoads
<1>5. ASSUME NEW l \in Loads, LoadJob(l) PROVE LoadInv'
  BY <1>5, LoadJobKeepsLoads
<1>6. ASSUME NEW q \in Queries, Generation(q) \/ GenLeft(q)
      PROVE  UNCHANGED <<isInitializingModel, load>>
  BY <1>6 DEF Generation, GenStart, GenStartCompletion, GenLoop, GenLoopEnds, GenEmit,
         GenStop, GenCancel, GenSave, GenFinish, GenLeft, GenUnchanged
<1>7. CASE Die \/ Send \/ Stop \/ SwitchChat \/ DeleteChat
  BY <1>1, <1>7 DEF Die, Send, Stop, SwitchChat, DeleteChat, screen
<1>8. CASE LeaveSettings \/ OpenDialog \/ DismissDialog \/ DeleteModel
  BY <1>1, <1>8 DEF LeaveSettings, OpenDialog, DismissDialog, DeleteModel
<1>9. CASE ImportStart \/ ImportAdd \/ ImportRead \/ ImportWrite \/ ImportPut
  BY <1>1, <1>9 DEF ImportStart, ImportAdd, ImportRead, ImportWrite, ImportPut
<1>10. CASE UNCHANGED vars
  BY <1>1, <1>10 DEF vars, screen
<1> QED BY <1>1, <1>2, <1>3, <1>4, <1>5, <1>6, <1>7, <1>8, <1>9, <1>10
        DEF Next, User, Import

-----------------------------------------------------------------------------
(***************************************************************************)
(* The first theorems                                                      *)
(***************************************************************************)
TypeInv == TypeOK /\ LoadInv /\ ImportHasModel

LEMMA TypeInit == Init => TypeInv
<1> SUFFICES ASSUME Init PROVE TypeInv
  OBVIOUS
<1>1. IdleLoad \in Job
  BY EmptySeq DEF IdleLoad, Job
<1>2. engine \in Engine
  BY NullTypes DEF Init
<1>3. rows \in [Chats -> Seq(Row)]
  BY FirstRowsAssumption DEF Init
<1>4. /\ chatRow \in [Chats -> Models \cup {NoModel, Absent, Deleted}]
      /\ modelRow \subseteq Models
  <2>1. FirstModels \subseteq Models \cup {NoModel, Absent}
    BY ViewModelAssumption
  <2> QED BY <2>1 DEF Init
<1>5. gen \in [Queries -> GenJob] /\ load \in [Loads -> Job] /\ import \in ImportJob
  BY <1>1, IdleTypes DEF Init
<1>6. responseGenerationJob \in 0..MaxQueries
  BY Bounds DEF Init
<1>7. LoadsHaveChat /\ SpinnerHasLoad
  BY DEF Init, IdleLoad, LoadsHaveChat, SpinnerHasLoad, Loading
<1>8. ImportHasModel
  BY DEF Init, IdleImport, ImportHasModel
<1> QED BY <1>2, <1>3, <1>4, <1>5, <1>6, <1>7, <1>8 DEF Init, TypeInv, TypeOK, LoadInv

LEMMA TypesKept == TypeInv /\ [Next]_vars => TypeInv'
<1> SUFFICES ASSUME TypeInv, [Next]_vars PROVE TypeInv'
  OBVIOUS
<1>1. TypeOK /\ LoadInv /\ ImportHasModel /\ LoadsHaveChat
  BY DEF TypeInv, LoadInv
<1>2. TypeOK'
  <2>1. CASE UNCHANGED vars
    BY <1>1, <2>1 DEF TypeOK, vars, databases, screen, native
  <2>2. CASE User
    BY <1>1, <2>2, LifeTypes, SendTypes, SwitchTypes, ScreenTypes, DialogTypes, ImportTypes
       DEF User
  <2>3. CASE RunEffect \/ Import
    BY <1>1, <2>3, ScreenTypes, ImportTypes
  <2>4. ASSUME NEW q \in Queries, Generation(q) \/ GenLeft(q) PROVE TypeOK'
    BY <1>1, <2>4, GenerationTypes
  <2>5. ASSUME NEW l \in Loads, LoadJob(l) PROVE TypeOK'
    BY <1>1, <2>5, LoadTypes
  <2> QED BY <2>1, <2>2, <2>3, <2>4, <2>5 DEF Next
<1>3. LoadInv'
  BY <1>1, LoadInvKept
<1>4. ImportHasModel'
  BY <1>1, ImportHasModelKept
<1> QED BY <1>2, <1>3, <1>4 DEF TypeInv

LEMMA TypesAlways == Spec => []TypeInv
  BY TypeInit, TypesKept, PTL DEF Spec

\* The state of the view model, the databases and the jobs keeps its types, for any
\* number of chats, models, queries and loads.
THEOREM TypeCorrect == Spec => []TypeOK
<1>1. TypeInv => TypeOK
  BY DEF TypeInv
<1> QED BY <1>1, TypesAlways, PTL

\* The spinner of a load is never on without a load that will switch it off,
\* however many loads overlap (isInitializingModel of loadModel).
THEOREM SpinnerCorrect == Spec => []SpinnerHasLoad
<1>1. TypeInv => SpinnerHasLoad
  BY DEF TypeInv, LoadInv
<1> QED BY <1>1, TypesAlways, PTL

-----------------------------------------------------------------------------
(***************************************************************************)
(* The stop button reaches what runs                                       *)
(***************************************************************************)

\* A job whose step leaves the flag and its own cancellation alone.
LEMMA QuietStep ==
  ASSUME TypeOK, NoRunawayJob, NEW q \in Queries, Running(q),
         gen' \in [Queries -> GenJob], \A k \in Queries : k # q => gen'[k] = gen[k],
         gen'[q].cancelled = gen[q].cancelled,
         UNCHANGED <<responseGenerationJob, isGeneratingResponse>>
  PROVE  NoRunawayJob'
  BY DEF NoRunawayJob, Active, Running

LEMMA GenerationReached ==
  ASSUME TypeOK, NoRunawayJob, NEW q \in Queries, Generation(q) \/ GenLeft(q)
  PROVE  NoRunawayJob'
<1>1. gen' \in [Queries -> GenJob]
  BY GenerationTypes DEF TypeOK
<1>2. responseGenerationJob' = responseGenerationJob
  BY DEF Generation, GenStart, GenStartCompletion, GenLoop, GenLoopEnds, GenEmit,
         GenStop, GenCancel, GenSave, GenFinish, GenLeft, GenUnchanged
<1>3. ASSUME Ends(q) PROVE gen'[q].at = "done" /\ \A k \in Queries : k # q => gen'[k] = gen[k]
  BY <1>3 DEF Ends, Done, IdleGen, TypeOK
<1>4. CASE Ends(q) /\ isGeneratingResponse' = isGeneratingResponse
  BY <1>2, <1>3, <1>4 DEF NoRunawayJob, Active, Running
<1>5. CASE GenFinish(q)
  <2>1. CASE gen[q].cancelled
    BY <1>4, <1>5, <2>1 DEF GenFinish, TypeOK
  <2>2. CASE ~gen[q].cancelled
    <3>1. \A k \in Queries : Active(k) => k = q
      BY <1>5, <2>2 DEF GenFinish, At, NoRunawayJob, Active, Running
    <3>2. Ends(q)
      BY <1>5 DEF GenFinish
    <3> QED BY <1>3, <3>1, <3>2 DEF NoRunawayJob, Active, Running
  <2> QED BY <2>1, <2>2
<1>6. ASSUME NEW there, Goto(q, there)
      PROVE  /\ gen'[q].cancelled = gen[q].cancelled
             /\ \A k \in Queries : k # q => gen'[k] = gen[k]
  BY <1>6 DEF Goto, TypeOK, GenJob
<1>7. ASSUME GenLoop(q)
      PROVE  /\ gen'[q].cancelled = gen[q].cancelled
             /\ \A k \in Queries : k # q => gen'[k] = gen[k]
  BY <1>7 DEF GenLoop, TypeOK, GenJob
<1>8. ASSUME \/ GenStart(q) /\ ~gen[q].cancelled
             \/ GenStartCompletion(q) \/ GenLoop(q) \/ GenLoopEnds(q) \/ GenEmit(q)
             \/ GenStop(q) \/ GenCancel(q) \/ GenSave(q)
      PROVE  NoRunawayJob'
  <2>1. Running(q) /\ isGeneratingResponse' = isGeneratingResponse
    BY <1>8 DEF GenStart, GenStartCompletion, GenLoop, GenLoopEnds, GenEmit, GenStop,
                GenCancel, GenSave, At, Running
  <2>2. GenLoop(q) \/ \E there : Goto(q, there)
    BY <1>8 DEF GenStart, GenStartCompletion, GenLoopEnds, GenEmit, GenStop, GenCancel, GenSave
  <2> QED BY <1>1, <1>2, <1>6, <1>7, <2>1, <2>2, QuietStep
<1>9. CASE GenLeft(q) \/ (GenStart(q) /\ gen[q].cancelled)
  BY <1>4, <1>9 DEF GenLeft, GenStart
<1> QED BY <1>5, <1>8, <1>9 DEF Generation

LEMMA StopReaches ==
  ASSUME TypeOK, NoRunawayJob, StopGeneration, responseGenerationJob' = responseGenerationJob
  PROVE  NoRunawayJob'
<1>1. CASE gen' = gen /\ ~(responseGenerationJob # 0 /\ Active(responseGenerationJob))
  <2>1. \A q \in Queries : ~Active(q)
    BY <1>1, QueryNumbers DEF NoRunawayJob
  <2> QED BY <1>1, <2>1 DEF NoRunawayJob, Active, Running
<1>2. CASE gen' = [gen EXCEPT ![responseGenerationJob].cancelled = TRUE]
  <2>1. \A q \in Queries : q # responseGenerationJob => gen'[q] = gen[q]
    BY <1>2 DEF TypeOK
  <2>2. responseGenerationJob \in Queries => gen'[responseGenerationJob].cancelled
    BY <1>2 DEF TypeOK, GenJob
  <2> QED BY <2>1, <2>2 DEF NoRunawayJob, Active, Running
<1> QED BY <1>1, <1>2 DEF StopGeneration

LEMMA RunawayKept == TypeOK /\ NoRunawayJob /\ [Next]_vars => NoRunawayJob'
<1> SUFFICES ASSUME TypeOK, NoRunawayJob, [Next]_vars PROVE NoRunawayJob'
  OBVIOUS
<1>1. CASE UNCHANGED <<gen, responseGenerationJob, isGeneratingResponse>>
  BY <1>1 DEF NoRunawayJob, Active, Running
<1>2. CASE Open \/ Recreate
  <2>1. \A q \in Queries : gen'[q].at \in {"none", "done", "left"}
    <3>1. CASE Open
      BY <3>1 DEF Open, IdleGen, Done, TypeOK
    <3>2. CASE Recreate
      <4>1. ASSUME NEW q \in Queries, NEW text
            PROVE  [gen[q] EXCEPT !.at = "left", !.shown = FALSE, !.text = text].at = "left"
        <5>1. gen[q] \in GenJob
          BY DEF TypeOK
        <5> QED BY <5>1 DEF GenJob
      <4>2. Done.at = "done"
        BY DEF Done, IdleGen
      <4> QED BY <3>2, <4>1, <4>2 DEF Recreate, Running
    <3> QED BY <1>2, <3>1, <3>2
  <2> QED BY <2>1 DEF NoRunawayJob, Active, Running
<1>3. CASE Send
  <2>1. PICK q \in Queries :
          /\ gen' = [gen EXCEPT ![q] = [IdleGen EXCEPT !.at = "queued", !.chat = curr.chat]]
          /\ responseGenerationJob' = q
    BY <1>3 DEF Send
  <2>2. \A k \in Queries : ~Active(k)
    BY <1>3 DEF Send, NoRunawayJob
  <2>3. isGeneratingResponse' = TRUE /\ \A k \in Queries : k # q => gen'[k] = gen[k]
    BY <1>3, <2>1 DEF Send, TypeOK
  <2> QED BY <2>1, <2>2, <2>3 DEF NoRunawayJob, Active, Running
<1>4. CASE Stop \/ SwitchChat \/ DeleteChat
  BY <1>4, StopReaches DEF Stop, SwitchChat, DeleteChat
<1>5. ASSUME NEW q \in Queries, Generation(q) \/ GenLeft(q) PROVE NoRunawayJob'
  BY <1>5, GenerationReached
<1>6. ASSUME NEW l \in Loads, LoadJob(l) PROVE NoRunawayJob'
  BY <1>1, <1>6 DEF LoadJob, LoadCreate, LoadPrompt, LoadReplay, LoadFinish, LoadUnchanged
<1>7. CASE ImportStart \/ Import
  BY <1>1, <1>7 DEF ImportStart, Import, ImportAdd, ImportRead, ImportWrite, ImportPut,
                    ImportLoad, ImportUnchanged
<1>8. CASE RunEffect \/ UpdateChat \/ LeaveSettings \/ OpenDialog \/ DismissDialog
           \/ SelectModel \/ DeleteModel
  BY <1>1, <1>8 DEF RunEffect, UpdateChat, LeaveSettings, OpenDialog, DismissDialog,
                    SelectModel, DeleteModel
<1>9. CASE Die \/ UNCHANGED vars
  BY <1>1, <1>9 DEF Die, vars, screen
<1> QED BY <1>2, <1>3, <1>4, <1>5, <1>6, <1>7, <1>8, <1>9 DEF Next, User

\* A job that nobody has stopped is the one the stop button reaches, and the button
\* is there, however many jobs of earlier queries are still ending.
THEOREM RunawayCorrect == Spec => []NoRunawayJob
<1>1. Init => NoRunawayJob
  BY DEF Init, IdleGen, NoRunawayJob, Active, Running
<1>2. TypeInv => TypeOK
  BY DEF TypeInv
<1> QED BY <1>1, <1>2, TypesAlways, RunawayKept, PTL DEF Spec

-----------------------------------------------------------------------------
(***************************************************************************)
(* Where no model is imported, a deleted chat stays deleted: whoever       *)
(* writes the row of a chat has it on the screen, or finds it in the       *)
(* database.                                                               *)
(***************************************************************************)
ShownInv == import.at = "none" /\ (curr # NoChat => Exists(curr.chat))

NoWayBack ==
  \A c \in Chats : /\ chatRow[c] = Deleted => chatRow'[c] = Deleted
                   /\ chatRow'[c] = Absent => chatRow[c] = Absent

LEMMA PutRow ==
  ASSUME TypeOK, NEW c \in Chats, chatRow[c] # Deleted, NEW m \in Models \cup {NoModel},
         chatRow' = [chatRow EXCEPT ![c] = m]
  PROVE  NoWayBack /\ chatRow'[c] \notin {Absent, Deleted}
  BY OnlyIds DEF TypeOK, NoWayBack

LEMMA ShownByNew ==
  ASSUME TypeOK, NewViewModel
  PROVE  NoWayBack /\ chatRow'[curr'.chat] \notin {Absent, Deleted}
<1>1. PICK c \in Chats :
        /\ Exists(c) \/ chatRow[c] = Absent
        /\ chatRow' = [chatRow EXCEPT ![c] = IF @ = Absent THEN NoModel ELSE @]
        /\ curr' = [chat |-> c, llm |-> chatRow'[c]]
  BY DEF NewViewModel
<1>2. chatRow[c] # Deleted /\ (chatRow[c] = Absent \/ chatRow[c] \in Models \cup {NoModel})
  BY <1>1, ViewModelAssumption DEF Exists, TypeOK
<1>3. PICK m \in Models \cup {NoModel} : chatRow' = [chatRow EXCEPT ![c] = m]
  BY <1>1, <1>2
<1>4. NoWayBack /\ chatRow'[c] \notin {Absent, Deleted}
  BY <1>2, <1>3, PutRow
<1> QED BY <1>1, <1>4

\* A handler that stores the row of the chat on the screen.
LEMMA ShownByPut ==
  ASSUME TypeOK, ShownInv, curr # NoChat, import' = import, NEW m \in Models \cup {NoModel},
         chatRow' = [chatRow EXCEPT ![curr.chat] = m], curr'.chat = curr.chat
  PROVE  ShownInv' /\ NoWayBack
<1>1. curr.chat \in Chats /\ chatRow[curr.chat] # Deleted
  BY DEF TypeOK, Chat, ShownInv, Exists
<1>2. NoWayBack /\ chatRow'[curr.chat] \notin {Absent, Deleted}
  BY <1>1, PutRow
<1>3. chatRow'[curr'.chat] \notin {Absent, Deleted}
  BY <1>2
<1> QED BY <1>2, <1>3 DEF ShownInv, Exists

LEMMA ShownKept ==
  ASSUME Imported = {}, TypeOK, ShownInv, Next
  PROVE  ShownInv' /\ NoWayBack
<1>1. CASE UNCHANGED <<chatRow, curr, import>>
  BY <1>1 DEF ShownInv, NoWayBack, Exists
<1>2. CASE Open \/ Recreate
  <2>1. import'.at = "none" /\ NewViewModel
    <3>1. NewViewModel /\ (import' = IdleImport \/ import' = import)
      BY <1>2, Zenon DEF Open, Recreate
    <3> QED BY <3>1 DEF ShownInv, IdleImport
  <2>2. NoWayBack /\ chatRow'[curr'.chat] \notin {Absent, Deleted}
    BY <2>1, ShownByNew
  <2> QED BY <2>1, <2>2 DEF ShownInv, Exists
<1>3. CASE Send \/ UpdateChat
  <2>1. curr # NoChat /\ curr.llm \in Models \cup {NoModel}
    BY <1>3 DEF Send, UpdateChat, TypeOK, Chat
  <2>2. chatRow' = [chatRow EXCEPT ![curr.chat] = curr.llm] /\ UNCHANGED <<curr, import>>
    BY <1>3 DEF Send, UpdateChat
  <2> QED BY <2>1, <2>2, ShownByPut
<1>4. CASE SwitchChat
  <2>1. PICK c \in Chats :
          /\ chatRow[c] # Deleted
          /\ chatRow' = [chatRow EXCEPT ![c] = IF @ = Absent THEN NoModel ELSE @]
          /\ curr' = [chat |-> c, llm |-> chatRow'[c]]
    BY <1>4 DEF SwitchChat, SetChat
  <2>2. PICK m \in Models \cup {NoModel} : chatRow' = [chatRow EXCEPT ![c] = m]
    BY <2>1 DEF TypeOK
  <2>3. NoWayBack /\ chatRow'[c] \notin {Absent, Deleted}
    BY <2>1, <2>2, PutRow
  <2>4. import' = import
    BY <1>4 DEF SwitchChat
  <2> QED BY <2>1, <2>3, <2>4 DEF ShownInv, Exists
<1>5. CASE DeleteChat
  <2>1. chatRow' = [chatRow EXCEPT ![curr.chat] = Deleted] /\ curr' = NoChat
        /\ import' = import /\ curr # NoChat
    BY <1>5 DEF DeleteChat, SetChat
  <2>2. Absent # Deleted
    BY ViewModelAssumption
  <2> QED BY <2>1, <2>2 DEF ShownInv, NoWayBack, TypeOK, Exists
<1>6. CASE SelectModel
  <2>1. PICK m \in modelRow : /\ curr' = [curr EXCEPT !.llm = m]
                              /\ chatRow' = [chatRow EXCEPT ![curr.chat] = m]
    BY <1>6 DEF SelectModel, SetChat
  <2>2. curr # NoChat /\ import' = import /\ m \in Models \cup {NoModel}
    BY <1>6 DEF SelectModel, TypeOK
  <2>3. curr'.chat = curr.chat
    BY <2>1, <2>2 DEF TypeOK, Chat
  <2> QED BY <2>1, <2>2, <2>3, ShownByPut
<1>7. CASE DeleteModel
  <2>1. UNCHANGED <<chatRow, import>>
    BY <1>7 DEF DeleteModel
  <2>2. curr' = curr \/ (curr # NoChat /\ curr' = [curr EXCEPT !.llm = NoModel])
    BY <1>7 DEF DeleteModel, SetChat
  <2>3. curr # NoChat => [curr EXCEPT !.llm = NoModel].chat = curr.chat
    BY DEF TypeOK, Chat
  <2> QED BY <2>1, <2>2, <2>3 DEF ShownInv, NoWayBack, Exists
<1>8. CASE ImportStart \/ Import
  BY <1>8 DEF ImportStart, Import, ImportAdd, ImportRead, ImportWrite, ImportPut,
              ImportLoad, ShownInv
<1>9. CASE Stop \/ LeaveSettings \/ OpenDialog \/ DismissDialog \/ RunEffect \/ Die
  BY <1>1, <1>9 DEF Stop, LeaveSettings, OpenDialog, DismissDialog, RunEffect, Die,
                    databases, screen
<1>10. ASSUME NEW q \in Queries, Generation(q) \/ GenLeft(q) PROVE ShownInv' /\ NoWayBack
  BY <1>1, <1>10 DEF Generation, GenStart, GenStartCompletion, GenLoop, GenLoopEnds,
                     GenEmit, GenStop, GenCancel, GenSave, GenFinish, GenLeft, GenUnchanged
<1>11. ASSUME NEW l \in Loads, LoadJob(l) PROVE ShownInv' /\ NoWayBack
  BY <1>1, <1>11 DEF LoadJob, LoadCreate, LoadPrompt, LoadReplay, LoadFinish,
                     LoadUnchanged, databases
<1> QED BY <1>2, <1>3, <1>4, <1>5, <1>6, <1>7, <1>8, <1>9, <1>10, <1>11 DEF Next, User

LEMMA ShownAlways == ASSUME Imported = {} PROVE Spec => []ShownInv
<1>1. Init => ShownInv
  BY DEF Init, IdleImport, ShownInv
<1>2. TypeInv /\ ShownInv /\ [Next]_vars => ShownInv'
  <2>1. UNCHANGED vars /\ ShownInv => ShownInv'
    BY DEF vars, databases, screen, ShownInv, Exists
  <2> QED BY <2>1, ShownKept DEF TypeInv
<1> QED BY <1>1, <1>2, TypesAlways, PTL DEF Spec

-----------------------------------------------------------------------------
(***************************************************************************)
(* Replies follow their query. The invariant says what a job that has yet  *)
(* to store its reply counts on: its chat is not one that has never been   *)
(* in the database, and, unless the chat is deleted, the query is there    *)
(* and no reply to it is.                                                  *)
(***************************************************************************)
Waiting(q) == gen[q].at \notin {"none", "done", "main"}
Unseen(chat, q) == \A i \in 1..Len(chat) : chat[i].query # q
Asked(chat, q) ==
  /\ \E i \in 1..Len(chat) : chat[i].user /\ chat[i].query = q
  /\ \A i \in 1..Len(chat) : ~chat[i].user => chat[i].query # q

EmptyChats == \A c \in Chats : chatRow[c] = Absent => rows[c] = <<>>
JobChats == \A q \in Queries : Waiting(q) => gen[q].chat \in Chats /\ chatRow[gen[q].chat] # Absent
QueryStored ==
  \A q \in Queries : Waiting(q) /\ Exists(gen[q].chat) => Asked(rows[gen[q].chat], q)
Unsent == \A q \in Queries, c \in Chats : gen[q].at = "none" => Unseen(rows[c], q)

ReplyInv == EmptyChats /\ JobChats /\ QueryStored /\ Unsent /\ RepliesAnswer

LEMMA AppendUser ==
  ASSUME NEW chat \in Seq(Row), NEW q \in Queries
  PROVE  /\ Answered(chat) => Answered(Append(chat, UserRow(q)))
         /\ Unseen(chat, q) => Asked(Append(chat, UserRow(q)), q)
         /\ \A k \in Queries \ {q} :
              /\ Asked(chat, k) => Asked(Append(chat, UserRow(q)), k)
              /\ Unseen(chat, k) => Unseen(Append(chat, UserRow(q)), k)
<1> DEFINE longer == Append(chat, UserRow(q))
<1>1. UserRow(q) \in Row
  BY RowTypes
<1>2. /\ Len(chat) \in Nat /\ Len(longer) = Len(chat) + 1
      /\ \A i \in 1..Len(chat) : longer[i] = chat[i]
      /\ longer[Len(chat) + 1] = UserRow(q)
  BY <1>1, AppendProperties, LenProperties
<1>3. UserRow(q).user = TRUE /\ UserRow(q).query = q
  BY DEF UserRow
<1> HIDE DEF longer
<1>4. Answered(chat) => Answered(longer)
  <2> SUFFICES ASSUME Answered(chat), NEW i \in 1..Len(longer), ~longer[i].user
               PROVE  /\ \E j \in 1..(i - 1) : longer[j].user /\ longer[j].query = longer[i].query
                      /\ \A j \in 1..(i - 1) : ~longer[j].user => longer[j].query # longer[i].query
    BY DEF Answered
  <2>1. i \in 1..Len(chat) /\ longer[i] = chat[i]
    BY <1>2, <1>3
  <2>2. \A j \in 1..(i - 1) : longer[j] = chat[j]
    BY <1>2, <2>1
  <2>3. /\ \E j \in 1..(i - 1) : chat[j].user /\ chat[j].query = chat[i].query
        /\ \A j \in 1..(i - 1) : ~chat[j].user => chat[j].query # chat[i].query
    <3>1. ~chat[i].user
      BY <2>1
    <3> QED BY <2>1, <3>1 DEF Answered
  <2>4. \E j \in 1..(i - 1) : longer[j].user /\ longer[j].query = longer[i].query
    <3>1. PICK j \in 1..(i - 1) : chat[j].user /\ chat[j].query = chat[i].query
      BY <2>3
    <3>2. longer[j].user /\ longer[j].query = longer[i].query
      BY <3>1, <2>1, <2>2, Zenon
    <3> QED BY <3>2
  <2>5. ASSUME NEW j \in 1..(i - 1), ~longer[j].user PROVE longer[j].query # longer[i].query
    BY <2>1, <2>2, <2>3, <2>5, Zenon
  <2> QED BY <2>4, <2>5
<1>5. Unseen(chat, q) => Asked(longer, q)
  BY <1>2, <1>3 DEF Unseen, Asked
<1>6. ASSUME NEW k \in Queries \ {q}
      PROVE (Asked(chat, k) => Asked(longer, k)) /\ (Unseen(chat, k) => Unseen(longer, k))
  BY <1>2, <1>3 DEF Unseen, Asked
<1> QED BY <1>4, <1>5, <1>6 DEF longer

LEMMA AppendReply ==
  ASSUME NEW chat \in Seq(Row), NEW q \in Queries, NEW text \in SUBSET Queries
  PROVE  /\ Answered(chat) /\ Asked(chat, q) => Answered(Append(chat, ReplyRow(q, text)))
         /\ \A k \in Queries \ {q} :
              /\ Asked(chat, k) => Asked(Append(chat, ReplyRow(q, text)), k)
              /\ Unseen(chat, k) => Unseen(Append(chat, ReplyRow(q, text)), k)
<1> DEFINE longer == Append(chat, ReplyRow(q, text))
<1>1. ReplyRow(q, text) \in Row
  BY RowTypes
<1>2. /\ Len(chat) \in Nat /\ Len(longer) = Len(chat) + 1
      /\ \A i \in 1..Len(chat) : longer[i] = chat[i]
      /\ longer[Len(chat) + 1] = ReplyRow(q, text)
  BY <1>1, AppendProperties, LenProperties
<1>3. ReplyRow(q, text).user = FALSE /\ ReplyRow(q, text).query = q
  BY DEF ReplyRow
<1> HIDE DEF longer
<1>4. ASSUME Answered(chat), Asked(chat, q) PROVE Answered(longer)
  <2>1. ASSUME NEW i \in 1..Len(longer), ~longer[i].user
        PROVE  /\ \E j \in 1..(i - 1) : longer[j].user /\ longer[j].query = longer[i].query
               /\ \A j \in 1..(i - 1) : ~longer[j].user => longer[j].query # longer[i].query
    <3>1. CASE i = Len(chat) + 1
      BY <1>2, <1>3, <1>4, <3>1 DEF Asked
    <3>2. CASE i \in 1..Len(chat)
      <4>1. longer[i] = chat[i] /\ \A j \in 1..(i - 1) : longer[j] = chat[j]
        BY <1>2, <3>2
      <4>2. ~chat[i].user
        BY <2>1, <4>1
      <4>3. /\ \E j \in 1..(i - 1) : chat[j].user /\ chat[j].query = chat[i].query
            /\ \A j \in 1..(i - 1) : ~chat[j].user => chat[j].query # chat[i].query
        BY <1>4, <3>2, <4>2 DEF Answered
      <4> QED BY <4>1, <4>3, Zenon
    <3> QED BY <1>2, <3>1, <3>2
  <2> QED BY <2>1 DEF Answered
<1>5. ASSUME NEW k \in Queries \ {q}
      PROVE (Asked(chat, k) => Asked(longer, k)) /\ (Unseen(chat, k) => Unseen(longer, k))
  BY <1>2, <1>3 DEF Unseen, Asked
<1> QED BY <1>4, <1>5 DEF longer

\* A step of the jobs on which no new reply depends.
JobsKept ==
  \A q \in Queries : /\ gen'[q].at = "none" => gen[q].at = "none"
                     /\ Waiting(q)' => Waiting(q) /\ gen'[q].chat = gen[q].chat

LEMMA RowsUnchanged ==
  ASSUME TypeOK, ReplyInv, NoWayBack, JobsKept, rows' = rows
  PROVE  ReplyInv'
<1>1. \A c \in Chats : Exists(c)' => Exists(c) \/ chatRow[c] = Absent
  BY DEF NoWayBack, Exists
<1>2. Answered(<<>>)
  BY EmptySeq DEF Answered
<1>3. RepliesAnswer'
  BY <1>1, <1>2 DEF ReplyInv, RepliesAnswer, EmptyChats, Answered
<1>4. EmptyChats' /\ JobChats' /\ Unsent'
  BY DEF ReplyInv, EmptyChats, JobChats, Unsent, NoWayBack, JobsKept, Waiting, Unseen
<1>5. ASSUME NEW q \in Queries, Waiting(q)', Exists(gen[q].chat)'
      PROVE  Asked(rows[gen[q].chat], q)'
  <2>1. Waiting(q) /\ gen'[q].chat = gen[q].chat
    BY <1>5 DEF JobsKept
  <2>2. gen[q].chat \in Chats /\ Exists(gen[q].chat)
    BY <1>1, <1>5, <2>1 DEF ReplyInv, JobChats, Exists
  <2>3. Asked(rows[gen[q].chat], q)
    BY <2>1, <2>2 DEF ReplyInv, QueryStored
  <2> QED BY <2>1, <2>3 DEF Asked
<1>6. QueryStored'
  BY <1>5 DEF QueryStored
<1> QED BY <1>3, <1>4, <1>6 DEF ReplyInv

LEMMA RowStored ==
  ASSUME TypeOK, ReplyInv, NoWayBack, JobsKept, NEW q \in Queries, Waiting(q), ~Waiting(q)',
         gen'[q].at # "none",
         NEW text \in SUBSET Queries, Store(q, text), UNCHANGED chatRow
  PROVE  ReplyInv'
<1>1. CASE text = {}
  BY <1>1, RowsUnchanged DEF Store
<1>2. CASE text # {}
  <2> DEFINE c == gen[q].chat
  <2>1. c \in Chats /\ chatRow[c] # Absent /\ rows[c] \in Seq(Row)
    BY DEF ReplyInv, JobChats, TypeOK
  <2>2. rows' = [rows EXCEPT ![c] = Append(@, ReplyRow(q, text))]
    BY <1>2 DEF Store
  <2>3. /\ rows'[c] = Append(rows[c], ReplyRow(q, text))
        /\ \A d \in Chats \ {c} : rows'[d] = rows[d]
    BY <2>1, <2>2 DEF TypeOK
  <2>4. \A d \in Chats : Exists(d)' <=> Exists(d)
    BY DEF Exists
  <2> HIDE DEF c
  <2>5. RepliesAnswer'
    <3>1. Exists(c) => Answered(rows[c]) /\ Asked(rows[c], q)
      BY <2>1 DEF c, ReplyInv, RepliesAnswer, QueryStored
    <3>2. Exists(c) => Answered(rows'[c])
      BY <2>1, <2>3, <3>1, AppendReply
    <3>3. \A d \in Chats : Exists(d) => Answered(rows'[d])
      BY <2>3, <3>2 DEF ReplyInv, RepliesAnswer
    <3> QED BY <2>4, <3>3 DEF RepliesAnswer, Answered
  <2>6. EmptyChats' /\ JobChats'
    BY <2>1, <2>3 DEF ReplyInv, EmptyChats, JobChats, JobsKept, Waiting
  <2>7. ASSUME NEW k \in Queries \ {q}, NEW d \in Chats
        PROVE  /\ Unseen(rows[d], k) => Unseen(rows'[d], k)
               /\ Asked(rows[d], k) => Asked(rows'[d], k)
    BY <2>1, <2>3, <2>7, AppendReply
  <2>8. Unsent'
    <3>1. ASSUME NEW k \in Queries, NEW d \in Chats, gen'[k].at = "none"
          PROVE  Unseen(rows'[d], k)
      BY <2>7, <3>1 DEF ReplyInv, Unsent, JobsKept
    <3> QED BY <3>1 DEF Unsent, Unseen
  <2>9. QueryStored'
    <3>1. ASSUME NEW k \in Queries, Waiting(k)', Exists(gen'[k].chat)
          PROVE  Asked(rows'[gen'[k].chat], k)
      BY <2>7, <3>1 DEF ReplyInv, QueryStored, JobChats, JobsKept
    <3> QED BY <2>4, <3>1 DEF QueryStored, Asked, Exists
  <2> QED BY <2>5, <2>6, <2>8, <2>9 DEF ReplyInv
<1> QED BY <1>1, <1>2

LEMMA GenerationJobs ==
  ASSUME TypeOK, NEW q \in Queries, Generation(q) \/ GenLeft(q) PROVE JobsKept
<1>1. \A k \in Queries \ {q} : gen'[k] = gen[k]
  BY DEF Generation, GenStart, GenStartCompletion, GenLoop, GenLoopEnds, GenEmit, GenStop,
         GenCancel, GenSave, GenFinish, GenLeft, Goto, Ends, TypeOK
<1>2. gen[q].at # "none"
  BY DEF Generation, GenStart, GenStartCompletion, GenLoop, GenLoopEnds, GenEmit, GenStop,
         GenCancel, GenSave, GenFinish, GenLeft, At
<1>3. CASE Ends(q)
  BY <1>1, <1>2, <1>3 DEF Ends, Done, IdleGen, TypeOK, JobsKept, Waiting
<1>4. ASSUME gen[q].at # "main",
             \/ GenLoop(q)
             \/ \E there \in Steps \ {"none"} : Goto(q, there)
      PROVE  JobsKept
  <2>1. gen[q].at # "done" /\ (Generation(q) \/ GenLeft(q))
    BY DEF Generation, GenStart, GenStartCompletion, GenLoop, GenLoopEnds, GenEmit, GenStop,
           GenCancel, GenSave, GenFinish, GenLeft, At
  <2>2. gen[q] \in GenJob
    BY DEF TypeOK
  <2>3. ASSUME NEW there \in Steps \ {"none"}, NEW yes \in BOOLEAN
        PROVE  /\ [gen[q] EXCEPT !.at = there].at = there
               /\ [gen[q] EXCEPT !.at = there].chat = gen[q].chat
               /\ [gen[q] EXCEPT !.at = there, !.shown = yes].at = there
               /\ [gen[q] EXCEPT !.at = there, !.shown = yes].chat = gen[q].chat
    BY <2>2 DEF GenJob
  <2>4. gen'[q].at # "none" /\ gen'[q].chat = gen[q].chat
    <3>1. CASE GenLoop(q)
      <4>1. PICK piece \in Pieces \ {"[EOG]"} :
              gen' = [gen EXCEPT ![q].at = "emit", ![q].shown = piece # "filtered"]
        BY <3>1 DEF GenLoop
      <4>2. gen'[q] = [gen[q] EXCEPT !.at = "emit", !.shown = piece # "filtered"]
        BY <4>1 DEF TypeOK
      <4>3. "emit" \in Steps \ {"none"}
        BY DEF Steps
      <4> QED BY <2>3, <4>2, <4>3
    <3>2. ASSUME NEW there \in Steps \ {"none"}, Goto(q, there)
          PROVE  gen'[q].at # "none" /\ gen'[q].chat = gen[q].chat
      <4>1. gen'[q] = [gen[q] EXCEPT !.at = there]
        BY <3>2 DEF Goto, TypeOK
      <4> QED BY <2>3, <4>1
    <3> QED BY <1>4, <3>1, <3>2
  <2> QED BY <1>1, <1>2, <1>4, <2>1, <2>4 DEF JobsKept, Waiting
<1>5. CASE GenFinish(q) \/ GenLeft(q) \/ (GenStart(q) /\ gen[q].cancelled)
  BY <1>3, <1>5 DEF GenFinish, GenLeft, GenStart
<1>6. CASE \/ GenStart(q) /\ ~gen[q].cancelled
           \/ GenStartCompletion(q) \/ GenLoop(q) \/ GenLoopEnds(q) \/ GenEmit(q)
           \/ GenStop(q) \/ GenCancel(q) \/ GenSave(q)
  <2>1. gen[q].at # "main"
    BY <1>6 DEF GenStart, GenStartCompletion, GenLoop, GenLoopEnds, GenEmit, GenStop,
                GenCancel, GenSave, At
  <2>2. GenLoop(q) \/ \E there \in Steps \ {"none"} : Goto(q, there)
    BY <1>6 DEF GenStart, GenStartCompletion, GenLoopEnds, GenEmit, GenStop, GenCancel,
                GenSave, Steps
  <2> QED BY <1>4, <2>1, <2>2
<1> QED BY <1>5, <1>6 DEF Generation

LEMMA StopJobs == ASSUME TypeOK, StopGeneration PROVE JobsKept
<1>1. CASE gen' = gen
  BY <1>1 DEF JobsKept, Waiting
<1>2. CASE gen' = [gen EXCEPT ![responseGenerationJob].cancelled = TRUE]
  <2>1. ASSUME NEW q \in Queries PROVE gen'[q].at = gen[q].at /\ gen'[q].chat = gen[q].chat
    <3>1. gen[q] \in GenJob
      BY DEF TypeOK
    <3>2. gen'[q] = gen[q] \/ gen'[q] = [gen[q] EXCEPT !.cancelled = TRUE]
      BY <1>2 DEF TypeOK
    <3> QED BY <3>1, <3>2 DEF GenJob
  <2> QED BY <2>1 DEF JobsKept, Waiting
<1> QED BY <1>1, <1>2 DEF StopGeneration

LEMMA NewJobs == ASSUME TypeOK, Open \/ Recreate PROVE JobsKept
<1>1. CASE Open
  <2>1. \A q \in Queries : gen'[q] = IF gen[q].at = "none" THEN IdleGen ELSE Done
    BY <1>1 DEF Open
  <2>2. IdleGen.at = "none" /\ Done.at = "done"
    BY DEF IdleGen, Done
  <2> QED BY <2>1, <2>2 DEF JobsKept, Waiting
<1>2. CASE Recreate
  <2>1. ASSUME NEW q \in Queries, NEW text
        PROVE  /\ [gen[q] EXCEPT !.at = "left", !.shown = FALSE, !.text = text].at = "left"
               /\ [gen[q] EXCEPT !.at = "left", !.shown = FALSE, !.text = text].chat
                    = gen[q].chat
    <3>1. gen[q] \in GenJob
      BY DEF TypeOK
    <3> QED BY <3>1 DEF GenJob
  <2>2. Done.at = "done"
    BY DEF IdleGen, Done
  <2>3. \A q \in Queries :
          \/ ~Running(q) /\ gen'[q] = gen[q]
          \/ gen'[q] = Done /\ Running(q)
          \/ /\ Running(q) /\ gen[q].at # "main"
             /\ gen'[q].at = "left" /\ gen'[q].chat = gen[q].chat
    BY <1>2, <2>1 DEF Recreate
  <2> QED BY <2>2, <2>3 DEF JobsKept, Waiting, Running
<1> QED BY <1>1, <1>2

LEMMA QuerySent ==
  ASSUME TypeOK, ShownInv, ReplyInv, NoWayBack, Send PROVE ReplyInv'
<1>1. PICK q \in Queries :
        /\ gen[q].at = "none"
        /\ rows' = [rows EXCEPT ![curr.chat] = Append(@, UserRow(q))]
        /\ chatRow' = [chatRow EXCEPT ![curr.chat] = curr.llm]
        /\ gen' = [gen EXCEPT ![q] = [IdleGen EXCEPT !.at = "queued", !.chat = curr.chat]]
  BY DEF Send
<1>2. PICK c \in Chats : c = curr.chat
  BY DEF Send, TypeOK, Chat
<1>3. Exists(c) /\ chatRow'[c] \notin {Absent, Deleted} /\ rows[c] \in Seq(Row)
  <2>1. curr.llm \in Models \cup {NoModel}
    BY DEF Send, TypeOK, Chat
  <2> QED BY <1>1, <1>2, <2>1, PutRow DEF Send, ShownInv, Exists, TypeOK
<1>4. /\ rows'[c] = Append(rows[c], UserRow(q))
      /\ \A d \in Chats \ {c} : rows'[d] = rows[d] /\ chatRow'[d] = chatRow[d]
  BY <1>1, <1>2 DEF TypeOK
<1>5. \A d \in Chats : Exists(d)' <=> Exists(d)
  BY <1>3, <1>4 DEF Exists
<1>6. /\ gen'[q].at = "queued" /\ gen'[q].chat = c
      /\ \A k \in Queries \ {q} : gen'[k] = gen[k]
  BY <1>1, <1>2 DEF TypeOK, IdleGen
<1>7. Unseen(rows[c], q) /\ Answered(rows[c])
  BY <1>1, <1>3 DEF ReplyInv, Unsent, RepliesAnswer
<1>8. Answered(rows'[c]) /\ Asked(rows'[c], q)
  BY <1>3, <1>4, <1>7, AppendUser
<1>9. ASSUME NEW k \in Queries \ {q}, NEW d \in Chats
      PROVE  /\ Unseen(rows[d], k) => Unseen(rows'[d], k)
             /\ Asked(rows[d], k) => Asked(rows'[d], k)
  BY <1>3, <1>4, <1>9, AppendUser
<1>10. RepliesAnswer'
  <2>1. \A d \in Chats : Exists(d) => Answered(rows'[d])
    BY <1>4, <1>8 DEF ReplyInv, RepliesAnswer
  <2> QED BY <1>5, <2>1 DEF RepliesAnswer, Answered
<1>11. EmptyChats' /\ JobChats'
  BY <1>3, <1>4, <1>6 DEF ReplyInv, EmptyChats, JobChats, Waiting
<1>12. Unsent'
  <2>1. ASSUME NEW k \in Queries, NEW d \in Chats, gen'[k].at = "none"
        PROVE  Unseen(rows'[d], k)
    <3>1. k # q /\ gen[k].at = "none"
      BY <1>6, <2>1
    <3> QED BY <1>9, <3>1 DEF ReplyInv, Unsent
  <2> QED BY <2>1 DEF Unsent, Unseen
<1>13. ASSUME NEW k \in Queries, Waiting(k)', Exists(gen[k].chat)'
       PROVE  Asked(rows[gen[k].chat], k)'
  <2>1. CASE k = q
    BY <1>6, <1>8, <2>1 DEF Asked
  <2>2. CASE k # q
    <3>1. Waiting(k) /\ gen'[k] = gen[k] /\ gen[k].chat \in Chats
      BY <1>6, <1>13, <2>2 DEF Waiting, ReplyInv, JobChats
    <3>2. Exists(gen[k].chat)
      <4>1. chatRow'[gen[k].chat] \notin {Absent, Deleted}
        BY <1>13, <3>1 DEF Exists
      <4> QED BY <1>5, <3>1, <4>1 DEF Exists
    <3>3. Asked(rows[gen[k].chat], k)
      BY <3>1, <3>2 DEF ReplyInv, QueryStored
    <3>4. Asked(rows'[gen[k].chat], k)
      BY <1>9, <2>2, <3>1, <3>3
    <3> QED BY <3>1, <3>4 DEF Asked
  <2> QED BY <2>1, <2>2
<1>14. QueryStored'
  BY <1>13 DEF QueryStored
<1> QED BY <1>10, <1>11, <1>12, <1>14 DEF ReplyInv

LEMMA ChatDeleted ==
  ASSUME TypeOK, ReplyInv, DeleteChat PROVE ReplyInv'
<1>1. JobsKept
  BY StopJobs DEF DeleteChat
<1>2. PICK c \in Chats : /\ chatRow' = [chatRow EXCEPT ![c] = Deleted]
                         /\ rows' = [rows EXCEPT ![c] = <<>>]
  BY DEF DeleteChat, TypeOK, Chat
<1>3. /\ rows'[c] = <<>> /\ chatRow'[c] = Deleted /\ Absent # Deleted
      /\ \A d \in Chats \ {c} : rows'[d] = rows[d] /\ chatRow'[d] = chatRow[d]
  BY <1>2, ViewModelAssumption DEF TypeOK
<1>4. \A d \in Chats : Exists(d)' => d # c /\ Exists(d)
  BY <1>3 DEF Exists
<1>5. RepliesAnswer'
  BY <1>3, <1>4 DEF ReplyInv, RepliesAnswer, Answered
<1>6. EmptyChats' /\ JobChats'
  BY <1>1, <1>3 DEF ReplyInv, EmptyChats, JobChats, JobsKept, Waiting
<1>7. Unsent'
  <2>1. ASSUME NEW k \in Queries, NEW d \in Chats, gen'[k].at = "none"
        PROVE  Unseen(rows'[d], k)
    <3>1. CASE d = c
      BY <1>3, <3>1, EmptySeq DEF Unseen
    <3>2. CASE d # c
      BY <1>1, <1>3, <2>1, <3>2 DEF ReplyInv, Unsent, JobsKept
    <3> QED BY <3>1, <3>2
  <2> QED BY <2>1 DEF Unsent, Unseen
<1>8. ASSUME NEW k \in Queries, Waiting(k)', Exists(gen[k].chat)'
      PROVE  Asked(rows[gen[k].chat], k)'
  <2>1. Waiting(k) /\ gen'[k].chat = gen[k].chat
    BY <1>1, <1>8 DEF JobsKept
  <2>2. gen[k].chat \in Chats
    BY <2>1 DEF ReplyInv, JobChats
  <2>3. Exists(gen[k].chat)' => chatRow'[gen[k].chat] \notin {Absent, Deleted}
    BY <2>1 DEF Exists
  <2>4. gen[k].chat # c /\ Exists(gen[k].chat)
    BY <1>3, <1>8, <2>2, <2>3 DEF Exists
  <2>5. Asked(rows[gen[k].chat], k)
    BY <2>1, <2>4 DEF ReplyInv, QueryStored
  <2> QED BY <1>3, <2>1, <2>2, <2>4, <2>5 DEF Asked
<1>9. QueryStored'
  BY <1>8 DEF QueryStored
<1> QED BY <1>5, <1>6, <1>7, <1>9 DEF ReplyInv

LEMMA RepliesKept ==
  ASSUME Imported = {}, TypeOK, ShownInv, ReplyInv, Next PROVE ReplyInv'
<1>1. NoWayBack
  BY ShownKept
<1>2. CASE UNCHANGED <<rows, gen>>
  <2>1. JobsKept
    BY <1>2 DEF JobsKept, Waiting
  <2> QED BY <1>1, <1>2, <2>1, RowsUnchanged
<1>3. CASE Open \/ Recreate
  <2>1. rows' = rows
    BY <1>3 DEF Open, Recreate, NewViewModel
  <2> QED BY <1>1, <1>3, <2>1, NewJobs, RowsUnchanged
<1>4. CASE Send
  BY <1>1, <1>4, QuerySent
<1>5. CASE Stop \/ SwitchChat
  <2>1. rows' = rows /\ StopGeneration
    BY <1>5 DEF Stop, SwitchChat, databases
  <2> QED BY <1>1, <2>1, StopJobs, RowsUnchanged
<1>6. CASE DeleteChat
  BY <1>6, ChatDeleted
<1>7. ASSUME NEW q \in Queries, Generation(q) \/ GenLeft(q) PROVE ReplyInv'
  <2>1. JobsKept
    BY <1>7, GenerationJobs
  <2>2. CASE GenSave(q) \/ GenLeft(q)
    <3>1. PICK text \in SUBSET Queries : Store(q, text)
      <4>1. CASE GenSave(q)
        BY <4>1 DEF GenSave, TypeOK
      <4>2. CASE GenLeft(q)
        BY <4>2 DEF GenLeft, TypeOK, GenJob
      <4> QED BY <2>2, <4>1, <4>2
    <3>2. Waiting(q) /\ chatRow' = chatRow
      BY <2>2 DEF GenSave, GenLeft, At, Waiting, GenUnchanged
    <3>3. gen'[q].at \in {"main", "done"}
      <4>1. CASE GenSave(q)
        BY <4>1 DEF GenSave, Goto, TypeOK, GenJob
      <4>2. CASE GenLeft(q)
        BY <4>2 DEF GenLeft, Ends, Done, IdleGen, TypeOK
      <4> QED BY <2>2, <4>1, <4>2
    <3> QED BY <1>1, <2>1, <3>1, <3>2, <3>3, RowStored DEF Waiting
  <2>3. CASE ~(GenSave(q) \/ GenLeft(q))
    <3>1. rows' = rows
      BY <1>7, <2>3 DEF Generation, GenStart, GenStartCompletion, GenLoop, GenLoopEnds,
                        GenEmit, GenStop, GenCancel, GenFinish
    <3> QED BY <1>1, <2>1, <3>1, RowsUnchanged
  <2> QED BY <2>2, <2>3
<1>8. ASSUME NEW l \in Loads, LoadJob(l) PROVE ReplyInv'
  BY <1>2, <1>8 DEF LoadJob, LoadCreate, LoadPrompt, LoadReplay, LoadFinish,
                    LoadUnchanged, databases
<1>9. CASE ImportStart \/ Import
  BY <1>2, <1>9 DEF ImportStart, Import, ImportAdd, ImportRead, ImportWrite, ImportPut,
                    ImportLoad, ImportUnchanged
<1>10. CASE RunEffect \/ UpdateChat \/ LeaveSettings \/ OpenDialog \/ DismissDialog
            \/ SelectModel \/ DeleteModel \/ Die
  BY <1>2, <1>10 DEF RunEffect, UpdateChat, LeaveSettings, OpenDialog, DismissDialog,
                     SelectModel, DeleteModel, Die, databases
<1> QED BY <1>3, <1>4, <1>5, <1>6, <1>7, <1>8, <1>9, <1>10 DEF Next, User

\* Where no model is imported a reply of a chat comes after the query it answers,
\* once, whichever jobs of which view models store it and in which order.
THEOREM RepliesCorrect == ASSUME Imported = {} PROVE Spec => []RepliesAnswer
<1>1. Init => ReplyInv
  <2> SUFFICES ASSUME Init PROVE ReplyInv
    OBVIOUS
  <2>1. \A q \in Queries : gen[q].at = "none"
    BY DEF Init, IdleGen
  <2>2. \A c \in Chats : rows[c] \in FirstRows
    BY DEF Init
  <2>3. RepliesAnswer /\ Unsent
    BY <2>2, FirstRowsAssumption DEF RepliesAnswer, Unsent, Unseen
  <2>4. EmptyChats
    BY DEF Init, EmptyChats
  <2> QED BY <2>1, <2>3, <2>4 DEF ReplyInv, JobChats, QueryStored, Waiting
<1>2. TypeInv /\ ShownInv /\ ReplyInv /\ [Next]_vars => ReplyInv'
  <2> SUFFICES ASSUME TypeOK, ShownInv, ReplyInv, [Next]_vars PROVE ReplyInv'
    BY DEF TypeInv
  <2>1. CASE UNCHANGED vars
    <3>1. JobsKept /\ NoWayBack /\ rows' = rows
      BY <2>1 DEF vars, databases, JobsKept, NoWayBack, Waiting
    <3> QED BY <3>1, RowsUnchanged
  <2> QED BY <2>1, RepliesKept
<1>3. ReplyInv => RepliesAnswer
  BY DEF ReplyInv
<1> QED BY <1>1, <1>2, <1>3, TypesAlways, ShownAlways, PTL DEF Spec

-----------------------------------------------------------------------------
(***************************************************************************)
(* A load that met no other gives the engine the chat once                 *)
(***************************************************************************)
Texts(chat) == [i \in 1..Len(chat) |-> TextOf(chat[i])]

LEMMA TranscriptIs ==
  ASSUME NEW c \in Chats
  PROVE  Transcript(c) = (IF c \in Prompted THEN <<SystemPrompt>> ELSE <<>>) \o Texts(rows[c])
  BY DEF Transcript, Texts

\* While the last load met no other, no two are running.
OneLoad == crossed = "no" => \A k, l \in Loads : Loading(k) /\ Loading(l) => k = l

LEMMA LaunchedAlone ==
  ASSUME TypeOK, NEW chat \in Chat, LaunchLoad(chat), crossed' = "no"
  PROVE  \E l \in Loads :
           /\ load'[l] = [at |-> "create", chat |-> chat.chat, model |-> chat.llm, todo |-> <<>>]
           /\ \A k \in Loads \ {l} : ~Loading(k)'
<1>1. PICK l \in Loads : load' = [load EXCEPT ![l] =
        [at |-> "create", chat |-> chat.chat, model |-> chat.llm, todo |-> <<>>]]
  BY DEF LaunchLoad, FreeLoads
<1>2. {k \in Loads : Loading(k)} = {}
  BY DEF LaunchLoad, Crossing
<1>3. \A k \in Loads \ {l} : load'[k] = load[k]
  BY <1>1 DEF TypeOK
<1>4. \A k \in Loads \ {l} : ~Loading(k)'
  BY <1>2, <1>3 DEF Loading
<1> QED BY <1>1, <1>4 DEF TypeOK

LEMMA LoadsEnd ==
  ASSUME TypeOK, NEW l \in Loads, LoadJob(l)
  PROVE  /\ Loading(l) /\ crossed' = crossed
         /\ \A k \in Loads : Loading(k)' => Loading(k)
         /\ \A k \in Loads \ {l} : load'[k] = load[k]
<1>1. Loading(l)
  BY DEF LoadJob, LoadCreate, LoadPrompt, LoadReplay, LoadFinish, Loading
<1>2. \A k \in Loads \ {l} : load'[k] = load[k]
  BY DEF LoadJob, LoadCreate, LoadPrompt, LoadReplay, LoadFinish, TypeOK
<1>3. crossed' = crossed
  BY DEF LoadJob, LoadCreate, LoadPrompt, LoadReplay, LoadFinish, LoadUnchanged
<1> QED BY <1>1, <1>2, <1>3 DEF Loading

LEMMA OneLoadKept == TypeInv /\ OneLoad /\ [Next]_vars => OneLoad'
<1> SUFFICES ASSUME TypeOK, OneLoad, [Next]_vars PROVE OneLoad'
  BY DEF TypeInv
<1>1. ASSUME load' = load, crossed' = crossed PROVE OneLoad'
  BY <1>1 DEF OneLoad, Loading
<1>2. ASSUME NEW chat \in Chat, LaunchLoad(chat) PROVE OneLoad'
  <2> SUFFICES ASSUME crossed' = "no" PROVE OneLoad'
    BY DEF OneLoad
  <2> QED BY <1>2, LaunchedAlone DEF OneLoad
<1>3. ASSUME LoadModel(curr) PROVE OneLoad'
  <2>1. CASE curr = NoChat
    BY <1>1, <1>3, <2>1 DEF LoadModel
  <2>2. CASE curr # NoChat
    <3>1. curr \in Chat
      BY <2>2 DEF TypeOK
    <3> QED BY <1>1, <1>2, <1>3, <2>2, <3>1 DEF LoadModel
  <2> QED BY <2>1, <2>2
<1>4. ASSUME NewViewModel PROVE OneLoad'
  BY <1>4 DEF NewViewModel, OneLoad, Loading, IdleLoad
<1>5. CASE SelectModel
  <2>1. PICK m \in modelRow : curr' = [curr EXCEPT !.llm = m] /\ LaunchLoad(curr')
    BY <1>5 DEF SelectModel, SetChat
  <2>2. curr' \in Chat
    BY <1>5, <2>1 DEF SelectModel, TypeOK, Chat
  <2> QED BY <1>2, <2>1, <2>2
<1>6. CASE Open \/ Recreate
  BY <1>4, <1>6 DEF Open, Recreate
<1>7. CASE RunEffect \/ UpdateChat \/ ImportLoad
  BY <1>3, <1>7 DEF RunEffect, UpdateChat, ImportLoad
<1>8. CASE \/ UNCHANGED vars \/ Die \/ Send \/ Stop \/ SwitchChat \/ DeleteChat
           \/ LeaveSettings \/ OpenDialog \/ DismissDialog \/ DeleteModel
  BY <1>1, <1>8 DEF vars, Die, Send, Stop, SwitchChat, DeleteChat, LeaveSettings,
                    OpenDialog, DismissDialog, DeleteModel
<1>9. CASE ImportStart \/ ImportAdd \/ ImportRead \/ ImportWrite \/ ImportPut
  BY <1>1, <1>9 DEF ImportStart, ImportAdd, ImportRead, ImportWrite, ImportPut
<1>10. ASSUME NEW q \in Queries, Generation(q) \/ GenLeft(q) PROVE OneLoad'
  BY <1>1, <1>10 DEF Generation, GenStart, GenStartCompletion, GenLoop, GenLoopEnds,
                     GenEmit, GenStop, GenCancel, GenSave, GenFinish, GenLeft, GenUnchanged
<1>11. ASSUME NEW l \in Loads, LoadJob(l) PROVE OneLoad'
  BY <1>11, LoadsEnd DEF OneLoad
<1> QED BY <1>5, <1>6, <1>7, <1>8, <1>9, <1>10, <1>11 DEF Next, User, Import

\* The chat on the screen has a model, its load met no other and is not due, no import
\* is about to change it and no query was sent.
Current ==
  /\ crossed = "no"
  /\ curr # NoChat /\ ~effect /\ import.at \in {"none", "copy"} /\ curr.llm \in modelRow
  /\ \A q \in Queries : gen[q].at = "none"

\* What the engine has of the chat, and what the load has still to give it.
Given(l) ==
  /\ load[l].at = "prompt" /\ Loaded => engine.model = curr.llm /\ engine.messages = <<>>
  /\ load[l].at = "replay" /\ Loaded =>
       /\ engine.model = curr.llm
       /\ engine.messages \o Texts(load[l].todo) = Transcript(curr.chat)
LoadOfCurrent(l) == load[l].chat = curr.chat /\ load[l].model = curr.llm /\ Given(l)

OnceInv ==
  Current =>
    /\ \A l \in Loads : Loading(l) => LoadOfCurrent(l)
    /\ Loaded /\ (\A l \in Loads : ~Loading(l)) =>
         engine.model = curr.llm /\ engine.messages = Transcript(curr.chat)

LEMMA OnceQuiet ==
  ASSUME OnceInv, Current' => Current, curr' = curr, load' = load, engine' = engine, rows' = rows
  PROVE  OnceInv'
  BY DEF OnceInv, LoadOfCurrent, Given, Loading, Loaded, Transcript

\* A load is launched for the chat on the screen.
LEMMA OnceLaunched ==
  ASSUME TypeOK, curr' \in Chat, LaunchLoad(curr')
  PROVE  OnceInv'
<1> SUFFICES ASSUME Current' PROVE OnceInv'
  BY DEF OnceInv
<1>1. PICK l \in Loads :
        /\ load'[l] = [at |-> "create", chat |-> curr'.chat, model |-> curr'.llm, todo |-> <<>>]
        /\ \A k \in Loads \ {l} : ~Loading(k)'
  BY LaunchedAlone DEF Current
<1>2. LoadOfCurrent(l)' /\ Loading(l)'
  BY <1>1 DEF LoadOfCurrent, Given, Loading
<1> QED BY <1>1, <1>2 DEF OnceInv

LEMMA OnceLoadModel ==
  ASSUME TypeOK, LoadModel(curr), curr' = curr, modelRow' = modelRow
  PROVE  OnceInv'
<1>1. CASE curr # NoChat /\ curr.llm \in modelRow
  BY <1>1, OnceLaunched DEF LoadModel, TypeOK
<1>2. CASE ~(curr # NoChat /\ curr.llm \in modelRow)
  BY <1>2 DEF OnceInv, Current
<1> QED BY <1>1, <1>2

\* The messages of an engine, when the next one to be given is added.
LEMMA NextGiven ==
  ASSUME NEW todo \in Seq(Row), todo # <<>>, NEW said \in Seq(Text)
  PROVE  Append(said, TextOf(Head(todo))) \o Texts(Tail(todo)) = said \o Texts(todo)
<1>1. Texts(todo) \in Seq(Text) /\ Texts(Tail(todo)) \in Seq(Text)
  BY TextTypes, HeadTailProperties DEF Texts
<1>2. /\ Len(todo) \in Nat \ {0} /\ Len(Tail(todo)) = Len(todo) - 1 /\ Head(todo) = todo[1]
      /\ \A i \in 1..Len(todo) - 1 : Tail(todo)[i] = todo[i + 1]
  BY HeadTailProperties, EmptySeq
<1>3. TextOf(Head(todo)) \in Text /\ Len(said) \in Nat
  BY TextTypes, HeadTailProperties
<1> DEFINE left == Append(said, TextOf(Head(todo))) \o Texts(Tail(todo))
           right == said \o Texts(todo)
<1>4. Len(Texts(todo)) = Len(todo) /\ Len(Texts(Tail(todo))) = Len(todo) - 1
  BY <1>2 DEF Texts
<1>5. left \in Seq(Text) /\ right \in Seq(Text) /\ Len(left) = Len(right)
  BY <1>1, <1>2, <1>3, <1>4
<1>6. ASSUME NEW i \in 1..Len(right) PROVE left[i] = right[i]
  BY <1>1, <1>2, <1>3, <1>4 DEF Texts
<1> QED BY <1>5, <1>6, SeqEqual

LEMMA OnceLoading ==
  ASSUME TypeOK, LoadsHaveChat, OneLoad, OnceInv, NEW l \in Loads, LoadJob(l)
  PROVE  OnceInv'
<1> SUFFICES ASSUME Current' PROVE OnceInv'
  BY DEF OnceInv
<1>1. curr' = curr /\ rows' = rows /\ LoadUnchanged
  BY DEF LoadJob, LoadCreate, LoadPrompt, LoadReplay, LoadFinish, LoadUnchanged, databases
<1>2. Current /\ Transcript(curr.chat)' = Transcript(curr.chat)
  BY <1>1 DEF Current, LoadUnchanged, databases, Transcript
<1>4. Loading(l)
  BY LoadsEnd
<1>3. \A k \in Loads : k # l => ~Loading(k)'
  BY <1>2, <1>4, LoadsEnd DEF OneLoad, Current
<1>5. LoadOfCurrent(l) /\ load[l] \in Job /\ curr.chat \in Chats
  BY <1>2, <1>4 DEF OnceInv, TypeOK, LoadOfCurrent, LoadsHaveChat
<1>6. engine.messages \in Seq(Text) /\ rows[curr.chat] \in Seq(Row)
  BY <1>5 DEF TypeOK, Engine
<1>7. CASE LoadCreate(l)
  <2>1. load'[l] = [load[l] EXCEPT !.at = "prompt"] /\ engine' \in {Null, Made(curr.llm)}
    BY <1>5, <1>7 DEF LoadCreate, Create, LoadOfCurrent, TypeOK
  <2>2. Loaded' => engine'.model = curr.llm /\ engine'.messages = <<>>
    BY <2>1 DEF Null, Made, Loaded
  <2>3. /\ load'[l].at = "prompt" /\ load'[l].chat = load[l].chat
        /\ load'[l].model = load[l].model
    BY <1>5, <2>1 DEF Job
  <2> QED BY <1>1, <1>3, <1>5, <2>2, <2>3 DEF OnceInv, LoadOfCurrent, Given, Loading
<1>8. CASE LoadPrompt(l)
  <2>1. load'[l] = [load[l] EXCEPT !.at = "replay", !.todo = rows[curr.chat]]
    BY <1>5, <1>8 DEF LoadPrompt, LoadOfCurrent, TypeOK
  <2>2. Loaded => engine.model = curr.llm /\ engine.messages = <<>>
    BY <1>5, <1>8 DEF LoadPrompt, LoadOfCurrent, Given
  <2> DEFINE prompt == IF curr.chat \in Prompted THEN <<SystemPrompt>> ELSE <<>>
  <2>3. Loaded' => engine'.model = curr.llm /\ engine'.messages = prompt
    <3>1. CASE curr.chat \in Prompted
      <4>1. AddMessage(SystemPrompt)
        BY <1>5, <1>8, <3>1 DEF LoadPrompt, LoadOfCurrent
      <4>2. Loaded' => Loaded /\ engine' = [engine EXCEPT !.messages = Append(@, SystemPrompt)]
        BY <4>1 DEF AddMessage, Call, Loaded
      <4>3. Append(<<>>, SystemPrompt) = <<SystemPrompt>>
        OBVIOUS
      <4> QED BY <2>2, <3>1, <4>2, <4>3 DEF TypeOK, Engine
    <3>2. CASE curr.chat \notin Prompted
      <4>1. engine' = engine
        BY <1>5, <1>8, <3>2 DEF LoadPrompt, LoadOfCurrent, native
      <4> QED BY <2>2, <3>2, <4>1 DEF Loaded
    <3> QED BY <3>1, <3>2
  <2>4. Transcript(curr.chat) = prompt \o Texts(rows[curr.chat])
    BY <1>5, TranscriptIs
  <2> HIDE DEF prompt
  <2>6. /\ load'[l].at = "replay" /\ load'[l].chat = load[l].chat
        /\ load'[l].model = load[l].model /\ load'[l].todo = rows[curr.chat]
    BY <1>5, <2>1 DEF Job
  <2> QED BY <1>1, <1>2, <1>3, <1>5, <2>3, <2>4, <2>6
          DEF OnceInv, LoadOfCurrent, Given, Loading
<1>9. CASE LoadReplay(l)
  <2> DEFINE todo == load[l].todo
             text == TextOf(Head(todo))
  <2>1. todo \in Seq(Row) /\ todo # <<>>
    BY <1>5, <1>9 DEF LoadReplay, Job
  <2>2. load'[l] = [load[l] EXCEPT !.todo = Tail(todo)] /\ load[l].at = "replay"
    BY <1>9 DEF LoadReplay, TypeOK
  <2>3. Loaded' => Loaded /\ engine' = [engine EXCEPT !.messages = Append(@, text)]
    BY <1>9 DEF LoadReplay, AddMessage, Call, Loaded
  <2>4. Append(engine.messages, text) \o Texts(Tail(todo)) = engine.messages \o Texts(todo)
    BY <1>6, <2>1, NextGiven
  <2>5. Loaded => engine.model = curr.llm /\ engine.messages \o Texts(todo) = Transcript(curr.chat)
    BY <1>5, <2>2 DEF LoadOfCurrent, Given
  <2> HIDE DEF text
  <2>6. Loaded' => /\ engine'.model = curr.llm
                   /\ engine'.messages \o Texts(Tail(todo)) = Transcript(curr.chat)
    BY <2>3, <2>4, <2>5 DEF TypeOK, Engine
  <2>7. /\ load'[l].at = "replay" /\ load'[l].chat = load[l].chat
        /\ load'[l].model = load[l].model /\ load'[l].todo = Tail(todo)
    BY <1>5, <2>2 DEF Job
  <2> QED BY <1>1, <1>2, <1>3, <1>5, <2>6, <2>7
          DEF OnceInv, LoadOfCurrent, Given, Loading
<1>10. CASE LoadFinish(l)
  <2>1. ~Loading(l)' /\ engine' = engine
    BY <1>10 DEF LoadFinish, Loading, IdleLoad, TypeOK, native
  <2>2. Loaded => /\ engine.model = curr.llm
                  /\ engine.messages \o Texts(<<>>) = Transcript(curr.chat)
    BY <1>5, <1>10 DEF LoadFinish, LoadOfCurrent, Given
  <2>3. Texts(<<>>) = <<>>
    BY DEF Texts
  <2>4. engine.messages \o <<>> = engine.messages
    BY <1>6, ConcatEmptySeq
  <2> QED BY <1>1, <1>2, <1>3, <2>1, <2>2, <2>3, <2>4 DEF OnceInv, Loaded
<1> QED BY <1>7, <1>8, <1>9, <1>10 DEF LoadJob

\* Where no query was sent a stop does not reach the engine.
LEMMA NothingToStop ==
  ASSUME TypeOK, StopGeneration, Current'
  PROVE  engine' = engine /\ (\A q \in Queries : gen[q].at = "none")
<1>1. ASSUME NEW q \in Queries PROVE gen[q].at = "none"
  <2>1. gen'[q].at = gen[q].at
    BY DEF StopGeneration, TypeOK, GenJob
  <2> QED BY <2>1 DEF Current
<1>2. responseGenerationJob # 0 => responseGenerationJob \in Queries
  BY Bounds DEF TypeOK, Queries
<1>3. ~(responseGenerationJob # 0 /\ Active(responseGenerationJob))
  BY <1>1, <1>2 DEF Active, Running
<1> QED BY <1>1, <1>3 DEF StopGeneration, native

LEMMA NoQueryRuns ==
  ASSUME TypeOK, NEW q \in Queries, Generation(q) \/ GenLeft(q)
  PROVE  ~Current'
<1>1. ASSUME NEW there, there # "none", Goto(q, there) PROVE ~Current'
  BY <1>1 DEF Goto, TypeOK, GenJob, Current
<1>2. ASSUME Ends(q) PROVE ~Current'
  BY <1>2 DEF Ends, Done, IdleGen, TypeOK, Current
<1>3. ASSUME GenLoop(q) PROVE ~Current'
  BY <1>3 DEF GenLoop, TypeOK, GenJob, Current
<1> QED BY <1>1, <1>2, <1>3 DEF Generation, GenStart, GenStartCompletion, GenLoopEnds,
          GenEmit, GenStop, GenCancel, GenSave, GenFinish, GenLeft

LEMMA OnceKept == TypeInv /\ OneLoad /\ OnceInv /\ [Next]_vars => OnceInv'
<1> SUFFICES ASSUME TypeOK, LoadsHaveChat, OneLoad, OnceInv, [Next]_vars, Current'
             PROVE  OnceInv'
  BY DEF TypeInv, LoadInv, OnceInv
<1>1. CASE UNCHANGED vars \/ Die \/ OpenDialog \/ DismissDialog \/ ImportStart
  <2>1. /\ curr' = curr /\ load' = load /\ engine' = engine /\ rows' = rows
        /\ effect' = effect /\ modelRow' = modelRow /\ gen' = gen
        /\ import.at = "none" \/ import' = import
        /\ crossed' = crossed
    BY <1>1 DEF vars, databases, screen, native, Die, OpenDialog, DismissDialog, ImportStart,
                ImportUnchanged
  <2> QED BY <2>1, OnceQuiet DEF Current
<1>2. CASE Open \/ Recreate \/ UpdateChat \/ LeaveSettings
  BY <1>2 DEF Open, Recreate, NewViewModel, UpdateChat, LeaveSettings, Current
<1>3. CASE RunEffect
  BY <1>3, OnceLoadModel DEF RunEffect, databases
<1>4. CASE Send
  BY <1>4 DEF Send, IdleGen, TypeOK, Current
<1>5. CASE Stop \/ SwitchChat
  <2>1. engine' = engine /\ (\A q \in Queries : gen[q].at = "none")
    BY <1>5, NothingToStop DEF Stop, SwitchChat
  <2>2. curr' = curr /\ effect' = effect
    BY <1>5 DEF Stop, SwitchChat, SetChat, Current, TypeOK
  <2>3. /\ load' = load /\ crossed' = crossed /\ rows' = rows
        /\ modelRow' = modelRow /\ import' = import
    BY <1>5 DEF Stop, SwitchChat, databases
  <2> QED BY <2>1, <2>2, <2>3, OnceQuiet DEF Current
<1>6. CASE DeleteChat
  BY <1>6 DEF DeleteChat, SetChat, Current
<1>7. CASE SelectModel
  <2>1. PICK m \in modelRow : curr' = [curr EXCEPT !.llm = m] /\ LaunchLoad(curr')
    BY <1>7 DEF SelectModel, SetChat
  <2>2. curr' \in Chat
    BY <1>7, <2>1 DEF SelectModel, TypeOK, Chat
  <2> QED BY <2>1, <2>2, OnceLaunched
<1>8. CASE DeleteModel
  <2>1. PICK m \in modelRow :
          /\ modelRow' = modelRow \ {m}
          /\ IF curr # NoChat /\ curr.llm = m
               THEN SetChat([curr EXCEPT !.llm = NoModel]) /\ Close
               ELSE UNCHANGED <<curr, effect, native>>
    BY <1>8 DEF DeleteModel
  <2>2. ~(curr # NoChat /\ curr.llm = m)
    <3> SUFFICES ASSUME curr # NoChat, curr.llm = m PROVE FALSE
      OBVIOUS
    <3>1. curr' = [curr EXCEPT !.llm = NoModel] /\ curr \in Chat
      BY <2>1 DEF SetChat, TypeOK
    <3>2. curr'.llm = NoModel
      BY <3>1 DEF Chat
    <3> QED BY <2>1, <3>2, SmollAIAssumption DEF Current, TypeOK
  <2>3. /\ curr' = curr /\ effect' = effect /\ engine' = engine
        /\ load' = load /\ rows' = rows /\ gen' = gen /\ import' = import
        /\ crossed' = crossed
    BY <1>8, <2>1, <2>2 DEF DeleteModel, native
  <2> QED BY <2>1, <2>3, OnceQuiet DEF Current
<1>9. CASE ImportAdd
  <2>1. import.at = "copy" /\ modelRow' = modelRow
    BY <1>9 DEF ImportAdd, Current, TypeOK, ImportJob
  <2>2. /\ curr' = curr /\ effect' = effect /\ engine' = engine
        /\ load' = load /\ rows' = rows /\ gen' = gen /\ crossed' = crossed
    BY <1>9 DEF ImportAdd, ImportUnchanged, native
  <2> QED BY <2>1, <2>2, OnceQuiet DEF Current
<1>10. CASE ImportRead \/ ImportWrite
  BY <1>10 DEF ImportRead, ImportWrite, Current, TypeOK, ImportJob
<1>11. CASE ImportPut
  BY <1>11 DEF ImportPut, Current, TypeOK, ImportJob
<1>12. CASE ImportLoad
  BY <1>12, OnceLoadModel DEF ImportLoad
<1>13. ASSUME NEW q \in Queries, Generation(q) \/ GenLeft(q) PROVE OnceInv'
  BY <1>13, NoQueryRuns
<1>14. ASSUME NEW l \in Loads, LoadJob(l) PROVE OnceInv'
  BY <1>14, OnceLoading
<1> QED BY <1>1, <1>2, <1>3, <1>4, <1>5, <1>6, <1>7, <1>8, <1>9, <1>10, <1>11, <1>12,
           <1>13, <1>14 DEF Next, User, Import

\* When nothing is due or running and the last load met no other, the engine has been
\* given the chat on the screen and its model once (ChatScreenViewModel.kt:202-233):
\* whatever was loaded, switched, edited, imported and deleted before, and however many
\* loads overlapped then.
THEOREM OnceCorrect == Spec => []LoadedOnce
<1>1. Init => OneLoad /\ OnceInv
  BY DEF Init, OneLoad, Loading, IdleLoad, OnceInv, Current
<1>2. TypeInv /\ OneLoad /\ [Next]_vars => OneLoad'
  BY OneLoadKept
<1>3. TypeInv /\ OneLoad /\ OnceInv /\ [Next]_vars => OnceInv'
  BY OnceKept
<1>4. OnceInv => LoadedOnce
  BY DEF OnceInv, LoadedOnce, Settled, Input, Current
<1> QED BY <1>1, <1>2, <1>3, <1>4, TypesAlways, PTL DEF Spec

=============================================================================

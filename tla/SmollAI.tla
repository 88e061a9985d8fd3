------------------------------ MODULE SmollAI ------------------------------
(***************************************************************************)
(* The Kotlin wrapper SmollAI.kt and the JNI bridge smollai.cpp: one       *)
(* nativePtr, read anew by every call, and the native engine it points to. *)
(* What happens inside an engine is the subject of LLMInference; here an   *)
(* engine is the list of messages it was given, whether its batch was ever *)
(* set and whether its response has a text.                                *)
(*                                                                         *)
(* The asserts of SmollAI.kt are not evaluated by the Android runtime; a   *)
(* call through a null pointer is answered by smollai.cpp.                 *)
(***************************************************************************)
EXTENDS Naturals, Sequences

CONSTANTS
  Models,     \* rows ModelsDB may hold
  NoModel     \* llmModelId = -1

ASSUME SmollAIAssumption == NoModel \notin Models

VARIABLES
  alive,      \* the process has not died
  engine      \* what nativePtr points to

\* A text given to an engine: the system prompt of a chat, a query, a reply.
Text == [role : {"system", "user", "assistant"}, of : Nat]

\* The null pointer, a new engine.
Null == [life |-> "null", model |-> NoModel, messages |-> <<>>,
         batch |-> FALSE, response |-> FALSE]
Made(m) == [life |-> "open", model |-> m, messages |-> <<>>,
            batch |-> FALSE, response |-> FALSE]
Freed == [Null EXCEPT !.life = "freed"]

Loaded == engine.life = "open"

\* A native method that turns the engine into e. The bridge ignores a null
\* pointer. A freed engine is undefined behaviour: the process dies, or nothing
\* shows.
Call(e) ==
  \/ engine.life = "null" /\ UNCHANGED <<alive, engine>>
  \/ Loaded /\ engine' = e /\ UNCHANGED alive
  \/ engine.life = "freed" /\ alive' \in BOOLEAN /\ UNCHANGED engine

\* mutant: an engine that is open is given the model and kept
CreateAgain(m, ok) ==
  /\ engine' = IF ~ok THEN Null
               ELSE IF Loaded THEN [engine EXCEPT !.model = m] ELSE Made(m)
  /\ UNCHANGED alive

\* create: the bridge returns 0 when load_model throws. Nobody frees the engine
\* nativePtr pointed to, and nobody reaches it again.
Create(m, ok) ==
  /\ engine' = IF ok THEN Made(m) ELSE Null
  /\ UNCHANGED alive

AddMessage(text) ==
  Call([engine EXCEPT !.messages = Append(@, text)])

StartCompletion(text) ==
  Call([engine EXCEPT !.messages = Append(@, text), !.batch = TRUE])

\* What completion_loop may return. A marker is one of its bracketed error texts,
\* which reach the screen like any other; it is all that a null pointer or an
\* engine that was never started has to give.
Pieces ==
  IF engine.life = "null" \/ (Loaded /\ ~engine.batch) THEN {"marker"}
  ELSE {"text", "filtered", "marker", "[EOG]"}

CompletionLoop(piece) ==
  Call([engine EXCEPT !.response = @ \/ piece = "text"])

StopCompletion(reply) ==
  Call([engine EXCEPT !.response = FALSE,
          !.messages = IF engine.response THEN Append(@, reply) ELSE @])

CancelCompletion == Call([engine EXCEPT !.response = FALSE])

\* close deletes the engine and leaves nativePtr where it is
Close == Call(Freed)
===========================================================================

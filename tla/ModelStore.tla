----------------------------- MODULE ModelStore ------------------------------
(***************************************************************************)
(* The models of the application: their files (filesDir), their rows       *)
(* (ModelsDB) and the selection (SmollAIPreferences), with the parties     *)
(* that change them:                                                       *)
(*   - the jobs on Dispatchers.IO that copy a document the user picked,    *)
(*     in ChatActivity and in ModernModelSetupActivity,                    *)
(*   - the main thread, which deletes models, and deletes the rows that    *)
(*     have no file when ModelsRepository is made,                         *)
(*   - the thread that writes preferences after apply(), and the system,   *)
(*     which may kill the process between any two steps.                   *)
(* Files and rows are on disk when the call that writes them returns.      *)
(***************************************************************************)
EXTENDS Integers, FiniteSets

CONSTANTS Names,       \* display names of the documents
          Jobs,        \* the imports that may run at a time
          MaxId        \* bound: rows ever added

ASSUME StoreAssumption == MaxId \in Nat \ {0} /\ IsFiniteSet(Jobs)

VARIABLES
  file,        \* by name: "none", "part" or "whole"
  rows,        \* ModelsDB
  lastId,
  mem, disk,   \* the preferences in memory and on disk
  main,        \* the process and its main thread
  job,
  odd          \* names with an import that met a row or an import of the name,
               \* or whose document gave no stream (not in the code)

vars == <<file, rows, lastId, mem, disk, main, job, odd>>

NoId == -1
NoPrefs == [selected |-> NoId, setup |-> FALSE]
NoName == "none"
Ended == [at |-> "none", name |-> NoName, kind |-> "none", linked |-> FALSE, alone |-> FALSE, id |-> NoId]
NoRow == [id |-> NoId, name |-> NoName]
Row == [id : 1 .. MaxId, name : Names]
Off == [at |-> "off", row |-> NoRow, todo |-> {}]

Init ==
  /\ file = [n \in Names |-> "none"] /\ rows = {} /\ lastId = 0
  /\ mem = NoPrefs /\ disk = NoPrefs
  /\ main = Off /\ job = [j \in Jobs |-> Ended] /\ odd = {}

Writing(j, n) == job[j].at = "copy" /\ job[j].name = n /\ job[j].linked

-----------------------------------------------------------------------------
(* The process                                                             *)

Start ==
  /\ main.at = "off" /\ main' = [main EXCEPT !.at = "up"] /\ mem' = disk
  /\ UNCHANGED <<file, rows, lastId, disk, job, odd>>

Kill ==
  /\ main.at # "off" /\ main' = Off /\ job' = [j \in Jobs |-> Ended]
  /\ UNCHANGED <<file, rows, lastId, mem, disk, odd>>

Flush ==
  /\ main.at # "off" /\ disk' = mem
  /\ UNCHANGED <<file, rows, lastId, mem, main, job, odd>>

-----------------------------------------------------------------------------
(* ModelsRepository, on the main thread                                    *)

\* init takes the list of the rows and looks at one after the other.
MakeRepository ==
  /\ main.at = "up" /\ main' = [main EXCEPT !.at = "purge", !.todo = rows]
  /\ UNCHANGED <<file, rows, lastId, mem, disk, job, odd>>

Purge ==
  /\ main.at = "purge"
  /\ \/ main.todo = {} /\ main' = [main EXCEPT !.at = "idle"]
     \/ \E r \in main.todo :
          main' = IF file[r.name] = "none"
                  THEN [at |-> "unlink", row |-> r, todo |-> main.todo \ {r}]
                  ELSE [main EXCEPT !.todo = @ \ {r}]
  /\ UNCHANGED <<file, rows, lastId, mem, disk, job, odd>>

Delete ==
  /\ main.at = "idle"
  /\ \E r \in rows : main' = [at |-> "unlink", row |-> r, todo |-> {}]
  /\ UNCHANGED <<file, rows, lastId, mem, disk, job, odd>>

\* A job that is writing the file goes on, into a file without a name.
Unlink(n) ==
  /\ file' = [file EXCEPT ![n] = "none"]
  /\ job' = [j \in Jobs |-> IF job[j].name = n THEN [job[j] EXCEPT !.linked = FALSE] ELSE job[j]]

\* File.delete() returns whether it could, and nobody looks.
UnlinkFile(n) ==
  \/ Unlink(n) /\ main' = [main EXCEPT !.at = "remove"]
  \/ UNCHANGED <<file, job>> /\ main' = [main EXCEPT !.at = "kept"]

\* mutant: the row goes first.
DeleteRowFirst ==
  \/ /\ main.at = "unlink" /\ main' = [main EXCEPT !.at = "remove"]
     /\ rows' = rows \ {main.row} /\ UNCHANGED <<file, job>>
  \/ /\ main.at = "remove" /\ main' = [main EXCEPT !.at = "purge", !.row = NoRow]
     /\ Unlink(main.row.name) /\ UNCHANGED rows

DeleteSteps ==
  \/ main.at = "unlink" /\ UnlinkFile(main.row.name) /\ UNCHANGED rows
  \/ /\ main.at \in {"remove", "kept"} /\ main' = [main EXCEPT !.at = "purge", !.row = NoRow]
     /\ rows' = rows \ {main.row} /\ UNCHANGED <<file, job>>

DeleteModel == DeleteSteps /\ UNCHANGED <<lastId, mem, disk, odd>>

-----------------------------------------------------------------------------
(* copyAndSetNewModel of the chat, copyModelFile of the setup              *)

\* The picker returns on the main thread.  After a restart the system may show
\* the setup alone, before anything has made the repository.  Bound: a row of the
\* model is left for the job.
Pick(j) ==
  /\ job[j] = Ended /\ main.at \in {"up", "idle"}
  /\ lastId + Cardinality({i \in Jobs : job[i] # Ended /\ job[i].id = NoId}) < MaxId
  /\ \E n \in Names, kind \in {"setup"} \cup (IF main.at = "idle" THEN {"chat"} ELSE {}) :
       /\ job' = [job EXCEPT ![j] = [Ended EXCEPT !.at = "open", !.name = n, !.kind = kind]]
       /\ odd' = odd \cup ({n} \cap ({r.name : r \in rows} \cup {job[i].name : i \in Jobs}))
  /\ UNCHANGED <<file, rows, lastId, mem, disk, main>>

\* FileOutputStream empties a file that is there already, also for the job that
\* is writing it.
Open(j) ==
  /\ job[j].at = "open"
  /\ LET n == job[j].name IN
     /\ file' = [file EXCEPT ![n] = "part"]
     /\ job' = [i \in Jobs |->
          CASE i = j -> [job[j] EXCEPT !.at = "copy", !.linked = TRUE,
                                       !.alone = ~\E k \in Jobs : Writing(k, n)]
            [] i # j /\ Writing(i, n) -> [job[i] EXCEPT !.alone = FALSE]
            [] OTHER -> job[i]]
  /\ UNCHANGED <<rows, lastId, mem, disk, main, odd>>

\* Two jobs that have written one file may have left a mixture.
Copied(j) ==
  /\ job[j].at = "copy" /\ job' = [job EXCEPT ![j].at = "add"]
  /\ \E content \in IF job[j].alone THEN {"whole"} ELSE {"part", "whole"} :
       file' = IF job[j].linked THEN [file EXCEPT ![job[j].name] = content] ELSE file
  /\ UNCHANGED <<rows, lastId, mem, disk, main, odd>>

\* openInputStream gave null: nothing is copied and the job goes on.
NoStream(j) ==
  /\ job[j].at = "copy" /\ job' = [job EXCEPT ![j].at = "add"]
  /\ odd' = odd \cup {job[j].name}
  /\ UNCHANGED <<file, rows, lastId, mem, disk, main>>

\* The document cannot be read, the disk is full: what was written stays.
Fail(j) ==
  /\ job[j].at \in {"open", "copy"} /\ job' = [job EXCEPT ![j] = Ended]
  /\ UNCHANGED <<file, rows, lastId, mem, disk, main, odd>>

\* mutant: the row is added when the copy begins.
AddEarly(j) ==
  /\ job[j].at = "copy" /\ lastId' = lastId + 1
  /\ rows' = rows \cup {[id |-> lastId + 1, name |-> job[j].name]}
  /\ job' = [job EXCEPT ![j].at = "select", ![j].id = lastId + 1]
  /\ UNCHANGED <<file, mem, disk, main, odd>>

\* mutant: the row is put with the identifier of an object that is not stored.
AddUnnumbered(j) ==
  /\ job[j].at = "add" /\ lastId' = lastId + 1
  /\ rows' = rows \cup {[id |-> 0, name |-> job[j].name]}
  /\ job' = [job EXCEPT ![j].at = "select", ![j].id = lastId + 1]
  /\ UNCHANGED <<file, mem, disk, main, odd>>

Add(j) ==
  /\ job[j].at = "add" /\ lastId' = lastId + 1
  /\ rows' = rows \cup {[id |-> lastId + 1, name |-> job[j].name]}
  /\ job' = [job EXCEPT ![j].at = "select", ![j].id = lastId + 1]
  /\ UNCHANGED <<file, mem, disk, main, odd>>

\* mutant: the setup does not select its model.
SelectForChat(j) ==
  /\ job[j].at = "select"
  /\ mem' = IF job[j].kind = "setup" THEN mem ELSE [mem EXCEPT !.selected = job[j].id]
  /\ job' = [job EXCEPT ![j] = IF @.kind = "setup" THEN [@ EXCEPT !.at = "complete"] ELSE Ended]
  /\ UNCHANGED <<file, rows, lastId, disk, main, odd>>

\* apply() changes the preferences in memory.
Select(j) ==
  /\ job[j].at = "select" /\ mem' = [mem EXCEPT !.selected = job[j].id]
  /\ job' = [job EXCEPT ![j] = IF @.kind = "setup" THEN [@ EXCEPT !.at = "complete"] ELSE Ended]
  /\ UNCHANGED <<file, rows, lastId, disk, main, odd>>

Complete(j) ==
  /\ job[j].at = "complete" /\ mem' = [mem EXCEPT !.setup = TRUE]
  /\ job' = [job EXCEPT ![j] = Ended]
  /\ UNCHANGED <<file, rows, lastId, disk, main, odd>>

Step(j) == Open(j) \/ Copied(j) \/ NoStream(j) \/ Fail(j) \/ Add(j) \/ Select(j) \/ Complete(j)

Next ==
  \/ Start \/ Kill \/ Flush \/ MakeRepository \/ Purge \/ Delete \/ DeleteModel
  \/ \E j \in Jobs : Pick(j) \/ Step(j)

Spec == Init /\ [][Next]_vars

-----------------------------------------------------------------------------
(* Properties                                                              *)

\* Types.
StoreTypeOK ==
  /\ file \in [Names -> {"none", "part", "whole"}]
  /\ rows \subseteq Row /\ lastId \in 0 .. MaxId
  /\ {mem, disk} \subseteq [selected : 1 .. MaxId \cup {NoId}, setup : BOOLEAN]
  /\ main \in [at : {"off", "up", "purge", "idle", "unlink", "remove", "kept"},
               row : Row \cup {NoRow}, todo : SUBSET Row]
  /\ job \in [Jobs -> [at : {"none", "open", "copy", "add", "select", "complete"},
                       name : Names \cup {NoName}, kind : {"none", "setup", "chat"},
                       linked : BOOLEAN, alone : BOOLEAN, id : 1 .. MaxId \cup {NoId}]]
  /\ odd \subseteq Names

\* A row may be without its file while the deletion is under way, and, when that
\* was cut short by the end of the process, until the next repository has looked.
Doomed(r) ==
  \/ main.at \in {"off", "up"}
  \/ r \in main.todo
  \/ main.at \in {"unlink", "remove", "kept"} /\ main.row = r

\* The list of models offers only models whose file is complete, whatever copy
\* failed or was killed before: the order of copyModelFile and copyAndSetNewModel
\* (copy, then addModel), of deleteModel, and the purge of the repository.
RowsAreWhole ==
  \A r \in rows : \/ r.name \in odd
                  \/ file[r.name] = "whole"
                  \/ file[r.name] = "none" /\ Doomed(r)

\* No deletion, killed or not, leaves a model file behind that could be deleted: a
\* row leaves ModelsDB only when its file is gone, or when File.delete() has just
\* failed, whose result deleteModel does not look at.
RowOutlivesFile ==
  [][\A r \in rows \ rows' :
       r.name \in odd \/ file[r.name] = "none" \/ (main.at = "kept" /\ main.row = r)]_vars

\* When the preferences on disk say that the first setup is done, a model is
\* selected there too, whenever the process was killed (copyModelFile).
SetupStored == disk.setup => disk.selected # NoId
=============================================================================

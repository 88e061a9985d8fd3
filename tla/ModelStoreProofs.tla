-------------------------- MODULE ModelStoreProofs --------------------------
(***************************************************************************)
(* Proofs about ModelStore for any sets of names and jobs, and any bound:  *)
(* the rows have whole files, a row outlives its file, and the setup is    *)
(* stored in order.  What makes it so is that an ordinary name (not odd)   *)
(* is the business of one job, or of its row, at a time.                   *)
(***************************************************************************)
EXTENDS ModelStore, FiniteSetTheorems, TLAPS

Id == Nat \ {0}
AnyRow == [id : Id, name : Names]
Prefs == [selected : Id \cup {NoId}, setup : BOOLEAN]
JobType == [at : {"none", "open", "copy", "add", "select", "complete"},
            name : Names \cup {NoName}, kind : {"none", "setup", "chat"},
            linked : BOOLEAN, alone : BOOLEAN, id : Id \cup {NoId}]
MainType == [at : {"off", "up", "purge", "idle", "unlink", "remove", "kept"},
             row : AnyRow \cup {NoRow}, todo : SUBSET AnyRow]

\* The types, without the bound; what a job has at its steps.
GoodJob(x) ==
  /\ x \in JobType
  /\ x.at # "none" => x.name \in Names
  /\ x.at \in {"select", "complete"} => x.id \in Id
JobTypes == job = [j \in Jobs |-> job[j]] /\ \A j \in Jobs : GoodJob(job[j])
Types ==
  /\ file \in [Names -> {"none", "part", "whole"}]
  /\ rows \subseteq AnyRow /\ lastId \in Nat /\ odd \subseteq Names
  /\ mem \in Prefs /\ disk \in Prefs
  /\ main \in MainType
  /\ JobTypes

\* j imports the ordinary name n.
Imports(j, n) == job[j].at # "none" /\ job[j].name = n /\ n \notin odd

OneJob == \A i, j \in Jobs : \A n \in Names : Imports(i, n) /\ Imports(j, n) => i = j
RowAfterJob ==
  \A r \in rows : \A j \in Jobs : Imports(j, r.name) => job[j].at \in {"select", "complete"}
OneRow == \A r, q \in rows : r.name = q.name /\ r.name \notin odd => r = q
OwnCopy ==
  \A j \in Jobs : \A n \in Names :
    Imports(j, n) /\ job[j].at = "copy" => job[j].linked /\ job[j].alone
WholeCopy ==
  \A j \in Jobs : \A n \in Names : Imports(j, n) /\ job[j].at = "add" => file[n] = "whole"

\* What the main thread is deleting, and will look at.
Deleting ==
  /\ main.todo \subseteq rows
  /\ main.at = "idle" => main.todo = {}
  /\ main.at \in {"unlink", "remove", "kept"} => main.row \in rows /\ main.row \notin main.todo
  /\ main.at = "remove" => main.row.name \in odd \/ file[main.row.name] = "none"

\* The preferences, and that only a living process has jobs.
Setup ==
  /\ mem.setup => mem.selected # NoId
  /\ disk.setup => disk.selected # NoId
  /\ \A j \in Jobs : job[j].at = "complete" => mem.selected # NoId
  /\ main.at = "off" => \A j \in Jobs : job[j].at = "none"

JobInv == OneJob /\ RowAfterJob /\ OneRow /\ OwnCopy /\ WholeCopy
StoreInv == Types /\ JobInv /\ Deleting /\ RowsAreWhole /\ Setup

-----------------------------------------------------------------------------
\* The types are kept by every step.
LEMMA TypesKept == Types /\ [Next]_vars => Types'
<1> SUFFICES ASSUME Types, [Next]_vars PROVE Types'
    OBVIOUS
<1>1. file' \in [Names -> {"none", "part", "whole"}]
  <2>1. ASSUME NEW j \in Jobs, Step(j) PROVE file' \in [Names -> {"none", "part", "whole"}]
    BY <2>1 DEF Step, Open, Copied, NoStream, Fail, Add, Select, Complete, Types
  <2>2. CASE DeleteModel
    BY <2>2 DEF DeleteModel, DeleteSteps, UnlinkFile, Unlink, Types
  <2> QED BY <2>1, <2>2 DEF Next, Start, Kill, Flush, MakeRepository, Purge, Delete, Pick, vars, Types
<1>2. rows' \subseteq AnyRow /\ lastId' \in Nat /\ odd' \subseteq Names
  <2>1. ASSUME NEW j \in Jobs, Add(j) PROVE rows' \subseteq AnyRow /\ lastId' \in Nat /\ odd' \subseteq Names
    <3>1. job[j].name \in Names
      BY <2>1 DEF Add, Types, JobTypes, GoodJob
    <3>2. [id |-> lastId + 1, name |-> job[j].name] \in AnyRow
      BY <3>1 DEF AnyRow, Id, Types
    <3> QED BY <2>1, <3>2 DEF Add, Types
  <2>2. ASSUME NEW j \in Jobs, Step(j), ~Add(j) PROVE rows' \subseteq AnyRow /\ lastId' \in Nat /\ odd' \subseteq Names
    <3>1. job[j].at = "copy" => job[j].name \in Names
      BY DEF Types, JobTypes, GoodJob
    <3> QED BY <2>2, <3>1 DEF Step, Open, Copied, NoStream, Fail, Select, Complete, Types
  <2>3. CASE DeleteModel
    BY <2>3 DEF DeleteModel, DeleteSteps, UnlinkFile, Unlink, Types
  <2>4. ASSUME NEW j \in Jobs, Pick(j) PROVE rows' \subseteq AnyRow /\ lastId' \in Nat /\ odd' \subseteq Names
    BY <2>4 DEF Pick, Types
  <2> QED BY <2>1, <2>2, <2>3, <2>4 DEF Next, Start, Kill, Flush, MakeRepository, Purge, Delete, vars, Types
<1>3. mem' \in Prefs /\ disk' \in Prefs
  <2>1. ASSUME NEW j \in Jobs, Select(j) PROVE mem' \in Prefs /\ disk' \in Prefs
    <3>1. job[j].id \in Id
      BY <2>1 DEF Select, Types, JobTypes, GoodJob
    <3> QED BY <2>1, <3>1 DEF Select, Types, Prefs
  <2>2. ASSUME NEW j \in Jobs, Complete(j) PROVE mem' \in Prefs /\ disk' \in Prefs
    BY <2>2 DEF Complete, Types, Prefs
  <2> QED BY <2>1, <2>2 DEF Next, Step, Start, Kill, Flush, MakeRepository, Purge, Delete, DeleteModel,
        Pick, Open, Copied, NoStream, Fail, Add, vars, Types
<1>4. main' \in MainType
  <2>1. CASE Start \/ MakeRepository
    BY <2>1 DEF Start, MakeRepository, MainType, Types
  <2>2. CASE Kill
    BY <2>2 DEF Kill, MainType, Off, Types
  <2>3. CASE Purge
    BY <2>3 DEF Purge, MainType, Types
  <2>4. CASE Delete
    BY <2>4 DEF Delete, MainType, Types
  <2>5. CASE DeleteModel
    BY <2>5 DEF DeleteModel, DeleteSteps, UnlinkFile, MainType, Types
  <2> QED BY <2>1, <2>2, <2>3, <2>4, <2>5 DEF Next, Step, Flush, Pick, Open, Copied,
        NoStream, Fail, Add, Select, Complete, vars, Types
<1>5. JobTypes'
  <2>0. job = [j \in Jobs |-> job[j]] /\ \A j \in Jobs : GoodJob(job[j])
    BY DEF Types, JobTypes
  <2>e. GoodJob(Ended)
    BY DEF GoodJob, JobType, Ended, NoId, NoName
  <2>1. CASE Kill
    BY <2>1, <2>e DEF Kill, JobTypes
  <2>2. CASE DeleteModel
    <3>1. ASSUME NEW i \in Jobs PROVE GoodJob([job[i] EXCEPT !.linked = FALSE])
      BY <2>0 DEF GoodJob, JobType
    <3> QED BY <2>2, <2>0, <3>1 DEF DeleteModel, DeleteSteps, UnlinkFile, Unlink, JobTypes
  <2>3. ASSUME NEW j \in Jobs, Pick(j) PROVE JobTypes'
    <3>1. ASSUME NEW n \in Names, NEW k \in {"setup", "chat"}
          PROVE GoodJob([Ended EXCEPT !.at = "open", !.name = n, !.kind = k])
      BY DEF GoodJob, JobType, Ended, NoId, NoName
    <3>2. PICK n \in Names, k \in {"setup", "chat"} :
            job' = [job EXCEPT ![j] = [Ended EXCEPT !.at = "open", !.name = n, !.kind = k]]
      BY <2>3 DEF Pick
    <3> QED BY <2>0, <3>1, <3>2 DEF JobTypes
  <2>4. ASSUME NEW j \in Jobs, Open(j) PROVE JobTypes'
    <3>1. ASSUME NEW b \in BOOLEAN
          PROVE GoodJob([job[j] EXCEPT !.at = "copy", !.linked = TRUE, !.alone = b])
      BY <2>0, <2>4 DEF GoodJob, JobType, Open
    <3>2. ASSUME NEW i \in Jobs PROVE GoodJob([job[i] EXCEPT !.alone = FALSE])
      BY <2>0 DEF GoodJob, JobType
    <3> QED BY <2>4, <2>0, <3>1, <3>2 DEF Open, JobTypes
  <2>5. ASSUME NEW j \in Jobs, Copied(j) \/ NoStream(j) PROVE JobTypes'
    <3>1. GoodJob([job[j] EXCEPT !.at = "add"])
      BY <2>0, <2>5 DEF GoodJob, JobType, Copied, NoStream
    <3> QED BY <2>5, <2>0, <3>1 DEF Copied, NoStream, JobTypes
  <2>6. ASSUME NEW j \in Jobs, Fail(j) \/ Complete(j) PROVE JobTypes'
    BY <2>6, <2>0, <2>e DEF Fail, Complete, JobTypes
  <2>7. ASSUME NEW j \in Jobs, Add(j) PROVE JobTypes'
    <3>1. GoodJob([job[j] EXCEPT !.at = "select", !.id = lastId + 1])
      BY <2>0, <2>7 DEF GoodJob, JobType, Add, Types, Id
    <3> QED BY <2>7, <2>0, <3>1 DEF Add, JobTypes
  <2>8. ASSUME NEW j \in Jobs, Select(j) PROVE JobTypes'
    <3>1. GoodJob([job[j] EXCEPT !.at = "complete"])
      BY <2>0, <2>8 DEF GoodJob, JobType, Select
    <3> QED BY <2>8, <2>0, <2>e, <3>1 DEF Select, JobTypes
  <2> QED BY <2>1, <2>2, <2>3, <2>4, <2>5, <2>6, <2>7, <2>8, <2>0
        DEF Next, Step, Start, Flush, MakeRepository, Purge, Delete, vars, JobTypes
<1> QED BY <1>1, <1>2, <1>3, <1>4, <1>5 DEF Types

-----------------------------------------------------------------------------
\* Steps that leave the jobs, the files and the rows alone.
LEMMA QuietSteps ==
  ASSUME StoreInv, UNCHANGED <<file, rows, job, odd>>,
         Start \/ Flush \/ MakeRepository \/ Purge \/ Delete \/ UNCHANGED vars
  PROVE  JobInv' /\ Deleting' /\ RowsAreWhole' /\ Setup'
<1>1. JobInv'
  BY DEF StoreInv, JobInv, OneJob, RowAfterJob, OneRow, OwnCopy, WholeCopy, Imports
<1>m. main \in MainType /\ main.todo \subseteq rows
  BY DEF StoreInv, Types, Deleting
<1>2. CASE Start
  BY <1>1, <1>2, <1>m DEF Start, StoreInv, Deleting, RowsAreWhole, Doomed, Setup, MainType
<1>3. CASE Flush
  BY <1>1, <1>3 DEF Flush, StoreInv, Deleting, RowsAreWhole, Doomed, Setup
<1>4. CASE MakeRepository
  BY <1>1, <1>4, <1>m DEF MakeRepository, StoreInv, Deleting, RowsAreWhole, Doomed, Setup, MainType
<1>5. CASE Purge
  <2>1. CASE main.todo = {} /\ main' = [main EXCEPT !.at = "idle"]
    BY <1>1, <1>5, <2>1, <1>m DEF Purge, StoreInv, Deleting, RowsAreWhole, Doomed, Setup, MainType
  <2>2. ASSUME NEW r \in main.todo, file[r.name] = "none",
               main' = [at |-> "unlink", row |-> r, todo |-> main.todo \ {r}]
        PROVE  Deleting' /\ RowsAreWhole' /\ Setup'
    BY <1>5, <2>2, <1>m DEF Purge, StoreInv, Deleting, RowsAreWhole, Doomed, Setup, MainType
  <2>3. ASSUME NEW r \in main.todo, file[r.name] # "none",
               main' = [main EXCEPT !.todo = @ \ {r}]
        PROVE  Deleting' /\ RowsAreWhole' /\ Setup'
    BY <1>5, <2>3, <1>m DEF Purge, StoreInv, Deleting, RowsAreWhole, Doomed, Setup, MainType
  <2> QED BY <1>1, <1>5, <2>1, <2>2, <2>3 DEF Purge
<1>6. CASE Delete
  BY <1>1, <1>6, <1>m DEF Delete, StoreInv, Deleting, RowsAreWhole, Doomed, Setup, MainType
<1>7. CASE UNCHANGED vars
  BY <1>1, <1>7 DEF vars, StoreInv, Deleting, RowsAreWhole, Doomed, Setup
<1> QED BY <1>2, <1>3, <1>4, <1>5, <1>6, <1>7, <1>1

\* The end of the process: no job is left, and every row may be without its file.
LEMMA KillStep ==
  ASSUME StoreInv, Kill PROVE JobInv' /\ Deleting' /\ RowsAreWhole' /\ Setup'
<1>1. \A j \in Jobs : job'[j].at = "none"
  BY DEF Kill, Ended
<1>2. JobInv'
  BY <1>1 DEF Kill, StoreInv, JobInv, OneJob, RowAfterJob, OneRow, OwnCopy, WholeCopy, Imports
<1>3. Deleting'
  BY DEF Kill, Off, Deleting
<1>4. RowsAreWhole'
  BY DEF Kill, Off, RowsAreWhole, Doomed, StoreInv
<1>5. Setup'
  BY <1>1 DEF Kill, StoreInv, Setup
<1> QED BY <1>2, <1>3, <1>4, <1>5

\* A file is unlinked whose row is there: no job is copying under an ordinary name.
LEMMA DeleteStep ==
  ASSUME StoreInv, DeleteModel PROVE JobInv' /\ Deleting' /\ RowsAreWhole' /\ Setup'
<1> USE DEF StoreInv
<1>m. main \in MainType /\ main.row \in rows /\ main.row \notin main.todo /\ main.todo \subseteq rows
  BY DEF DeleteModel, DeleteSteps, Deleting, Types
<1>n. main.row.name \in Names
  BY <1>m DEF Types, AnyRow
<1>1. CASE main.at = "unlink" /\ Unlink(main.row.name) /\ main' = [main EXCEPT !.at = "remove"]
  <2>1. /\ main' = [main EXCEPT !.at = "remove"] /\ rows' = rows /\ odd' = odd
        /\ file' = [file EXCEPT ![main.row.name] = "none"]
        /\ mem' = mem /\ disk' = disk
    BY <1>1 DEF DeleteModel, DeleteSteps, UnlinkFile, Unlink
  <2>2. \A j \in Jobs : job'[j].at = job[j].at /\ job'[j].name = job[j].name
    <3>1. \A j \in Jobs : job[j] \in JobType
      BY DEF Types, JobTypes, GoodJob
    <3> QED BY <1>1, <3>1 DEF DeleteModel, DeleteSteps, UnlinkFile, Unlink, JobType
  <2>3. \A j \in Jobs : job[j].name # main.row.name => job'[j] = job[j]
    BY <1>1 DEF DeleteModel, DeleteSteps, UnlinkFile, Unlink
  <2>4. \A j \in Jobs : Imports(j, main.row.name) => job[j].at \in {"select", "complete"}
    BY <1>m DEF JobInv, RowAfterJob
  <2>5. JobInv'
    <3>1. OneJob' /\ RowAfterJob' /\ OneRow'
      BY <2>1, <2>2 DEF JobInv, OneJob, RowAfterJob, OneRow, Imports
    <3>2. OwnCopy'
      BY <2>1, <2>2, <2>3, <2>4 DEF JobInv, OwnCopy, Imports
    <3>3. WholeCopy'
      BY <2>1, <2>2, <2>3, <2>4 DEF JobInv, WholeCopy, Imports, Types
    <3> QED BY <3>1, <3>2, <3>3 DEF JobInv
  <2>6. Deleting'
    BY <2>1, <1>m, <1>n DEF Deleting, MainType, Types
  <2>7. RowsAreWhole'
    <3>1. \A r \in rows : r.name = main.row.name /\ r.name \notin odd => r = main.row
      BY <1>m DEF JobInv, OneRow
    <3>2. \A r \in rows : Doomed(r) => Doomed(r)'
      BY <1>1, <2>1, <1>m DEF Doomed, MainType
    <3>3. Doomed(main.row)'
      BY <2>1, <1>m DEF Doomed, MainType
    <3>4. \A r \in rows : r.name \in Names
      BY DEF Types, AnyRow
    <3> QED BY <2>1, <3>1, <3>2, <3>3, <3>4, <1>n DEF RowsAreWhole, Types
  <2>8. Setup'
    BY <2>1, <2>2, <1>1, <1>m DEF Setup, MainType
  <2> QED BY <2>5, <2>6, <2>7, <2>8
<1>2. CASE main.at \in {"remove", "kept"}
  <2>1. /\ main' = [main EXCEPT !.at = "purge", !.row = NoRow] /\ rows' = rows \ {main.row}
        /\ UNCHANGED <<file, job, odd, mem, disk>>
    BY <1>2 DEF DeleteModel, DeleteSteps
  <2>2. JobInv'
    BY <2>1 DEF JobInv, OneJob, RowAfterJob, OneRow, OwnCopy, WholeCopy, Imports
  <2>3. Deleting'
    BY <2>1, <1>m DEF Deleting, MainType
  <2>4. RowsAreWhole'
    BY <2>1, <1>m, <1>2 DEF RowsAreWhole, Doomed, MainType
  <2>5. Setup'
    BY <2>1, <1>m DEF Setup, MainType
  <2> QED BY <2>2, <2>3, <2>4, <2>5
<1>3. CASE main.at = "unlink" /\ UNCHANGED <<file, job>> /\ main' = [main EXCEPT !.at = "kept"]
  <2>1. UNCHANGED <<rows, file, job, odd, mem, disk>>
    BY <1>3 DEF DeleteModel, DeleteSteps
  <2>2. JobInv'
    BY <2>1 DEF JobInv, OneJob, RowAfterJob, OneRow, OwnCopy, WholeCopy, Imports
  <2>3. Deleting'
    BY <2>1, <1>3, <1>m DEF Deleting, MainType
  <2>4. RowsAreWhole'
    BY <2>1, <1>m, <1>3 DEF RowsAreWhole, Doomed, MainType
  <2>5. Setup'
    BY <2>1, <1>3, <1>m DEF Setup, MainType
  <2> QED BY <2>2, <2>3, <2>4, <2>5
<1> QED BY <1>1, <1>2, <1>3 DEF DeleteModel, DeleteSteps, UnlinkFile

\* A new import makes its name odd, unless nobody has to do with that name.
LEMMA PickStep ==
  ASSUME StoreInv, NEW j \in Jobs, Pick(j)
  PROVE  JobInv' /\ Deleting' /\ RowsAreWhole' /\ Setup'
<1> USE DEF StoreInv
<1>1. PICK n \in Names, k \in {"setup", "chat"} :
        /\ job' = [job EXCEPT ![j] = [Ended EXCEPT !.at = "open", !.name = n, !.kind = k]]
        /\ odd' = odd \cup ({n} \cap ({r.name : r \in rows} \cup {job[i].name : i \in Jobs}))
  BY DEF Pick
<1>2. main.at \in {"up", "idle"} /\ UNCHANGED <<file, rows, lastId, mem, disk, main>>
  BY DEF Pick
<1>3. job'[j].at = "open" /\ job'[j].name = n /\ \A i \in Jobs : i # j => job'[i] = job[i]
  BY <1>1 DEF Types, JobTypes, Ended
<1>4. /\ odd \subseteq odd'
      /\ n \notin odd' => (\A r \in rows : r.name # n) /\ \A i \in Jobs : job[i].name # n
  BY <1>1
<1>5. JobInv'
  <2>1. OneJob'
    BY <1>3, <1>4 DEF JobInv, OneJob, Imports
  <2>2. RowAfterJob' /\ OneRow'
    BY <1>2, <1>3, <1>4 DEF JobInv, RowAfterJob, OneRow, Imports
  <2>3. OwnCopy' /\ WholeCopy'
    BY <1>2, <1>3, <1>4 DEF JobInv, OwnCopy, WholeCopy, Imports
  <2> QED BY <2>1, <2>2, <2>3 DEF JobInv
<1>6. Deleting' /\ RowsAreWhole'
  BY <1>2, <1>4 DEF Deleting, RowsAreWhole, Doomed
<1>7. Setup'
  BY <1>2, <1>3 DEF Setup
<1> QED BY <1>5, <1>6, <1>7

\* What Open, Copied and NoStream have in common: they go on with an ordinary
\* name that has no row yet, and touch the file of no other name.
FileStep(j) ==
  /\ j \in Jobs /\ job[j].at \in {"open", "copy"} /\ job'[j].at \in {"copy", "add"}
  /\ \A i \in Jobs : job'[i].name = job[i].name /\ (i # j => job'[i].at = job[i].at)
  /\ odd \subseteq odd' /\ UNCHANGED <<rows, mem, disk, main>>
  /\ \A n \in Names : n # job[j].name => file'[n] = file[n]

LEMMA FileSteps ==
  ASSUME StoreInv, NEW j \in Jobs, FileStep(j)
  PROVE  OneJob' /\ RowAfterJob' /\ OneRow' /\ Deleting' /\ RowsAreWhole' /\ Setup'
<1> USE DEF StoreInv
<1>1. OneJob' /\ RowAfterJob' /\ OneRow'
  BY DEF FileStep, JobInv, OneJob, RowAfterJob, OneRow, Imports
<1>2. \A r \in rows : r.name \in Names /\ (r.name \in odd' \/ r.name # job[j].name)
  BY DEF FileStep, JobInv, RowAfterJob, Imports, Types, AnyRow
<1>3. \A r \in rows : r.name \in odd' \/ file'[r.name] = file[r.name]
  BY <1>2 DEF FileStep
<1>4. Deleting'
  BY <1>3 DEF FileStep, Deleting
<1>5. RowsAreWhole'
  BY <1>3 DEF FileStep, RowsAreWhole, Doomed
<1>6. Setup'
  BY DEF FileStep, Setup
<1> QED BY <1>1, <1>4, <1>5, <1>6

LEMMA OpenStep ==
  ASSUME StoreInv, NEW j \in Jobs, Open(j)
  PROVE  JobInv' /\ Deleting' /\ RowsAreWhole' /\ Setup'
<1> USE DEF StoreInv
<1>1. \A i \in Jobs : job[i] \in JobType
  BY DEF Types, JobTypes, GoodJob
<1>2. /\ job[j].at = "open" /\ job[j].name \in Names
      /\ odd' = odd /\ file' = [file EXCEPT ![job[j].name] = "part"]
  BY DEF Open, Types, JobTypes, GoodJob
<1>3. /\ job'[j].at = "copy" /\ job'[j].name = job[j].name /\ job'[j].linked
      /\ job'[j].alone = ~\E k \in Jobs : Writing(k, job[j].name)
  BY <1>1 DEF Open, JobType
<1>4. \A i \in Jobs : i # j => /\ job'[i].at = job[i].at /\ job'[i].name = job[i].name
                               /\ job'[i].linked = job[i].linked
  BY <1>1 DEF Open, JobType
<1>5. \A i \in Jobs : i # j /\ ~Writing(i, job[j].name) => job'[i] = job[i]
  BY DEF Open
<1>6. FileStep(j)
  BY <1>2, <1>3, <1>4 DEF FileStep, Open, Types
<1>7. \A i \in Jobs : Writing(i, job[j].name) => i = j \/ job[j].name \in odd
  BY <1>2 DEF Writing, JobInv, OneJob, Imports
<1>8. OwnCopy'
  <2> SUFFICES ASSUME NEW i \in Jobs, NEW n \in Names, Imports(i, n)', job'[i].at = "copy"
               PROVE  job'[i].linked /\ job'[i].alone
    BY DEF OwnCopy
  <2>1. CASE i = j
    <3>1. n = job[j].name /\ n \notin odd
      BY <2>1, <1>2, <1>3 DEF Imports
    <3>2. ~\E k \in Jobs : Writing(k, job[j].name)
      BY <3>1, <1>2, <1>7 DEF Writing
    <3> QED BY <2>1, <3>2, <1>3
  <2>2. CASE i # j
    <3>1. Imports(i, n) /\ job[i].at = "copy"
      BY <2>2, <1>2, <1>4 DEF Imports
    <3>2. ~Writing(i, job[j].name)
      BY <2>2, <3>1, <1>7 DEF Writing, Imports
    <3> QED BY <2>2, <3>1, <3>2, <1>5 DEF JobInv, OwnCopy
  <2> QED BY <2>1, <2>2
<1>9. WholeCopy'
  <2>1. \A i \in Jobs : Imports(i, job[j].name) => i = j
    BY <1>2 DEF JobInv, OneJob, Imports
  <2> QED BY <1>2, <1>3, <1>4, <2>1 DEF JobInv, WholeCopy, Imports, Types
<1> QED BY <1>6, <1>8, <1>9, FileSteps DEF JobInv

LEMMA CopiedStep ==
  ASSUME StoreInv, NEW j \in Jobs, Copied(j) \/ NoStream(j)
  PROVE  JobInv' /\ Deleting' /\ RowsAreWhole' /\ Setup'
<1> USE DEF StoreInv
<1>1. \A i \in Jobs : job[i] \in JobType
  BY DEF Types, JobTypes, GoodJob
<1>2. job[j].at = "copy" /\ job[j].name \in Names /\ odd \subseteq odd'
  BY DEF Copied, NoStream, Types, JobTypes, GoodJob
<1>3. /\ job'[j].at = "add" /\ job'[j].name = job[j].name
      /\ \A i \in Jobs : i # j => job'[i] = job[i]
  <2>1. job' = [job EXCEPT ![j].at = "add"]
    BY DEF Copied, NoStream
  <2> QED BY <1>1, <2>1 DEF JobType, Types, JobTypes
<1>4. \A n \in Names : n # job[j].name => file'[n] = file[n]
  <2>1. CASE Copied(j)
    <3>1. file' = file \/ \E c \in {"part", "whole"} : file' = [file EXCEPT ![job[j].name] = c]
      BY <2>1 DEF Copied
    <3> QED BY <3>1, <1>2 DEF Types
  <2>2. CASE NoStream(j)
    BY <2>2 DEF NoStream
  <2> QED BY <2>1, <2>2
<1>5. FileStep(j)
  BY <1>2, <1>3, <1>4 DEF FileStep, Copied, NoStream
<1>6. OwnCopy'
  BY <1>2, <1>3 DEF JobInv, OwnCopy, Imports
<1>7. job[j].name \notin odd' => file'[job[j].name] = "whole"
  <2>1. ASSUME Copied(j), job[j].name \notin odd PROVE file'[job[j].name] = "whole"
    <3>1. job[j].linked /\ job[j].alone
      BY <1>2, <2>1 DEF JobInv, OwnCopy, Imports
    <3> QED BY <1>2, <2>1, <3>1 DEF Copied, Types
  <2> QED BY <2>1, <1>2 DEF NoStream
<1>8. WholeCopy'
  <2>1. \A i \in Jobs : Imports(i, job[j].name) => i = j
    BY <1>2 DEF JobInv, OneJob, Imports
  <2> QED BY <1>2, <1>3, <1>4, <1>7, <2>1 DEF JobInv, WholeCopy, Imports
<1> QED BY <1>5, <1>6, <1>8, FileSteps DEF JobInv

\* The row of a name is added when its file is whole.
LEMMA AddStep ==
  ASSUME StoreInv, NEW j \in Jobs, Add(j)
  PROVE  JobInv' /\ Deleting' /\ RowsAreWhole' /\ Setup'
<1> USE DEF StoreInv
<1> DEFINE new == [id |-> lastId + 1, name |-> job[j].name]
<1>1. /\ job[j].at = "add" /\ job[j].name \in Names /\ rows' = rows \cup {new}
      /\ UNCHANGED <<file, mem, disk, main, odd>>
  BY DEF Add, Types, JobTypes, GoodJob
<1>2. /\ job'[j].at = "select" /\ job'[j].name = job[j].name
      /\ \A i \in Jobs : i # j => job'[i] = job[i]
  BY DEF Add, JobType, Types, JobTypes, GoodJob
<1>3. \A i \in Jobs : Imports(i, job[j].name) => i = j
  BY <1>1 DEF JobInv, OneJob, Imports
<1>4. \A r \in rows : r.name = job[j].name => r.name \in odd
  BY <1>1 DEF JobInv, RowAfterJob, Imports
<1>5. new.name = job[j].name /\ (new.name \in odd \/ file[new.name] = "whole")
  BY <1>1 DEF JobInv, WholeCopy, Imports
<1> HIDE DEF new
<1>6. JobInv'
  <2>1. OneJob' /\ OwnCopy' /\ WholeCopy'
    BY <1>1, <1>2 DEF JobInv, OneJob, OwnCopy, WholeCopy, Imports
  <2>2. RowAfterJob'
    BY <1>1, <1>2, <1>3, <1>5 DEF JobInv, RowAfterJob, Imports
  <2>3. OneRow'
    BY <1>1, <1>4, <1>5 DEF JobInv, OneRow
  <2> QED BY <2>1, <2>2, <2>3 DEF JobInv
<1>7. Deleting'
  BY <1>1 DEF Deleting
<1>8. RowsAreWhole'
  BY <1>1, <1>5 DEF RowsAreWhole, Doomed
<1>9. Setup'
  BY <1>1, <1>2 DEF Setup
<1> QED BY <1>6, <1>7, <1>8, <1>9

LEMMA EndSteps ==
  ASSUME StoreInv, NEW j \in Jobs, Fail(j) \/ Select(j) \/ Complete(j)
  PROVE  JobInv' /\ Deleting' /\ RowsAreWhole' /\ Setup'
<1> USE DEF StoreInv
<1>1. UNCHANGED <<file, rows, main, odd>>
  BY DEF Fail, Select, Complete
<1>2. \A i \in Jobs : i # j => job'[i] = job[i]
  BY DEF Fail, Select, Complete, Types, JobTypes
<1>3. \/ job'[j] = Ended
      \/ job[j].at = "select" /\ job'[j].at = "complete" /\ job'[j].name = job[j].name
  BY DEF Fail, Select, Complete, Types, JobTypes, GoodJob, JobType
<1>4. JobInv'
  BY <1>1, <1>2, <1>3 DEF JobInv, OneJob, RowAfterJob, OneRow, OwnCopy, WholeCopy, Imports, Ended
<1>5. Deleting' /\ RowsAreWhole'
  BY <1>1 DEF Deleting, RowsAreWhole, Doomed
<1>6. Setup'
  <2>1. CASE Fail(j)
    BY <1>2, <2>1, <1>1 DEF Setup, Fail, Types, JobTypes, Ended
  <2>2. CASE Select(j)
    <3>1. job[j].id # NoId /\ mem' = [mem EXCEPT !.selected = job[j].id] /\ disk' = disk
      BY <2>2 DEF Select, Types, JobTypes, GoodJob, Id, NoId
    <3>2. mem'.selected # NoId
      BY <3>1 DEF Types, Prefs
    <3> QED BY <1>1, <1>2, <2>2, <3>1, <3>2 DEF Setup, Select
  <2>3. CASE Complete(j)
    <3>1. mem.selected # NoId /\ mem'.selected = mem.selected /\ disk' = disk
      BY <2>3 DEF Setup, Complete, Types, Prefs
    <3> QED BY <1>1, <1>2, <2>3, <3>1 DEF Setup, Complete
  <2> QED BY <2>1, <2>2, <2>3
<1> QED BY <1>4, <1>5, <1>6

-----------------------------------------------------------------------------
\* StoreInv is inductive.
LEMMA StoreInvInit == Init => StoreInv
<1> SUFFICES ASSUME Init PROVE StoreInv
    OBVIOUS
<1>1. Types
  BY DEF Init, Types, JobTypes, GoodJob, JobType, Ended, MainType, Off, Prefs, NoPrefs, NoId, NoName
<1>2. JobInv
  BY DEF Init, JobInv, OneJob, RowAfterJob, OneRow, OwnCopy, WholeCopy, Imports, Ended
<1>3. Deleting /\ RowsAreWhole /\ Setup
  BY DEF Init, Deleting, RowsAreWhole, Setup, Off, NoPrefs, Ended
<1> QED BY <1>1, <1>2, <1>3 DEF StoreInv

LEMMA StoreInvNext == StoreInv /\ [Next]_vars => StoreInv'
<1> SUFFICES ASSUME StoreInv, [Next]_vars PROVE JobInv' /\ Deleting' /\ RowsAreWhole' /\ Setup'
  BY TypesKept DEF StoreInv
<1>1. CASE Start \/ Flush \/ MakeRepository \/ Purge \/ Delete \/ UNCHANGED vars
  <2>1. UNCHANGED <<file, rows, job, odd>>
    BY <1>1 DEF Start, Flush, MakeRepository, Purge, Delete, vars
  <2> QED BY <1>1, <2>1, QuietSteps
<1>2. CASE Kill
  BY <1>2, KillStep
<1>3. CASE DeleteModel
  BY <1>3, DeleteStep
<1>4. ASSUME NEW j \in Jobs, Pick(j) \/ Step(j)
      PROVE  JobInv' /\ Deleting' /\ RowsAreWhole' /\ Setup'
  BY <1>4, PickStep, OpenStep, CopiedStep, AddStep, EndSteps DEF Step
<1> QED BY <1>1, <1>2, <1>3, <1>4 DEF Next

THEOREM StoreInvariant == Spec => []StoreInv
<1> QED BY StoreInvInit, StoreInvNext, PTL DEF Spec

\* The list of models offers whole files only, for any number of imports.
THEOREM RowsAlwaysWhole == Spec => []RowsAreWhole
<1>1. StoreInv => RowsAreWhole
  BY DEF StoreInv
<1> QED BY <1>1, StoreInvariant, PTL

\* A setup that is recorded on disk has its model selected there.
THEOREM SetupAlwaysStored == Spec => []SetupStored
<1>1. StoreInv => SetupStored
  BY DEF StoreInv, Setup, SetupStored
<1> QED BY <1>1, StoreInvariant, PTL

\* A row leaves the database after its file has left the disk, or has just
\* refused to: only deleteModel takes a row out, and File.delete() came before.
THEOREM RowsOutliveFiles == Spec => RowOutlivesFile
<1> DEFINE Gone(r) ==
      r.name \in odd \/ file[r.name] = "none" \/ (main.at = "kept" /\ main.row = r)
<1>1. StoreInv /\ [Next]_vars => [\A r \in rows \ rows' : Gone(r)]_vars
  <2> SUFFICES ASSUME StoreInv, Next, NEW r \in rows \ rows'
               PROVE  Gone(r)
    OBVIOUS
  <2>1. CASE DeleteModel
    BY <2>1 DEF DeleteModel, DeleteSteps, StoreInv, Deleting
  <2>2. rows \subseteq rows' \/ DeleteModel
    BY DEF Next, Step, Start, Kill, Flush, MakeRepository, Purge, Delete, Pick, Open, Copied,
           NoStream, Fail, Add, Select, Complete
  <2> QED BY <2>1, <2>2
<1> QED BY <1>1, StoreInvariant, PTL DEF Spec, RowOutlivesFile

-----------------------------------------------------------------------------
(* The bound on the identifiers: every import that has no row yet has one  *)
(* left for it.                                                            *)
Reserved == {j \in Jobs : job[j].at \in {"open", "copy", "add"}}

Numbered ==
  /\ \A r \in rows : r.id <= lastId
  /\ main.row.id <= lastId /\ \A r \in main.todo : r.id <= lastId
  /\ mem.selected <= lastId /\ disk.selected <= lastId
  /\ \A j \in Jobs : job[j].id <= lastId

JobIds ==
  \A j \in Jobs : /\ job[j].at = "none" => job[j] = Ended
                  /\ job[j].at \in {"open", "copy", "add"} => job[j].id = NoId

Room == lastId + Cardinality(Reserved) <= MaxId

LEMMA Counts ==
  ASSUME NEW S \in SUBSET Jobs
  PROVE  IsFiniteSet(S) /\ Cardinality(S) \in Nat
  BY StoreAssumption, FS_Subset, FS_CardinalityType

\* What a step does to the jobs, as far as their steps and identifiers go.
Same(i) == /\ job'[i].at = job[i].at /\ job'[i].id = job[i].id
           /\ job[i] = Ended => job'[i] = Ended
Others(j) == \A i \in Jobs \ {j} : Same(i)
Taken == Cardinality({i \in Jobs : job[i] # Ended /\ job[i].id = NoId})
Picked(j) == job[j] = Ended /\ job'[j].at = "open" /\ job'[j].id = NoId /\ lastId + Taken < MaxId
Added(j) == job[j].at = "add" /\ job'[j].at = "select" /\ job'[j].id = lastId + 1
Goes(j) ==
  \/ job[j].at \in {"open", "copy"} /\ job'[j].at \in {"copy", "add"} /\ job'[j].id = job[j].id
  \/ job[j].at = "select" /\ job'[j].at = "complete" /\ job'[j].id = job[j].id
  \/ job'[j] = Ended
Moves ==
  \/ lastId' = lastId /\ \A i \in Jobs : Same(i)
  \/ lastId' = lastId /\ \A i \in Jobs : job'[i] = Ended
  \/ \E j \in Jobs : /\ Others(j)
                     /\ \/ lastId' = lastId /\ Picked(j)
                        \/ lastId' = lastId /\ Goes(j)
                        \/ lastId' = lastId + 1 /\ Added(j)

LEMMA StepMoves == Types /\ [Next]_vars => Moves
<1> SUFFICES ASSUME Types, [Next]_vars PROVE Moves
  OBVIOUS
<1>1. job = [j \in Jobs |-> job[j]] /\ \A j \in Jobs : job[j] \in JobType
  BY DEF Types, JobTypes, GoodJob
<1>2. CASE Start \/ Flush \/ MakeRepository \/ Purge \/ Delete \/ UNCHANGED vars
  <2>1. UNCHANGED <<job, lastId>>
    BY <1>2 DEF Start, Flush, MakeRepository, Purge, Delete, vars
  <2>2. QED
    BY <2>1 DEF Moves, Same
<1>3. CASE Kill
  BY <1>3 DEF Kill, Moves
<1>4. CASE DeleteModel
  <2>1. lastId' = lastId
    BY <1>4 DEF DeleteModel
  <2>2. job' = job \/ job' = [j \in Jobs |-> IF job[j].name = main.row.name
                                             THEN [job[j] EXCEPT !.linked = FALSE] ELSE job[j]]
    BY <1>4 DEF DeleteModel, DeleteSteps, UnlinkFile, Unlink
  <2>3. ASSUME NEW j \in Jobs
        PROVE  LET x == [job[j] EXCEPT !.linked = FALSE]
               IN x.at = job[j].at /\ x.id = job[j].id /\ (job[j] = Ended => x = Ended)
    <3>1. [job[j] EXCEPT !.linked = FALSE].at = job[j].at /\ [job[j] EXCEPT !.linked = FALSE].id = job[j].id
      BY <1>1 DEF JobType
    <3>2. job[j] = Ended => [job[j] EXCEPT !.linked = FALSE] = Ended
      <4>1. job[j].linked = FALSE => [job[j] EXCEPT !.linked = FALSE] = job[j]
        BY <1>1 DEF JobType
      <4>2. Ended.linked = FALSE
        BY DEF Ended
      <4>3. QED
        BY <4>1, <4>2
    <3>3. QED
      BY <3>1, <3>2
  <2>4. ASSUME NEW j \in Jobs PROVE Same(j)
    <3>1. job'[j] = job[j] \/ job'[j] = [job[j] EXCEPT !.linked = FALSE]
      BY <2>2
    <3>2. QED
      BY <3>1, <2>3 DEF Same
  <2>5. QED
    BY <2>1, <2>4 DEF Moves
<1>5. ASSUME NEW j \in Jobs, Pick(j) PROVE Moves
  <2>1. lastId' = lastId /\ job[j] = Ended /\ lastId + Taken < MaxId
    BY <1>5 DEF Pick, Taken
  <2>2. \E n \in Names : \E k : job' = [job EXCEPT ![j] = [Ended EXCEPT !.at = "open", !.name = n, !.kind = k]]
    BY <1>5 DEF Pick
  <2>3. job'[j].at = "open" /\ job'[j].id = NoId
    BY <1>1, <2>2 DEF Ended
  <2>4. Others(j)
    BY <1>1, <2>2 DEF Others, Same
  <2>5. QED
    BY <2>1, <2>3, <2>4 DEF Moves, Picked
<1>6. ASSUME NEW j \in Jobs, Open(j) PROVE Moves
  <2>1. lastId' = lastId /\ job[j].at = "open"
    BY <1>6 DEF Open
  <2>2. \E a : job'[j] = [job[j] EXCEPT !.at = "copy", !.linked = TRUE, !.alone = a]
    BY <1>6 DEF Open
  <2>3. job'[j].at = "copy" /\ job'[j].id = job[j].id
    BY <1>1, <2>2 DEF JobType
  <2>4. ASSUME NEW i \in Jobs \ {j} PROVE Same(i)
    <3>1. job'[i] = job[i] \/ (job[i].at = "copy" /\ job'[i] = [job[i] EXCEPT !.alone = FALSE])
      BY <1>6 DEF Open, Writing
    <3>2. CASE job[i].at = "copy" /\ job'[i] = [job[i] EXCEPT !.alone = FALSE]
      <4>1. job'[i].at = job[i].at /\ job'[i].id = job[i].id
        BY <1>1, <3>2 DEF JobType
      <4>2. job[i] # Ended
        BY <3>2 DEF Ended
      <4>3. QED
        BY <4>1, <4>2 DEF Same
    <3>3. QED
      BY <3>1, <3>2 DEF Same
  <2>5. QED
    BY <2>1, <2>3, <2>4 DEF Moves, Others, Goes
<1>7. ASSUME NEW j \in Jobs, Copied(j) \/ NoStream(j) PROVE Moves
  <2>1. lastId' = lastId /\ job[j].at = "copy" /\ job' = [job EXCEPT ![j].at = "add"]
    BY <1>7 DEF Copied, NoStream
  <2>2. job'[j].at = "add" /\ job'[j].id = job[j].id
    BY <1>1, <2>1 DEF JobType
  <2>3. Others(j)
    BY <1>1, <2>1 DEF Others, Same
  <2>4. QED
    BY <2>1, <2>2, <2>3 DEF Moves, Goes
<1>8. ASSUME NEW j \in Jobs, Fail(j) \/ Complete(j) PROVE Moves
  <2>1. lastId' = lastId /\ job' = [job EXCEPT ![j] = Ended]
    BY <1>8 DEF Fail, Complete
  <2>2. job'[j] = Ended /\ Others(j)
    BY <1>1, <2>1 DEF Others, Same
  <2>3. QED
    BY <2>1, <2>2 DEF Moves, Goes
<1>9. ASSUME NEW j \in Jobs, Add(j) PROVE Moves
  <2>1. /\ lastId' = lastId + 1 /\ job[j].at = "add"
        /\ job' = [job EXCEPT ![j].at = "select", ![j].id = lastId + 1]
    BY <1>9 DEF Add
  <2>2. job'[j].at = "select" /\ job'[j].id = lastId + 1
    BY <1>1, <2>1 DEF JobType
  <2>3. Others(j)
    BY <1>1, <2>1 DEF Others, Same
  <2>4. QED
    BY <2>1, <2>2, <2>3 DEF Moves, Added
<1>10. ASSUME NEW j \in Jobs, Select(j) PROVE Moves
  <2>1. /\ lastId' = lastId /\ job[j].at = "select"
        /\ job' = [job EXCEPT ![j] = IF @.kind = "setup" THEN [@ EXCEPT !.at = "complete"] ELSE Ended]
    BY <1>10 DEF Select
  <2>2. job'[j] = Ended \/ (job'[j].at = "complete" /\ job'[j].id = job[j].id)
    BY <1>1, <2>1 DEF JobType
  <2>3. Others(j)
    BY <1>1, <2>1 DEF Others, Same
  <2>4. QED
    BY <2>1, <2>2, <2>3 DEF Moves, Goes
<1>11. CASE Next
  BY <1>2, <1>3, <1>4, <1>5, <1>6, <1>7, <1>8, <1>9, <1>10, <1>11 DEF Next, Step
<1>12. QED
  BY <1>2, <1>11

\* The rows and jobs get identifiers no greater than the last one.
LEMMA NumberedKept == Types /\ Numbered /\ [Next]_vars => Numbered'
<1> SUFFICES ASSUME Types, Numbered, [Next]_vars PROVE Numbered'
  OBVIOUS
<1>1. /\ lastId \in Nat /\ mem \in Prefs /\ disk \in Prefs /\ main \in MainType
      /\ \A j \in Jobs : job[j].id \in Int
  <2>1. \A j \in Jobs : job[j] \in JobType
    BY DEF Types, JobTypes, GoodJob
  <2>2. \A j \in Jobs : job[j].id \in Id \cup {NoId}
    BY <2>1 DEF JobType
  <2>3. QED
    BY <2>2 DEF Types, Id, NoId
<1>2. /\ mem.selected \in Int /\ disk.selected \in Int /\ main.row.id \in Int
      /\ \A r \in main.todo : r.id \in Int
      /\ \A r \in rows : r.id \in Int
  <2>1. main.row \in AnyRow \cup {NoRow} /\ main.todo \subseteq AnyRow /\ rows \subseteq AnyRow
    BY <1>1 DEF MainType, Types
  <2>2. \A r \in AnyRow \cup {NoRow} : r.id \in Int
    BY DEF AnyRow, NoRow, Id, NoId
  <2>3. mem.selected \in Int /\ disk.selected \in Int
    BY <1>1 DEF Prefs, Id, NoId
  <2>4. QED
    BY <2>1, <2>2, <2>3
<1>3. lastId' \in {lastId, lastId + 1}
  BY DEF Next, Step, Start, Kill, Flush, MakeRepository, Purge, Delete, DeleteModel, Pick, Open,
         Copied, NoStream, Fail, Add, Select, Complete, vars
<1>4. \A j \in Jobs : job'[j].id <= lastId'
  BY StepMoves, <1>1, <1>3 DEF Numbered, Moves, Others, Same, Picked, Added, Goes, Ended, NoId
<1>5. /\ \A r \in rows' : r.id <= lastId'
      /\ \A r \in rows' : r \in rows \/ r.id = lastId'
  <2>1. rows' \subseteq rows \/ \E j \in Jobs : Add(j)
    BY DEF Next, Step, Start, Kill, Flush, MakeRepository, Purge, Delete, DeleteModel, DeleteSteps, Pick,
           Open, Copied, NoStream, Fail, Select, Complete, vars
  <2>2. ASSUME NEW j \in Jobs, Add(j) PROVE \A r \in rows' : r \in rows \/ r.id = lastId'
    BY <2>2 DEF Add
  <2>3. \A r \in rows' : r \in rows \/ r.id = lastId'
    BY <2>1, <2>2
  <2>4. QED
    BY <1>1, <1>2, <1>3, <2>3 DEF Numbered
<1>6. mem'.selected <= lastId' /\ disk'.selected <= lastId'
  <2>1. CASE \E j \in Jobs : Select(j) \/ Complete(j)
    <3>1. PICK j \in Jobs : Select(j) \/ Complete(j)
      BY <2>1
    <3>2. mem'.selected \in {mem.selected, job[j].id} /\ disk' = disk
      BY <1>1, <3>1 DEF Select, Complete, Prefs
    <3>3. QED
      BY <1>1, <1>2, <1>3, <3>2 DEF Numbered
  <2>2. CASE ~ \E j \in Jobs : Select(j) \/ Complete(j)
    <3>1. mem' \in {mem, disk} /\ disk' \in {mem, disk}
      BY <2>2 DEF Next, Step, Start, Kill, Flush, MakeRepository, Purge, Delete, DeleteModel, Pick, Open,
                  Copied, NoStream, Fail, Add, vars
    <3>2. QED
      BY <1>1, <1>2, <1>3, <3>1 DEF Numbered
  <2>3. QED
    BY <2>1, <2>2
<1>7. main'.row.id <= lastId' /\ \A r \in main'.todo : r.id <= lastId'
  <2>1. main'.row \in {main.row, NoRow} \cup main.todo \cup rows /\ main'.todo \subseteq main.todo \cup rows
    <3>1. CASE Start \/ MakeRepository \/ DeleteModel
      BY <1>1, <3>1 DEF Start, MakeRepository, DeleteModel, DeleteSteps, UnlinkFile, MainType
    <3>2. CASE Kill \/ Delete
      BY <3>2 DEF Kill, Off, Delete
    <3>3. CASE Purge
      <4>1. CASE main' = [main EXCEPT !.at = "idle"]
        BY <1>1, <4>1 DEF MainType
      <4>2. ASSUME NEW r \in main.todo, main' = [main EXCEPT !.todo = @ \ {r}]
            PROVE  main'.row = main.row /\ main'.todo \subseteq main.todo
        BY <1>1, <4>2 DEF MainType
      <4>3. ASSUME NEW r \in main.todo, main' = [at |-> "unlink", row |-> r, todo |-> main.todo \ {r}]
            PROVE  main'.row = r /\ main'.todo \subseteq main.todo
        BY <4>3
      <4>4. QED
        BY <3>3, <4>1, <4>2, <4>3 DEF Purge
    <3>4. CASE Flush \/ (\E j \in Jobs : Pick(j) \/ Step(j)) \/ UNCHANGED vars
      <4>1. main' = main
        BY <3>4 DEF Flush, Step, Pick, Open, Copied, NoStream, Fail, Add, Select, Complete, vars
      <4>2. QED
        BY <4>1
    <3>5. QED
      BY <3>1, <3>2, <3>3, <3>4 DEF Next
  <2>2. NoRow.id = -1 /\ \A r \in rows : r.id <= lastId
    BY DEF NoRow, NoId, Numbered
  <2>3. QED
    BY <1>1, <1>2, <1>3, <2>1, <2>2 DEF Numbered
<1>8. QED
  BY <1>4, <1>5, <1>6, <1>7 DEF Numbered

\* A job takes its identifier when it adds its row.
LEMMA JobIdsKept == Types /\ JobIds /\ [Next]_vars => JobIds'
<1> SUFFICES ASSUME Types, JobIds, [Next]_vars PROVE JobIds'
  OBVIOUS
<1>1. ASSUME NEW i \in Jobs, Same(i)
      PROVE  (job'[i].at = "none" => job'[i] = Ended) /\ (job'[i].at \in {"open", "copy", "add"} => job'[i].id = NoId)
  BY <1>1 DEF Same, JobIds
<1>2. ASSUME NEW i \in Jobs, Picked(i) \/ Goes(i) \/ Added(i)
      PROVE  (job'[i].at = "none" => job'[i] = Ended) /\ (job'[i].at \in {"open", "copy", "add"} => job'[i].id = NoId)
  BY <1>2 DEF Picked, Goes, Added, JobIds, Ended
<1>3. CASE \A i \in Jobs : Same(i)
  BY <1>1, <1>3 DEF JobIds
<1>4. CASE \A i \in Jobs : job'[i] = Ended
  <2>1. Ended.at = "none"
    BY DEF Ended
  <2>2. \A i \in Jobs : job'[i].at = "none"
    BY <1>4, <2>1
  <2>3. QED
    BY <1>4, <2>2 DEF JobIds
<1>5. ASSUME NEW j \in Jobs, Others(j), Picked(j) \/ Goes(j) \/ Added(j) PROVE JobIds'
  <2>1. ASSUME NEW i \in Jobs
        PROVE  (job'[i].at = "none" => job'[i] = Ended) /\ (job'[i].at \in {"open", "copy", "add"} => job'[i].id = NoId)
    BY <1>1, <1>2, <1>5 DEF Others
  <2>2. QED
    BY <2>1 DEF JobIds
<1>6. QED
  BY StepMoves, <1>3, <1>4, <1>5 DEF Moves

\* Pick leaves an identifier for its job, which nobody but the job's Add takes.
LEMMA RoomKept == Types /\ JobIds /\ Room /\ [Next]_vars => Room'
<1> SUFFICES ASSUME Types, JobIds, Room, [Next]_vars PROVE Room'
  OBVIOUS
<1>1. /\ \A j \in Jobs : GoodJob(job[j]) /\ job[j] \in JobType
      /\ lastId \in Nat /\ MaxId \in Nat
  BY StoreAssumption DEF Types, JobTypes, GoodJob
<1>2. Reserved \in SUBSET Jobs /\ IsFiniteSet(Reserved) /\ Cardinality(Reserved) \in Nat
  BY Counts, Reserved \in SUBSET Jobs DEF Reserved
<1>3. ASSUME Reserved' \subseteq Reserved, lastId' = lastId PROVE Room'
  <2>1. Cardinality(Reserved') \in Nat /\ Cardinality(Reserved') <= Cardinality(Reserved)
    <3>1. Reserved' \in SUBSET Jobs
      BY <1>2, <1>3
    <3>2. QED
      BY <1>2, <1>3, <3>1, Counts, FS_Subset
  <2>2. QED
    BY <1>1, <1>2, <1>3, <2>1 DEF Room
<1>4. CASE lastId' = lastId /\ \A i \in Jobs : Same(i)
  BY <1>3, <1>4 DEF Same, Reserved
<1>5. CASE lastId' = lastId /\ \A i \in Jobs : job'[i] = Ended
  BY <1>3, <1>5 DEF Reserved, Ended
<1>6. ASSUME NEW j \in Jobs, Others(j), lastId' = lastId, Picked(j) PROVE Room'
  <2>1. Taken = Cardinality(Reserved)
    <3>1. ASSUME NEW i \in Jobs PROVE job[i] # Ended /\ job[i].id = NoId <=> job[i].at \in {"open", "copy", "add"}
      <4>1. job[i].at \in {"none", "open", "copy", "add", "select", "complete"}
        BY <1>1 DEF JobType
      <4>2. job[i].at \in {"select", "complete"} => job[i].id # NoId
        BY <1>1 DEF GoodJob, Id, NoId
      <4>3. (job[i] = Ended => job[i].at = "none") /\ (job[i].at = "none" => job[i] = Ended)
        <5>1. Ended.at = "none"
          BY DEF Ended
        <5>2. QED
          BY <5>1 DEF JobIds
      <4>4. job[i].at \in {"open", "copy", "add"} => job[i].id = NoId
        BY DEF JobIds
      <4>5. QED
        BY <4>1, <4>2, <4>3, <4>4
    <3>2. {i \in Jobs : job[i] # Ended /\ job[i].id = NoId} = Reserved
      BY <3>1 DEF Reserved
    <3>3. QED
      BY <3>2 DEF Taken
  <2>2. Reserved' = Reserved \union {j} /\ j \notin Reserved
    BY <1>6 DEF Picked, Others, Same, Reserved, Ended
  <2>3. Cardinality(Reserved') = Cardinality(Reserved) + 1
    BY <1>2, <2>2, FS_AddElement
  <2>4. lastId + Cardinality(Reserved) < MaxId
    BY <1>6, <2>1 DEF Picked
  <2>5. QED
    BY <1>1, <1>2, <1>6, <2>3, <2>4 DEF Room
<1>7. ASSUME NEW j \in Jobs, Others(j), lastId' = lastId, Goes(j) PROVE Room'
  BY <1>3, <1>7 DEF Goes, Others, Same, Reserved, Ended
<1>8. ASSUME NEW j \in Jobs, Others(j), lastId' = lastId + 1, Added(j) PROVE Room'
  <2>1. Reserved' = Reserved \ {j} /\ j \in Reserved
    BY <1>8 DEF Added, Others, Same, Reserved
  <2>2. Cardinality(Reserved') = Cardinality(Reserved) - 1
    BY <1>2, <2>1, FS_RemoveElement
  <2>3. QED
    BY <1>1, <1>2, <1>8, <2>2 DEF Room
<1>9. QED
  BY StepMoves, <1>4, <1>5, <1>6, <1>7, <1>8 DEF Moves

\* The rows, the files, the preferences and the imports keep their types, and the
\* identifiers stay within the bound whatever overlaps or is cut short.
THEOREM StoreTypeCorrect == Spec => []StoreTypeOK
<1>1. Init => Numbered /\ JobIds /\ Room
  <2> SUFFICES ASSUME Init PROVE Numbered /\ JobIds /\ Room
    OBVIOUS
  <2>1. Reserved = {}
    BY DEF Init, Reserved, Ended
  <2>2. QED
    BY <2>1, FS_EmptySet, StoreAssumption
       DEF Init, Numbered, JobIds, Room, Off, NoRow, NoPrefs, NoId, Ended
<1>2. Types /\ Numbered /\ JobIds /\ Room => StoreTypeOK
  <2> SUFFICES ASSUME Types, Numbered, JobIds, Room PROVE StoreTypeOK
    OBVIOUS
  <2>1. lastId \in Nat /\ MaxId \in Nat /\ lastId <= MaxId
    <3>1. Cardinality(Reserved) \in Nat
      BY Counts, Reserved \in SUBSET Jobs DEF Reserved
    <3>2. QED
      BY <3>1, StoreAssumption DEF Types, Room
  <2>2. ASSUME NEW r \in AnyRow, r.id <= lastId PROVE r \in Row
    BY <2>1, <2>2 DEF AnyRow, Row, Id
  <2>3. rows \subseteq Row /\ main.todo \subseteq Row /\ main.row \in Row \union {NoRow}
    BY <2>2 DEF Types, Numbered, MainType
  <2>4. {mem, disk} \subseteq [selected : 1 .. MaxId \cup {NoId}, setup : BOOLEAN]
    BY <2>1 DEF Types, Numbered, Prefs, Id
  <2>5. ASSUME NEW j \in Jobs
        PROVE  job[j] \in [at : {"none", "open", "copy", "add", "select", "complete"},
                           name : Names \cup {NoName}, kind : {"none", "setup", "chat"},
                           linked : BOOLEAN, alone : BOOLEAN, id : 1 .. MaxId \cup {NoId}]
    <3>1. job[j] \in JobType /\ job[j].id <= lastId
      BY DEF Types, JobTypes, GoodJob, Numbered
    <3>2. job[j].id \in 1 .. MaxId \cup {NoId}
      BY <2>1, <3>1 DEF JobType, Id
    <3>3. QED
      BY <3>1, <3>2 DEF JobType
  <2>6. QED
    BY <2>1, <2>3, <2>4, <2>5 DEF Types, JobTypes, MainType, StoreTypeOK
<1>3. StoreInv => Types
  BY DEF StoreInv
<1>4. QED
  BY <1>1, <1>2, <1>3, NumberedKept, JobIdsKept, RoomKept, StoreInvariant, PTL DEF Spec
=============================================================================

-------------------------- MODULE IngestionQueueProofs --------------------------
(***************************************************************************)
(* Theorems about IngestionQueue for any number of files, workers, callers *)
(* and rows and any max_attempts.  QueueInv is the inductive invariant:    *)
(* the types, the exclusive hold of a worker on its row, the bound on the  *)
(* attempts, and what each program counter promises about the documents.   *)
(***************************************************************************)
EXTENDS IngestionQueue, TLAPS

\* A row exists exactly if it was inserted, and then it has a file; a busy
\* caller has one too.
RowsHaveFiles ==
    /\ \A j \in Job : (status[j] = "absent") <=> (j > numJobs)
    /\ \A j \in Job : status[j] # "absent" => src[j] \in File
    /\ \A e \in Caller : epc[e] # "idle" => efile[e] \in File

\* A row that was not inserted has no document and no attempt.
AbsentIsBlank ==
    \A j \in Job : status[j] = "absent" => doc[j] = "none" /\ attempts[j] = 0

\* What the step of a worker says about the document of its row.
StepImpliesDocument ==
    \A w \in Worker :
        /\ pc[w] \in {"tree", "rollback"} => doc[cur[w]] # "none"
        /\ pc[w] \in {"move", "complete"} => doc[cur[w]] = "whole"
        /\ pc[w] \in {"commit", "insert", "tree", "rollback", "move", "complete"} =>
               ContentOf[src[cur[w]]] \in archived

QueueInv ==
    /\ TypeOK
    /\ ExclusiveJob
    /\ RowsHaveFiles
    /\ AbsentIsBlank
    /\ AttemptsBounded
    /\ StepImpliesDocument
    /\ OneDocumentPerChecksum
    /\ CompletedIsStored

USE DEF Job, NoJob, Verdict, JobStatus, WorkerStep, At, Goto, Busy

-------------------------------------------------------------------------------

\* The empty queue satisfies the invariant.
LEMMA QueueInit == Init => QueueInv
  BY QueueAssumption DEF Init, QueueInv, TypeOK, ExclusiveJob, RowsHaveFiles,
     AbsentIsBlank, AttemptsBounded, StepImpliesDocument, OneDocumentPerChecksum,
     CompletedIsStored, Place, CallerStep

\* Steps that touch neither rows nor workers keep the invariant if they keep the
\* types of what they change: the user's and the callers' other steps.
LEMMA OutsideStep ==
  ASSUME QueueInv, TypeOK',
         \A e \in Caller : epc'[e] # "idle" => efile'[e] \in File,
         UNCHANGED <<queueVars, doc, archived, workerVars>>
  PROVE  QueueInv'
  BY DEF QueueInv, ExclusiveJob, RowsHaveFiles, AbsentIsBlank, AttemptsBounded,
     StepImpliesDocument, OneDocumentPerChecksum, CompletedIsStored,
     queueVars, workerVars

\* A busy worker that goes on to another step of the same attempt.
LEMMA GoOn ==
  ASSUME QueueInv, NEW w \in Worker, pc[w] # "idle",
         NEW s \in WorkerStep \ {"idle"}, Goto(w, s),
         s \in {"tree", "rollback"} => doc[cur[w]] # "none",
         s \in {"move", "complete"} => doc[cur[w]] = "whole",
         s \in {"commit", "insert", "tree", "rollback", "move", "complete"} =>
             ContentOf[src[cur[w]]] \in archived,
         fileAt' \in [File -> Place],
         UNCHANGED <<queueVars, doc, archived, cur, callerVars, stranded>>
  PROVE  QueueInv'
  <1> USE DEF QueueInv, queueVars, callerVars
  <1>1. TypeOK'
    BY DEF TypeOK
  <1>2. ExclusiveJob'
    BY DEF TypeOK, ExclusiveJob
  <1>3. StepImpliesDocument'
    BY DEF TypeOK, StepImpliesDocument
  <1>4. QED
    BY <1>1, <1>2, <1>3 DEF RowsHaveFiles, AbsentIsBlank, AttemptsBounded,
       OneDocumentPerChecksum, CompletedIsStored

\* A worker that leaves process_next without a verdict.
LEMMA EscapeStep ==
  ASSUME QueueInv, NEW w \in Worker, pc[w] # "idle", Escape(w),
         UNCHANGED <<queueVars, doc, fileAt, archived, callerVars>>
  PROVE  QueueInv'
  <1> USE DEF QueueInv, Escape, Return, queueVars, callerVars
  <1>1. cur[w] \in Job
    BY DEF ExclusiveJob
  <1>2. TypeOK'
    BY <1>1 DEF TypeOK
  <1>3. ExclusiveJob'
    BY DEF TypeOK, ExclusiveJob
  <1>4. StepImpliesDocument'
    BY DEF TypeOK, StepImpliesDocument
  <1>5. QED
    BY <1>2, <1>3, <1>4 DEF RowsHaveFiles, AbsentIsBlank, AttemptsBounded,
       OneDocumentPerChecksum, CompletedIsStored

\* A worker that writes status v on its row and returns.
LEMMA ReleaseStep ==
  ASSUME QueueInv, NEW w \in Worker, pc[w] # "idle",
         NEW v \in Verdict \cup {"pending"},
         status' = [status EXCEPT ![cur[w]] = v], Return(w),
         v = "pending" => attempts[cur[w]] < MaxAttempts,
         v = "completed" =>
             doc[cur[w]] = "whole" /\ ContentOf[src[cur[w]]] \in archived,
         UNCHANGED <<attempts, src, numJobs, doc, fileAt, archived, callerVars, stranded>>
  PROVE  QueueInv'
  <1> USE DEF QueueInv, Return, callerVars
  <1>1. cur[w] \in Job /\ status[cur[w]] = "processing"
    BY DEF ExclusiveJob
  <1>2. TypeOK'
    BY <1>1 DEF TypeOK
  <1>3. ExclusiveJob'
    BY DEF TypeOK, ExclusiveJob
  <1>4. StepImpliesDocument'
    BY DEF TypeOK, StepImpliesDocument
  <1>5. AttemptsBounded' /\ CompletedIsStored'
    BY <1>1 DEF TypeOK, AttemptsBounded, CompletedIsStored
  <1>6. RowsHaveFiles' /\ AbsentIsBlank'
    BY <1>1 DEF TypeOK, RowsHaveFiles, AbsentIsBlank
  <1>7. QED
    BY <1>2, <1>3, <1>4, <1>5, <1>6 DEF OneDocumentPerChecksum

\* move_request_file keeps the invariant wherever it puts the file.
LEMMA MoveStep ==
  ASSUME QueueInv, NEW w \in Worker, pc[w] # "idle",
         NEW place \in Place, NEW s \in WorkerStep \ {"idle"}, MoveThen(w, place, s),
         s = "complete" => pc[w] = "move", s \in {"complete", "reject", "fail"},
         UNCHANGED <<queueVars, doc, archived, callerVars>>
  PROVE  QueueInv'
  <1>1. CASE InInbox(w)
    <2>1. fileAt' \in [File -> Place]
      BY <1>1 DEF QueueInv, TypeOK, MoveThen
    <2>2. s = "complete" =>
              doc[cur[w]] = "whole" /\ ContentOf[src[cur[w]]] \in archived
      BY DEF QueueInv, StepImpliesDocument
    <2>3. QED
      BY <1>1, <2>1, <2>2, GoOn DEF MoveThen
  <1>2. CASE ~InInbox(w)
    BY <1>2, EscapeStep DEF MoveThen
  <1>3. QED
    BY <1>1, <1>2

-------------------------------------------------------------------------------
(* The steps that change rows or documents *)

\* A caller that goes on to its next file has none.
LEMMA NextFileTypes ==
  ASSUME TypeOK, RowsHaveFiles, NEW e \in Caller, NextFile(e)
  PROVE  /\ epc' \in [Caller -> CallerStep]
         /\ efile' \in [Caller -> File \cup {NoFile}]
         /\ everdict' \in [Caller -> {"new", "known"}]
         /\ \A c \in Caller : epc'[c] # "idle" => efile'[c] \in File
  BY DEF TypeOK, RowsHaveFiles, NextFile, CallerGoto, CallerStep

\* Inserting a row takes a blank slot, so neither the documents nor the holds of
\* the workers are disturbed.
LEMMA InsertJobStep ==
  ASSUME QueueInv, NEW e \in Caller, InsertJob(e)
  PROVE  QueueInv'
  <1> USE QueueAssumption DEF QueueInv, InsertJob, CallerGoto, workerVars
  <1> DEFINE new == numJobs + 1
  <1>1. new \in Job /\ status[new] = "absent" /\ doc[new] = "none" /\ attempts[new] = 0
    BY DEF TypeOK, RowsHaveFiles, AbsentIsBlank
  <1>2. efile[e] \in File
    BY DEF RowsHaveFiles
  <1>3. /\ src' = [src EXCEPT ![new] = efile[e]]
        /\ \E s \in {"rejected", "pending"} : status' = [status EXCEPT ![new] = s]
        /\ numJobs' = new
    OBVIOUS
  <1>4. TypeOK' /\ \A c \in Caller : epc'[c] # "idle" => efile'[c] \in File
    <2>1. /\ epc' \in [Caller -> CallerStep]
          /\ efile' \in [Caller -> File \cup {NoFile}]
          /\ everdict' \in [Caller -> {"new", "known"}]
          /\ \A c \in Caller : epc'[c] # "idle" => efile'[c] \in File
      <3>1. CASE everdict[e] = "known"
        BY <1>2, <3>1 DEF TypeOK, CallerStep, RowsHaveFiles
      <3>2. CASE everdict[e] # "known"
        BY <3>2, NextFileTypes DEF TypeOK, RowsHaveFiles
      <3>3. QED
        BY <3>1, <3>2
    <2>2. QED
      BY <1>1, <1>2, <1>3, <2>1 DEF TypeOK
  <1>5. ExclusiveJob'
    BY <1>1, <1>3 DEF TypeOK, ExclusiveJob
  <1>6. RowsHaveFiles'
    BY <1>1, <1>2, <1>3, <1>4 DEF TypeOK, RowsHaveFiles
  <1>7. AbsentIsBlank' /\ AttemptsBounded'
    BY <1>1, <1>3 DEF TypeOK, AbsentIsBlank, AttemptsBounded
  <1>8. StepImpliesDocument'
    <2>1. \A w \in Worker : Busy(w) => cur[w] # new
      BY <1>1 DEF ExclusiveJob
    <2>2. \A w \in Worker : Busy(w) => src'[cur[w]] = src[cur[w]]
      BY <1>1, <1>3, <2>1 DEF TypeOK
    <2>3. pc' = pc /\ cur' = cur /\ doc' = doc /\ archived' = archived
      BY DEF workerVars
    <2>4. QED
      BY <2>2, <2>3 DEF StepImpliesDocument
  <1>9. OneDocumentPerChecksum' /\ CompletedIsStored'
    BY <1>1, <1>3 DEF TypeOK, OneDocumentPerChecksum, CompletedIsStored
  <1>10. QED
    BY <1>4, <1>5, <1>6, <1>7, <1>8, <1>9

\* Reading copies the source to the archive, which only grows.
LEMMA ReadSourceStep ==
  ASSUME QueueInv, NEW w \in Worker, ReadSource(w)
  PROVE  QueueInv'
  <1> USE DEF QueueInv, ReadSource, Source, InInbox, queueVars, callerVars
  <1>1. cur[w] \in Job /\ src[cur[w]] \in File
    BY DEF ExclusiveJob, RowsHaveFiles
  <1>2. TypeOK'
    BY <1>1, QueueAssumption DEF TypeOK
  <1>3. ExclusiveJob'
    BY DEF TypeOK, ExclusiveJob
  <1>4. StepImpliesDocument'
    BY DEF TypeOK, StepImpliesDocument
  <1>5. QED
    BY <1>2, <1>3, <1>4 DEF RowsHaveFiles, AbsentIsBlank, AttemptsBounded,
       OneDocumentPerChecksum, CompletedIsStored

\* The claim takes a pending row, which nobody holds.
LEMMA ClaimStep ==
  ASSUME QueueInv, NEW w \in Worker, NEW j \in Job, Claim(w, j)
  PROVE  QueueInv'
  <1>1. /\ pc[w] = "idle" /\ status[j] = "pending"
        /\ status' = [status EXCEPT ![j] = "processing"]
        /\ attempts' = [attempts EXCEPT ![j] = @ + 1]
        /\ cur' = [cur EXCEPT ![w] = j]
        /\ pc' = [pc EXCEPT ![w] = "claimed"]
        /\ UNCHANGED <<src, numJobs, doc, fileAt, archived, callerVars, stranded>>
    BY DEF Claim, Claimable
  <1> USE <1>1 DEF QueueInv, callerVars
  <1>2. attempts[j] \in Nat /\ attempts[j] < MaxAttempts
    BY DEF TypeOK, AttemptsBounded
  <1>3. TypeOK'
    BY <1>2 DEF TypeOK
  <1>4. \A v \in Worker : pc[v] # "idle" => cur[v] # j
    BY DEF ExclusiveJob
  <1>5. ExclusiveJob'
    BY <1>4 DEF TypeOK, ExclusiveJob
  <1>6. RowsHaveFiles' /\ AbsentIsBlank'
    BY DEF TypeOK, RowsHaveFiles, AbsentIsBlank
  <1>7. AttemptsBounded'
    BY <1>2, QueueAssumption DEF TypeOK, AttemptsBounded
  <1>8. StepImpliesDocument'
    BY <1>4 DEF TypeOK, StepImpliesDocument
  <1>9. OneDocumentPerChecksum' /\ CompletedIsStored'
    BY DEF TypeOK, OneDocumentPerChecksum, CompletedIsStored
  <1>10. QED
    BY <1>3, <1>5, <1>6, <1>7, <1>8, <1>9

\* Writing the document of a held row as d: at "insert" no other row has a
\* document with this checksum, at the later steps the row itself has it.
LEMMA DocumentStep ==
  ASSUME QueueInv, NEW w \in Worker, pc[w] # "idle",
         NEW d \in {"none", "partial", "whole"}, doc' = [doc EXCEPT ![cur[w]] = d],
         NEW s \in WorkerStep \ {"idle"}, Goto(w, s),
         d # "none" => \/ doc[cur[w]] # "none"
                       \/ ~HasDocument(ContentOf[src[cur[w]]]),
         s \in {"tree", "rollback"} => d # "none",
         s \in {"move", "complete"} => d = "whole",
         s \in {"commit", "insert", "tree", "rollback", "move", "complete"} =>
             ContentOf[src[cur[w]]] \in archived,
         UNCHANGED <<queueVars, fileAt, archived, cur, callerVars, stranded>>
  PROVE  QueueInv'
  <1> USE DEF QueueInv, queueVars, callerVars
  <1>1. cur[w] \in Job /\ status[cur[w]] = "processing"
    BY DEF ExclusiveJob
  <1>2. TypeOK'
    BY DEF TypeOK
  <1>3. ExclusiveJob'
    BY DEF TypeOK, ExclusiveJob
  <1>4. StepImpliesDocument'
    <2>1. \A v \in Worker : v # w /\ pc[v] # "idle" => cur[v] # cur[w]
      BY DEF ExclusiveJob
    <2>2. \A v \in Worker : v # w /\ pc[v] # "idle" => doc'[cur[v]] = doc[cur[v]]
      BY <2>1, <1>1 DEF TypeOK, ExclusiveJob
    <2>3. doc'[cur[w]] = d
      BY <1>1 DEF TypeOK
    <2>4. QED
      BY <2>2, <2>3 DEF TypeOK, StepImpliesDocument
  <1>5. RowsHaveFiles' /\ AbsentIsBlank' /\ AttemptsBounded'
    BY <1>1 DEF TypeOK, RowsHaveFiles, AbsentIsBlank, AttemptsBounded
  <1>6. OneDocumentPerChecksum'
    <2>1. SUFFICES ASSUME NEW i \in Job, NEW j \in Job,
                          doc'[i] # "none", doc'[j] # "none",
                          ContentOf[src[i]] = ContentOf[src[j]]
                   PROVE  i = j
      BY DEF OneDocumentPerChecksum
    <2>2. \A k \in Job : doc'[k] # "none" /\ k # cur[w] => doc[k] # "none"
      BY <1>1 DEF TypeOK
    <2>3. CASE i # cur[w] /\ j # cur[w]
      BY <2>1, <2>2, <2>3 DEF OneDocumentPerChecksum
    <2>4. CASE i = cur[w] \/ j = cur[w]
      <3>1. d # "none"
        BY <2>1, <2>4, <1>1 DEF TypeOK
      <3>2. QED
        BY <3>1, <2>1, <2>2, <2>4 DEF OneDocumentPerChecksum, HasDocument
    <2>5. QED
      BY <2>3, <2>4
  <1>7. CompletedIsStored'
    BY <1>1 DEF TypeOK, CompletedIsStored
  <1>8. QED
    BY <1>2, <1>3, <1>4, <1>5, <1>6, <1>7

-------------------------------------------------------------------------------
(* Every step *)

\* The steps of an enqueue caller keep the invariant.
LEMMA CallerKeeps ==
  ASSUME QueueInv, NEW e \in Caller, CallerNext(e)
  PROVE  QueueInv'
  <1> USE DEF QueueInv, CallerGoto, queueVars, workerVars
  <1>1. ASSUME NEW f \in File, ReadDocument(e, f) PROVE QueueInv'
    BY <1>1, OutsideStep DEF ReadDocument, TypeOK, CallerStep, RowsHaveFiles
  <1>2. CASE ReadJob(e)
    BY <1>2, OutsideStep DEF ReadJob, TypeOK, CallerStep, RowsHaveFiles
  <1>3. CASE InsertJob(e)
    BY <1>3, InsertJobStep
  <1>4. CASE DiscardDuplicate(e)
    <2>1. fileAt' \in [File -> Place]
      BY <1>4 DEF DiscardDuplicate, TypeOK, Place
    <2>2. QED
      BY <1>4, <2>1, NextFileTypes, OutsideStep DEF DiscardDuplicate, TypeOK, RowsHaveFiles
  <1>5. QED
    BY <1>1, <1>2, <1>3, <1>4 DEF CallerNext

\* So do the steps of process_next after the claim.
LEMMA WorkerKeeps ==
  ASSUME QueueInv, NEW w \in Worker, WorkerRun(w)
  PROVE  QueueInv'
  <1>0. /\ fileAt \in [File -> Place]
        /\ pc[w] \in {"tree", "rollback"} => doc[cur[w]] # "none"
        /\ pc[w] \in {"move", "complete"} => doc[cur[w]] = "whole"
        /\ pc[w] \in {"commit", "insert", "tree", "rollback", "move", "complete"} =>
               ContentOf[src[cur[w]]] \in archived
    BY DEF QueueInv, TypeOK, StepImpliesDocument
  <1>1. CASE CheckPath(w)
    BY <1>0, <1>1, GoOn DEF CheckPath
  <1>2. CASE ReadSource(w)
    BY <1>2, ReadSourceStep
  <1>3. CASE ReadFails(w)
    BY <1>0, <1>3, GoOn DEF ReadFails
  <1>4. CASE FindDuplicate(w)
    BY <1>0, <1>4, GoOn DEF FindDuplicate
  <1>5. CASE InsertDocument(w)
    <2>1. CASE HasDocument(ContentOf[Source(w)])
      BY <1>0, <1>5, <2>1, GoOn DEF InsertDocument
    <2>2. CASE ~HasDocument(ContentOf[Source(w)])
      BY <1>0, <1>5, <2>2, DocumentStep DEF InsertDocument, Source
    <2>3. QED
      BY <2>1, <2>2
  <1>6. CASE InsertTree(w)
    BY <1>0, <1>6, DocumentStep DEF InsertTree
  <1>7. CASE TreeFails(w)
    BY <1>0, <1>7, GoOn DEF TreeFails
  <1>8. CASE Rollback(w)
    BY <1>0, <1>8, DocumentStep DEF Rollback
  <1>9. CASE RollbackFails(w)
    BY <1>0, <1>9, GoOn DEF RollbackFails
  <1>10. CASE MoveProcessed(w)
    BY <1>10, MoveStep DEF MoveProcessed, Place
  <1>11. CASE MoveDuplicate(w)
    BY <1>11, MoveStep DEF MoveDuplicate, Place
  <1>12. CASE DeadLetter(w)
    BY <1>12, MoveStep DEF DeadLetter, Place
  <1>13. CASE CompleteJob(w)
    BY <1>0, <1>13, ReleaseStep DEF CompleteJob, Settle
  <1>14. CASE RejectJob(w)
    BY <1>14, ReleaseStep DEF RejectJob, Settle
  <1>15. CASE FailJob(w)
    BY <1>15, ReleaseStep DEF FailJob, Settle
  <1>16. CASE RetryJob(w)
    BY <1>16, ReleaseStep DEF RetryJob, MayRetry
  <1>17. CASE GiveUp(w)
    BY <1>0, <1>17, GoOn DEF GiveUp
  <1>18. QED
    BY <1>1, <1>2, <1>3, <1>4, <1>5, <1>6, <1>7, <1>8, <1>9, <1>10, <1>11, <1>12,
       <1>13, <1>14, <1>15, <1>16, <1>17 DEF WorkerRun

\* QueueInv is inductive.
LEMMA QueueStep == QueueInv /\ [Next]_vars => QueueInv'
  <1> SUFFICES ASSUME QueueInv, [Next]_vars PROVE QueueInv'
    OBVIOUS
  <1>1. ASSUME NEW f \in File, DropFile(f) PROVE QueueInv'
    BY <1>1, OutsideStep DEF DropFile, QueueInv, TypeOK, Place, RowsHaveFiles,
       queueVars, workerVars, callerVars
  <1>2. ASSUME NEW e \in Caller, CallerNext(e) PROVE QueueInv'
    BY <1>2, CallerKeeps
  <1>3. ASSUME NEW w \in Worker, NEW j \in Job, Claim(w, j) PROVE QueueInv'
    BY <1>3, ClaimStep
  <1>4. ASSUME NEW w \in Worker, WorkerRun(w) PROVE QueueInv'
    BY <1>4, WorkerKeeps
  <1>5. ASSUME NEW w \in Worker, Crash(w) PROVE QueueInv'
    BY <1>5, EscapeStep DEF Crash
  <1>6. CASE UNCHANGED vars
    BY <1>6, OutsideStep DEF QueueInv, TypeOK, RowsHaveFiles, vars, queueVars, workerVars, callerVars
  <1>7. QED
    BY <1>1, <1>2, <1>3, <1>4, <1>5, <1>6 DEF Next, WorkerNext

\* The invariant holds of every state.
LEMMA QueueInvariant == Spec => []QueueInv
  BY QueueInit, QueueStep, PTL DEF Spec

-------------------------------------------------------------------------------

\* Every variable keeps its type, for any number of workers and rows.
THEOREM TypeCorrect == Spec => []TypeOK
  <1>1. QueueInv => TypeOK
    BY DEF QueueInv
  <1>2. QED
    BY <1>1, QueueInvariant, PTL

\* The atomic claim is enough to keep workers apart: nobody writes a verdict on
\* a row that another worker holds or has settled.
THEOREM ClaimsAreExclusive == Spec => []ExclusiveJob
  <1>1. QueueInv => ExclusiveJob
    BY DEF QueueInv
  <1>2. QED
    BY <1>1, QueueInvariant, PTL

\* "worker failure retries are bounded by `queue.max_attempts`".
THEOREM RetriesAreBounded == Spec => []AttemptsBounded
  <1>1. QueueInv => AttemptsBounded
    BY DEF QueueInv
  <1>2. QED
    BY <1>1, QueueInvariant, PTL

\* "duplicate checksum input is rejected without creating a second document",
\* for every interleaving of the check-then-insert lookups.
THEOREM ChecksumsAreUnique == Spec => []OneDocumentPerChecksum
  <1>1. QueueInv => OneDocumentPerChecksum
    BY DEF QueueInv
  <1>2. QED
    BY <1>1, QueueInvariant, PTL

\* A completed row always has its whole document and its archived source.
THEOREM CompletedRowsAreStored == Spec => []CompletedIsStored
  <1>1. QueueInv => CompletedIsStored
    BY DEF QueueInv
  <1>2. QED
    BY <1>1, QueueInvariant, PTL

-------------------------------------------------------------------------------
(* The queue implements JobLifecycle *)

\* An empty queue is an empty job table.
LEMMA LifecycleInit == Init => Lifecycle!Init
  BY DEF Init, Lifecycle!Init

\* An update of the row a worker holds is a step of the job's life.
LEMMA SettleIsEnd ==
  ASSUME QueueInv, NEW w \in Worker, NEW step \in WorkerStep \ {"idle"},
         NEW v \in Verdict, Settle(w, step, v)
  PROVE  Lifecycle!Next
  <1>1. cur[w] \in Job /\ status[cur[w]] = "processing"
    BY DEF Settle, QueueInv, ExclusiveJob
  <1>2. Lifecycle!End(cur[w])
    BY <1>1 DEF Settle, Lifecycle!End, Lifecycle!Verdict
  <1>3. QED
    BY <1>1, <1>2 DEF Lifecycle!Next

\* Every step of the queue is a step of the job table, or leaves it alone.
LEMMA LifecycleStep ==
  ASSUME QueueInv, [Next]_vars
  PROVE  [Lifecycle!Next]_(Lifecycle!jobVars)
  <1> USE DEF Lifecycle!jobVars
  <1>1. ASSUME NEW f \in File, DropFile(f) PROVE UNCHANGED <<status, attempts>>
    BY <1>1 DEF DropFile, queueVars
  <1>2. ASSUME NEW e \in Caller, CallerNext(e)
        PROVE  [Lifecycle!Next]_(Lifecycle!jobVars)
    <2>1. CASE InsertJob(e)
      <3>1. numJobs + 1 \in Job /\ status[numJobs + 1] = "absent"
        BY <2>1, QueueAssumption DEF InsertJob, QueueInv, TypeOK, RowsHaveFiles
      <3>2. Lifecycle!Insert(numJobs + 1)
        BY <2>1, <3>1 DEF InsertJob, Lifecycle!Insert
      <3>3. QED
        BY <3>1, <3>2 DEF Lifecycle!Next
    <2>2. CASE ~InsertJob(e)
      BY <1>2, <2>2 DEF CallerNext, ReadDocument, ReadJob, DiscardDuplicate, queueVars
    <2>3. QED
      BY <2>1, <2>2
  <1>3. ASSUME NEW w \in Worker, NEW j \in Job, Claim(w, j)
        PROVE  Lifecycle!Next
    <2>1. Lifecycle!Begin(j)
      BY <1>3 DEF Claim, Claimable, Lifecycle!Begin, QueueInv, AttemptsBounded
    <2>2. QED
      BY <2>1 DEF Lifecycle!Next
  <1>4. ASSUME NEW w \in Worker, WorkerRun(w)
        PROVE  [Lifecycle!Next]_(Lifecycle!jobVars)
    <2>1. CASE CompleteJob(w)
      BY <2>1, SettleIsEnd DEF CompleteJob
    <2>2. CASE RejectJob(w)
      BY <2>2, SettleIsEnd DEF RejectJob
    <2>3. CASE FailJob(w)
      BY <2>3, SettleIsEnd DEF FailJob
    <2>4. CASE RetryJob(w)
      <3>1. cur[w] \in Job /\ status[cur[w]] = "processing"
        BY <2>4 DEF RetryJob, QueueInv, ExclusiveJob
      <3>2. Lifecycle!Again(cur[w])
        BY <2>4, <3>1 DEF RetryJob, MayRetry, Lifecycle!Again
      <3>3. QED
        BY <3>1, <3>2 DEF Lifecycle!Next
    <2>5. CASE ~(CompleteJob(w) \/ RejectJob(w) \/ FailJob(w) \/ RetryJob(w))
      BY <1>4, <2>5 DEF WorkerRun, CheckPath, ReadSource, ReadFails, FindDuplicate,
         InsertDocument, InsertTree, TreeFails, Rollback, RollbackFails, MoveProcessed,
         MoveDuplicate, GiveUp, DeadLetter, queueVars
    <2>6. QED
      BY <2>1, <2>2, <2>3, <2>4, <2>5
  <1>5. ASSUME NEW w \in Worker, Crash(w) PROVE UNCHANGED <<status, attempts>>
    BY <1>5 DEF Crash, queueVars
  <1>6. CASE UNCHANGED vars
    BY <1>6 DEF vars, queueVars
  <1>7. QED
    BY <1>1, <1>2, <1>3, <1>4, <1>5, <1>6 DEF Next, WorkerNext

\* Seen through status and attempts, every behaviour of the queue is one of
\* JobLifecycle: verdicts are final and attempts are begun only by claims.
THEOREM QueueImplementsLifecycle == Spec => LifecycleSpec
  <1>1. QueueInv /\ [Next]_vars => [Lifecycle!Next]_(Lifecycle!jobVars)
    BY LifecycleStep
  <1>2. QED
    BY LifecycleInit, <1>1, QueueInvariant, PTL DEF Spec, LifecycleSpec, Lifecycle!Spec

================================================================================

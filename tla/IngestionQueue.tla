---------------------------- MODULE IngestionQueue ----------------------------
(***************************************************************************)
(* The inbox queue of Tirzah: callers that enqueue the files of the inbox  *)
(* (db/queue.py enqueue_source, driven by `enqueue-inbox`, `process-inbox` *)
(* and POST /api/process-inbox), workers that run ingestion/worker.py      *)
(* process_next, and the part of db/repositories.py commit_ingestion that  *)
(* decides whether a source becomes a document.  MongoDB gives one-row     *)
(* atomicity and a unique index on the checksum of documents, nothing      *)
(* more, so every database or file-system call is a step of its own.       *)
(***************************************************************************)
EXTENDS Naturals

CONSTANTS
    File,         \* source files a user may drop into the inbox
    Content,      \* what files hold, up to the SHA-256 checksum
    ContentOf,    \* [File -> Content]
    Worker,       \* running calls of process_next
    Caller,       \* running calls of the enqueue loop
    MaxJobs,      \* bound on the rows of the queue collection
    MaxAttempts,  \* config.queue.max_attempts
    NoFile,       \* the path of a row that does not exist
    Crashes       \* whether a worker process may die between two steps

ASSUME QueueAssumption ==
    /\ ContentOf \in [File -> Content]
    /\ NoFile \notin File
    /\ MaxJobs \in Nat
    /\ MaxAttempts \in Nat \ {0}
    /\ Crashes \in BOOLEAN

Job == 1 .. MaxJobs    \* rows of the queue, numbered by created_at
NoJob == 0

VARIABLES
    status,    \* status of each row of the queue collection
    attempts,  \* its attempts field
    src,       \* its path: the file the row was created for
    numJobs,   \* rows inserted so far
    doc,       \* the document a job's commit inserted: none, partial, whole
    fileAt,    \* where each file is
    archived,  \* contents copied to the archive
    pc, cur,   \* each worker's next step and the row it claimed
    epc, efile, everdict,  \* each caller's next step, its file, what it has read
    stranded   \* history: rows a worker left without a verdict

queueVars == <<status, attempts, src, numJobs>>
workerVars == <<pc, cur>>
callerVars == <<epc, efile, everdict>>
vars == <<queueVars, doc, fileAt, archived, workerVars, callerVars, stranded>>

Verdict == {"completed", "rejected", "failed"}
JobStatus == {"absent", "pending", "processing"} \cup Verdict
Place == {"absent", "inbox", "processed", "duplicate", "failed"}
WorkerStep == {"idle", "claimed", "ingest", "commit", "insert", "tree", "rollback",
               "move", "complete", "duplicate", "reject",
               "failing", "deadletter", "fail"}
CallerStep == {"idle", "readJob", "insert", "discard"}

Init ==
    /\ status = [j \in Job |-> "absent"]
    /\ attempts = [j \in Job |-> 0]
    /\ src = [j \in Job |-> NoFile]
    /\ numJobs = 0
    /\ doc = [j \in Job |-> "none"]
    /\ fileAt = [f \in File |-> "absent"]
    /\ archived = {}
    /\ pc = [w \in Worker |-> "idle"]
    /\ cur = [w \in Worker |-> NoJob]
    /\ epc = [e \in Caller |-> "idle"]
    /\ efile = [e \in Caller |-> NoFile]
    /\ everdict = [e \in Caller |-> "new"]
    /\ stranded = {}

\* Mutant: the lookup overlooks documents whose tree is not written yet.
SeesWholeDocuments(c) ==
    \E j \in Job : doc[j] = "whole" /\ ContentOf[src[j]] = c

\* find_one({"source.checksum_sha256": c}): any document, finished or not.
HasDocument(c) ==
    \E j \in Job : doc[j] # "none" /\ ContentOf[src[j]] = c

\* find_one on the queue for a row that still stands for this checksum.
HasLiveJob(c) ==
    \E j \in Job : /\ status[j] \in {"pending", "processing", "completed"}
                   /\ ContentOf[src[j]] = c

-------------------------------------------------------------------------------
(* The user *)

DropFile(f) ==
    /\ fileAt[f] \in {"absent", "duplicate", "failed"}  \* a new file, or one put back
    /\ fileAt' = [fileAt EXCEPT ![f] = "inbox"]
    /\ UNCHANGED <<queueVars, doc, archived, workerVars, callerVars, stranded>>

-------------------------------------------------------------------------------
(* enqueue_source, one call per file of the inbox *)

CallerGoto(e, step) == epc' = [epc EXCEPT ![e] = step]

\* The loop is through with its file.
NextFile(e) ==
    /\ CallerGoto(e, "idle")
    /\ efile' = [efile EXCEPT ![e] = NoFile]
    /\ everdict' = [everdict EXCEPT ![e] = "new"]

ReadDocument(e, f) ==
    /\ epc[e] = "idle"
    /\ fileAt[f] = "inbox"
    /\ efile' = [efile EXCEPT ![e] = f]
    /\ everdict' = [everdict EXCEPT ![e] = IF HasDocument(ContentOf[f]) THEN "known" ELSE "new"]
    /\ CallerGoto(e, "readJob")
    /\ UNCHANGED <<queueVars, doc, fileAt, archived, workerVars, stranded>>

ReadJob(e) ==
    /\ epc[e] = "readJob"
    /\ everdict' = [everdict EXCEPT ![e] = IF HasLiveJob(ContentOf[efile[e]]) THEN "known" ELSE @]
    /\ CallerGoto(e, "insert")
    /\ UNCHANGED <<queueVars, doc, fileAt, archived, workerVars, efile, stranded>>

InsertJob(e) ==
    /\ epc[e] = "insert"
    /\ numJobs < MaxJobs
    /\ numJobs' = numJobs + 1
    /\ src' = [src EXCEPT ![numJobs + 1] = efile[e]]
    /\ status' = [status EXCEPT ![numJobs + 1] =
                     IF everdict[e] = "known" THEN "rejected" ELSE "pending"]
    /\ IF everdict[e] = "known"
         THEN CallerGoto(e, "discard") /\ UNCHANGED <<efile, everdict>>
         ELSE NextFile(e)
    /\ UNCHANGED <<attempts, doc, fileAt, archived, workerVars, stranded>>

\* The loop moves a refused file out of the inbox if it is still there.
DiscardDuplicate(e) ==
    /\ epc[e] = "discard"
    /\ fileAt' = [fileAt EXCEPT ![efile[e]] = IF @ = "inbox" THEN "duplicate" ELSE @]
    /\ NextFile(e)
    /\ UNCHANGED <<queueVars, doc, archived, workerVars, stranded>>

-------------------------------------------------------------------------------
(* process_next *)

Source(w) == src[cur[w]]
InInbox(w) == fileAt[Source(w)] = "inbox"

At(w, step) == pc[w] = step
Goto(w, step) == pc' = [pc EXCEPT ![w] = step]

\* The call returns: the worker forgets its row.
Return(w) ==
    /\ Goto(w, "idle")
    /\ cur' = [cur EXCEPT ![w] = NoJob]

\* An exception leaves process_next before a verdict was written.
Escape(w) ==
    /\ Return(w)
    /\ stranded' = stranded \cup {cur[w]}

\* Mutants: rows of a dead worker, or failed rows, are up for a claim too.
ClaimsProcessing(j) == status[j] \in {"pending", "processing"}
ClaimsFailed(j) == status[j] \in {"pending", "failed"}

\* The filter of claim_next_pending.
Claimable(j) == status[j] = "pending"

\* claim_next_pending: one find_one_and_update, oldest row first.
Claim(w, j) ==
    /\ At(w, "idle")
    /\ Claimable(j)
    /\ \A k \in Job : Claimable(k) => j <= k
    /\ status' = [status EXCEPT ![j] = "processing"]
    /\ attempts' = [attempts EXCEPT ![j] = @ + 1]
    /\ cur' = [cur EXCEPT ![w] = j]
    /\ Goto(w, "claimed")
    /\ UNCHANGED <<src, numJobs, doc, fileAt, archived, callerVars, stranded>>

CheckPath(w) ==
    /\ At(w, "claimed")
    /\ Goto(w, IF InInbox(w) THEN "ingest" ELSE "fail")
    /\ UNCHANGED <<queueVars, doc, fileAt, archived, cur, callerVars, stranded>>

\* Read, run the adapter, annotate dates, copy to the archive.
ReadSource(w) ==
    /\ At(w, "ingest")
    /\ InInbox(w)
    /\ archived' = archived \cup {ContentOf[Source(w)]}
    /\ Goto(w, "commit")
    /\ UNCHANGED <<queueVars, doc, fileAt, cur, callerVars, stranded>>

\* The file went away, or the parser, the adapter or the copy raised.
ReadFails(w) ==
    /\ At(w, "ingest")
    /\ Goto(w, "failing")
    /\ UNCHANGED <<queueVars, doc, fileAt, archived, cur, callerVars, stranded>>

\* commit_ingestion looks for the checksum before it writes.
FindDuplicate(w) ==
    /\ At(w, "commit")
    /\ Goto(w, IF HasDocument(ContentOf[Source(w)]) THEN "duplicate" ELSE "insert")
    /\ UNCHANGED <<queueVars, doc, fileAt, archived, cur, callerVars, stranded>>

\* insert_one on documents; the unique index decides a race between two workers.
InsertDocument(w) ==
    /\ At(w, "insert")
    /\ IF HasDocument(ContentOf[Source(w)])
         THEN Goto(w, "failing") /\ UNCHANGED doc
         ELSE Goto(w, "tree") /\ doc' = [doc EXCEPT ![cur[w]] = "partial"]
    /\ UNCHANGED <<queueVars, fileAt, archived, cur, callerVars, stranded>>

InsertTree(w) ==
    /\ At(w, "tree")
    /\ doc' = [doc EXCEPT ![cur[w]] = "whole"]
    /\ Goto(w, "move")
    /\ UNCHANGED <<queueVars, fileAt, archived, cur, callerVars, stranded>>

\* Mutant: the except block forgets to re-raise.
TreeFailureSwallowed(w) ==
    /\ At(w, "tree")
    /\ Goto(w, "move")
    /\ UNCHANGED <<queueVars, doc, fileAt, archived, cur, callerVars, stranded>>

TreeFails(w) ==
    /\ At(w, "tree")
    /\ Goto(w, "rollback")
    /\ UNCHANGED <<queueVars, doc, fileAt, archived, cur, callerVars, stranded>>

Rollback(w) ==
    /\ At(w, "rollback")
    /\ doc' = [doc EXCEPT ![cur[w]] = "none"]
    /\ Goto(w, "failing")
    /\ UNCHANGED <<queueVars, fileAt, archived, cur, callerVars, stranded>>

\* A deletion raises inside the except block: the document stays.
RollbackFails(w) ==
    /\ At(w, "rollback")
    /\ Goto(w, "failing")
    /\ UNCHANGED <<queueVars, doc, fileAt, archived, cur, callerVars, stranded>>

\* move_request_file, after which the worker goes on to step `next`; the move
\* raises, outside every handler, when the file is no longer in the inbox.
MoveThen(w, place, next) ==
    \/ /\ InInbox(w)
       /\ fileAt' = [fileAt EXCEPT ![Source(w)] = place]
       /\ Goto(w, next)
       /\ UNCHANGED <<cur, stranded>>
    \/ /\ ~InInbox(w)
       /\ Escape(w)
       /\ UNCHANGED fileAt

MoveProcessed(w) ==
    /\ At(w, "move")
    /\ MoveThen(w, "processed", "complete")
    /\ UNCHANGED <<queueVars, doc, archived, callerVars>>

MoveDuplicate(w) ==
    /\ At(w, "duplicate")
    /\ MoveThen(w, "duplicate", "reject")
    /\ UNCHANGED <<queueVars, doc, archived, callerVars>>

DeadLetter(w) ==
    /\ At(w, "deadletter")
    /\ MoveThen(w, "failed", "fail")
    /\ UNCHANGED <<queueVars, doc, archived, callerVars>>

\* complete_job, reject_job and fail_job are update_one on the row's _id alone.
Settle(w, step, verdict) ==
    /\ At(w, step)
    /\ status' = [status EXCEPT ![cur[w]] = verdict]
    /\ Return(w)
    /\ UNCHANGED <<attempts, src, numJobs, doc, fileAt, archived, callerVars, stranded>>

CompleteJob(w) == Settle(w, "complete", "completed")
RejectJob(w) == Settle(w, "reject", "rejected")
FailJob(w) == Settle(w, "fail", "failed")

\* job["attempts"] < config.queue.max_attempts
MayRetry(w) == attempts[cur[w]] < MaxAttempts

RetryJob(w) ==
    /\ At(w, "failing")
    /\ MayRetry(w)
    /\ status' = [status EXCEPT ![cur[w]] = "pending"]
    /\ Return(w)
    /\ UNCHANGED <<attempts, src, numJobs, doc, fileAt, archived, callerVars, stranded>>

\* Mutant: returns without fail_job.
GiveUpSilently(w) ==
    /\ At(w, "failing")
    /\ ~MayRetry(w)
    /\ Return(w)
    /\ UNCHANGED <<queueVars, doc, fileAt, archived, callerVars, stranded>>

GiveUp(w) ==
    /\ At(w, "failing")
    /\ ~MayRetry(w)
    /\ Goto(w, IF InInbox(w) THEN "deadletter" ELSE "fail")
    /\ UNCHANGED <<queueVars, doc, fileAt, archived, cur, callerVars, stranded>>

\* The process dies.  Nothing ever takes a row back from "processing".
Crash(w) ==
    /\ Crashes
    /\ ~At(w, "idle")
    /\ Escape(w)
    /\ UNCHANGED <<queueVars, doc, fileAt, archived, callerVars>>

-------------------------------------------------------------------------------

CallerNext(e) ==
    \/ \E f \in File : ReadDocument(e, f)
    \/ ReadJob(e) \/ InsertJob(e) \/ DiscardDuplicate(e)

\* The steps of process_next after the claim.
WorkerRun(w) ==
    \/ CheckPath(w) \/ ReadSource(w) \/ ReadFails(w)
    \/ FindDuplicate(w) \/ InsertDocument(w)
    \/ InsertTree(w) \/ TreeFails(w) \/ Rollback(w) \/ RollbackFails(w)
    \/ MoveProcessed(w) \/ CompleteJob(w)
    \/ MoveDuplicate(w) \/ RejectJob(w)
    \/ RetryJob(w) \/ GiveUp(w) \/ DeadLetter(w) \/ FailJob(w)

WorkerNext(w) == (\E j \in Job : Claim(w, j)) \/ WorkerRun(w)

Next ==
    \/ \E f \in File : DropFile(f)
    \/ \E e \in Caller : CallerNext(e)
    \/ \E w \in Worker : WorkerNext(w) \/ Crash(w)

Spec == Init /\ [][Next]_vars

\* process-inbox calls process_next until the queue is idle, so a worker that
\* can step does; users, callers and crashes owe nothing.
FairSpec == Spec /\ \A w \in Worker : WF_vars(WorkerNext(w))

-------------------------------------------------------------------------------
(* Properties *)

\* Types of the queue rows, documents, files and program counters.
TypeOK ==
    /\ status \in [Job -> JobStatus]
    /\ attempts \in [Job -> Nat]
    /\ src \in [Job -> File \cup {NoFile}]
    /\ numJobs \in 0 .. MaxJobs
    /\ doc \in [Job -> {"none", "partial", "whole"}]
    /\ fileAt \in [File -> Place]
    /\ archived \subseteq Content
    /\ pc \in [Worker -> WorkerStep]
    /\ cur \in [Worker -> Job \cup {NoJob}]
    /\ epc \in [Caller -> CallerStep]
    /\ efile \in [Caller -> File \cup {NoFile}]
    /\ everdict \in [Caller -> {"new", "known"}]
    /\ stranded \subseteq Job

Busy(w) == pc[w] # "idle"

\* A claimed row is processed by one worker: every busy worker holds a row in
\* status processing and no two hold the same one, so the unconditional
\* update_one of complete_job, reject_job, fail_job and retry_job never writes
\* over a verdict that another worker gave.
ExclusiveJob ==
    /\ \A w \in Worker : Busy(w) => cur[w] \in Job /\ status[cur[w]] = "processing"
    /\ \A v, w \in Worker : Busy(v) /\ Busy(w) /\ cur[v] = cur[w] => v = w

\* Two rows with the same checksum never both own a document, however the
\* lookups of the enqueue calls and of the workers interleave.
OneDocumentPerChecksum ==
    \A i, j \in Job :
        /\ doc[i] # "none" /\ doc[j] # "none"
        /\ ContentOf[src[i]] = ContentOf[src[j]]
        => i = j

\* No row is attempted more than max_attempts times, and a row goes back to
\* pending only while an attempt is left.
AttemptsBounded ==
    \A j \in Job :
        /\ attempts[j] <= MaxAttempts
        /\ status[j] = "pending" => attempts[j] < MaxAttempts

\* A completed row has its document with the whole tree, and the archive has
\* its source, although the row, the document and the file are written by
\* separate calls and another worker may be rolling back.
CompletedIsStored ==
    \A j \in Job : status[j] = "completed" =>
        doc[j] = "whole" /\ ContentOf[src[j]] \in archived

\* The queue implements the promise of a durable job table.
Lifecycle == INSTANCE JobLifecycle
LifecycleSpec == Lifecycle!Spec

\* Under weak fairness of the workers a pending row is settled, unless a worker
\* abandoned it: retries end, and no row waits behind another for ever.
PendingIsSettled ==
    \A j \in Job : status[j] = "pending" ~> status[j] \in Verdict \/ j \in stranded

================================================================================

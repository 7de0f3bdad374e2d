----------------------------- MODULE BackfillJobs -----------------------------
(***************************************************************************)
(* Profile backfill: ingestion/embedding_backfill.py runs a durable job    *)
(* over all nodes in batches, db/repositories.py backfill_node_embeddings  *)
(* embeds one batch.  A node is written at once, the cursor of the job     *)
(* only after its batch, by an update that does not look at the status.    *)
(* An interrupted job stays "processing" until an operator requeues it,    *)
(* and nothing tells him whether a worker is still at it.                  *)
(***************************************************************************)
EXTENDS Naturals, FiniteSets

CONSTANTS
    NumNodes,     \* nodes in scope, in the order of their _id
    BatchLimit,   \* the job's batch_limit
    Worker,       \* calls of process_next_embedding_backfill_job
    MaxRequeues   \* bound on the operator's requeues

Node == 1 .. NumNodes

ASSUME BackfillAssumption ==
    /\ NumNodes \in Nat
    /\ BatchLimit \in Nat \ {0}
    /\ MaxRequeues \in Nat

VARIABLES
    force,         \* the job's force flag
    careful,       \* whether the operator requeues only what no worker holds
    status,        \* its status
    cursor,        \* its last_node_id, 0 for none
    updatedCount,  \* its updated_count
    profiled,      \* nodes that have an embedding vector
    pc,            \* each worker's next step
    last,          \* the last node of the batch it is through with
    left,          \* what is left of its batch
    full,          \* whether the batch reached the limit
    updated, failures,  \* its counts
    requeues,      \* requeues so far
    embedded, failed,   \* history: nodes some batch embedded, or failed to
    scope,         \* scope_total, counted when the job was created
    stranded       \* history: a worker died over the job

jobVars == <<force, careful, status, cursor, updatedCount, scope>>
workerVars == <<pc, last, left, full, updated, failures>>
history == <<embedded, failed, stranded>>
vars == <<jobVars, profiled, workerVars, requeues, history>>

JobStatus == {"pending", "processing", "completed", "blocked"}

\* create_embedding_backfill_job has just inserted the row.
Init ==
    /\ force \in BOOLEAN /\ careful \in BOOLEAN
    /\ profiled \in SUBSET Node
    /\ scope = Cardinality(IF force THEN Node ELSE Node \ profiled)
    /\ status = "pending"
    /\ cursor = 0
    /\ updatedCount = 0
    /\ pc = [w \in Worker |-> "idle"]
    /\ last = [w \in Worker |-> 0]
    /\ left = [w \in Worker |-> {}]
    /\ full = [w \in Worker |-> FALSE]
    /\ updated = [w \in Worker |-> 0]
    /\ failures = [w \in Worker |-> 0]
    /\ requeues = 0
    /\ embedded = {}
    /\ failed = {}
    /\ stranded = FALSE

At(w, step) == pc[w] = step
Goto(w, step) == pc' = [pc EXCEPT ![w] = step]

\* find_one_and_update: the worker keeps the row it got, with its cursor.
Claim(w) ==
    /\ At(w, "idle")
    /\ status = "pending"
    /\ status' = "processing"
    /\ last' = [last EXCEPT ![w] = cursor]
    /\ Goto(w, "find")
    /\ UNCHANGED <<force, careful, cursor, updatedCount, scope, profiled, left, full,
                   updated, failures, requeues, history>>

\* embedding_backfill_node_query
Candidates(from) == {n \in Node : n > from /\ (force \/ n \notin profiled)}

\* Mutant: no sort before the limit.
UnsortedBatch(b, c) ==
    /\ b \subseteq c
    /\ Cardinality(b) = BatchLimit \/ (b = c /\ Cardinality(b) < BatchLimit)

\* sort by _id, then limit
IsBatch(b, c) ==
    /\ b \subseteq c
    /\ \A n \in b, m \in c : m < n => m \in b
    /\ Cardinality(b) = BatchLimit \/ (b = c /\ Cardinality(b) < BatchLimit)

Find(w) ==
    /\ At(w, "find")
    /\ \E b \in SUBSET Candidates(last[w]) :
         /\ IsBatch(b, Candidates(last[w]))
         /\ left' = [left EXCEPT ![w] = b]
         /\ full' = [full EXCEPT ![w] = Cardinality(b) = BatchLimit]
    /\ updated' = [updated EXCEPT ![w] = 0]
    /\ failures' = [failures EXCEPT ![w] = 0]
    /\ Goto(w, "embed")
    /\ UNCHANGED <<jobVars, profiled, last, requeues, history>>

\* The next node of the batch; its document is the one the query returned.
Current(w, n) == n \in left[w] /\ \A m \in left[w] : n <= m

Pass(w, n) ==
    /\ last' = [last EXCEPT ![w] = n]
    /\ left' = [left EXCEPT ![w] = @ \ {n}]

Embed(w, n) ==
    /\ At(w, "embed") /\ Current(w, n)
    /\ Pass(w, n)
    /\ profiled' = profiled \cup {n}
    /\ updated' = [updated EXCEPT ![w] = @ + 1]
    /\ embedded' = embedded \cup {n}
    /\ UNCHANGED <<jobVars, pc, full, failures, requeues, failed, stranded>>

\* The embedder raises: the node is counted and left behind.
EmbedFails(w, n) ==
    /\ At(w, "embed") /\ Current(w, n)
    /\ Pass(w, n)
    /\ failures' = [failures EXCEPT ![w] = @ + 1]
    /\ failed' = failed \cup {n}
    /\ UNCHANGED <<jobVars, profiled, pc, full, updated, requeues, embedded, stranded>>

AllFailed(w) == failures[w] > 0 /\ updated[w] = 0

\* Mutant: an off-by-one, a full last batch ends the job.
EndsOnFullBatch(w) ==
    IF AllFailed(w) THEN "blocked" ELSE "completed"

\* Mutant: after a full batch the worker keeps the job for its next call.
KeepsTheJob(w) ==
    IF AllFailed(w) THEN "blocked" ELSE IF full[w] THEN "processing" ELSE "completed"

NextStatus(w) ==
    IF AllFailed(w) THEN "blocked"
    ELSE IF full[w] THEN "pending" ELSE "completed"

\* The worker forgets the job.
Leave(w) ==
    /\ Goto(w, "idle")
    /\ last' = [last EXCEPT ![w] = 0]
    /\ left' = [left EXCEPT ![w] = {}]
    /\ full' = [full EXCEPT ![w] = FALSE]
    /\ updated' = [updated EXCEPT ![w] = 0]
    /\ failures' = [failures EXCEPT ![w] = 0]

\* update_one on the _id: status, cursor and counts, whatever the row says now.
Finish(w) ==
    /\ At(w, "embed") /\ left[w] = {}
    /\ status' = NextStatus(w)
    /\ cursor' = last[w]
    /\ updatedCount' = updatedCount + updated[w]
    /\ Leave(w)
    /\ UNCHANGED <<force, careful, scope, profiled, requeues, history>>

\* An exception outside the embedder: block_embedding_backfill_job.
Block(w) ==
    /\ At(w, "find") \/ At(w, "embed")
    /\ status' = "blocked"
    /\ Leave(w)
    /\ UNCHANGED <<force, careful, cursor, updatedCount, scope, profiled, requeues, history>>

Crash(w) ==
    /\ ~At(w, "idle")
    /\ Leave(w)
    /\ stranded' = TRUE
    /\ UNCHANGED <<jobVars, profiled, requeues, embedded, failed>>

\* requeue_processing_embedding_backfill_job
Requeue ==
    /\ requeues < MaxRequeues
    /\ status = "processing"
    /\ careful => \A w \in Worker : At(w, "idle")
    /\ status' = "pending"
    /\ requeues' = requeues + 1
    /\ UNCHANGED <<force, careful, cursor, updatedCount, scope, profiled, workerVars, history>>

WorkerNext(w) ==
    \/ Claim(w) \/ Find(w) \/ Finish(w) \/ Block(w)
    \/ \E n \in Node : Embed(w, n) \/ EmbedFails(w, n)

Next ==
    \/ \E w \in Worker : WorkerNext(w) \/ Crash(w)
    \/ Requeue

Spec == Init /\ [][Next]_vars

\* process-embedding-backfill is run until the job settles.
FairSpec == Spec /\ \A w \in Worker : WF_vars(WorkerNext(w))

-------------------------------------------------------------------------------
(* Properties *)

\* Types of the job, the nodes and the workers.
TypeOK ==
    /\ force \in BOOLEAN /\ careful \in BOOLEAN
    /\ status \in JobStatus
    /\ cursor \in Node \cup {0}
    /\ updatedCount \in Nat /\ scope \in Nat /\ requeues \in Nat
    /\ profiled \subseteq Node /\ embedded \subseteq Node /\ failed \subseteq Node
    /\ pc \in [Worker -> {"idle", "find", "embed"}]
    /\ last \in [Worker -> Node \cup {0}]
    /\ left \in [Worker -> SUBSET Node]
    /\ full \in [Worker -> BOOLEAN]
    /\ updated \in [Worker -> Nat]
    /\ failures \in [Worker -> Nat]
    /\ stranded \in BOOLEAN

\* Nodes the job is through with: embedded by it, present already when it need
\* not replace them, or given up after an embedding error.
Covered == failed \cup IF force THEN embedded ELSE profiled

\* The stored cursor passes no node over: whoever wrote it, every node up to it
\* was embedded or its failure was counted, even when a requeued job is worked
\* on twice at once.
CursorCovers == \A n \in Node : n <= cursor => n \in Covered

\* A job reads "completed" only when no node is left to do.
CompletedCovers == status = "completed" => Node \subseteq Covered

\* docs/development-plan.md: "missing-profile jobs skip profiles already
\* written during replay": outside force mode no node is embedded twice, if jobs
\* are requeued only after an interruption.
ReplaySkipsProfiled ==
    [][\A w \in Worker, n \in Node :
          careful /\ ~force /\ At(w, "embed") /\ updated'[w] = updated[w] + 1 /\ last'[w] = n
             => n \notin profiled]_vars

\* A job that is pending is completed or blocked at last, unless a worker dies.
JobSettles == status = "pending" ~> status \in {"completed", "blocked"} \/ stranded

================================================================================

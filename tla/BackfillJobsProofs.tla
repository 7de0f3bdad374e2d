--------------------------- MODULE BackfillJobsProofs ---------------------------
(***************************************************************************)
(* Theorems about BackfillJobs for any number of nodes, workers and        *)
(* requeues and any batch limit.  The coverage theorems need no care of    *)
(* the operator: they hold when several workers are at the job at once.    *)
(* That a replay embeds nothing twice needs a careful operator and an inva- *)
(* riant of its own, SoleWorker.                                           *)
(***************************************************************************)
EXTENDS BackfillJobs, FiniteSetTheorems, TLAPS

\* A worker is through with all nodes up to `last`; of those behind it, only the
\* ones of its batch, or behind a full batch, may be left to do.
BatchInv ==
    \A w \in Worker :
        /\ \A n \in Node : n <= last[w] => n \in Covered
        /\ At(w, "embed") => \A n \in Node :
              n \in left[w] \/ n \in Covered
              \/ (full[w] /\ n > last[w] /\ \A m \in left[w] : m < n)

BackfillInv == CursorCovers /\ CompletedCovers /\ BatchInv

-------------------------------------------------------------------------------

\* The number of nodes that a scope counts is a number.
LEMMA ScopeIsNat == ASSUME NEW S \in SUBSET Node PROVE Cardinality(S) \in Nat
  <1>1. IsFiniteSet(Node)
    BY BackfillAssumption, FS_Interval DEF Node
  <1>2. IsFiniteSet(S)
    BY <1>1, FS_Subset
  <1>3. QED
    BY <1>2, FS_CardinalityType

\* The initial states have the types.
LEMMA TypeInit == Init => TypeOK
  <1> SUFFICES ASSUME Init PROVE TypeOK
    OBVIOUS
  <1>1. scope \in Nat
    <2>1. (IF force THEN Node ELSE Node \ profiled) \in SUBSET Node
      OBVIOUS
    <2>2. QED
      BY <2>1, ScopeIsNat DEF Init
  <1>2. QED
    BY <1>1 DEF Init, TypeOK, JobStatus

\* Each step keeps the types.
LEMMA TypeStep == TypeOK /\ [Next]_vars => TypeOK'
  <1> SUFFICES ASSUME TypeOK, [Next]_vars PROVE TypeOK'
    OBVIOUS
  <1> USE DEF TypeOK, jobVars, workerVars, history, At, Goto
  <1>1. ASSUME NEW w \in Worker, Claim(w) PROVE TypeOK'
    BY <1>1 DEF Claim, JobStatus
  <1>2. ASSUME NEW w \in Worker, Find(w) PROVE TypeOK'
    BY <1>2 DEF Find, Candidates
  <1>3. ASSUME NEW w \in Worker, NEW n \in Node, Embed(w, n) PROVE TypeOK'
    BY <1>3 DEF Embed, Pass
  <1>4. ASSUME NEW w \in Worker, NEW n \in Node, EmbedFails(w, n) PROVE TypeOK'
    BY <1>4 DEF EmbedFails, Pass
  <1>5. ASSUME NEW w \in Worker, Finish(w) PROVE TypeOK'
    BY <1>5 DEF Finish, Leave, NextStatus, AllFailed, JobStatus
  <1>6. ASSUME NEW w \in Worker, Block(w) PROVE TypeOK'
    BY <1>6 DEF Block, Leave, JobStatus
  <1>7. ASSUME NEW w \in Worker, Crash(w) PROVE TypeOK'
    BY <1>7 DEF Crash, Leave
  <1>8. CASE Requeue
    BY <1>8 DEF Requeue, JobStatus
  <1>9. CASE UNCHANGED vars
    BY <1>9 DEF vars
  <1>10. QED
    BY <1>1, <1>2, <1>3, <1>4, <1>5, <1>6, <1>7, <1>8, <1>9 DEF Next, WorkerNext

\* TypeOK holds of every state of the backfill job, its nodes and its workers.
THEOREM TypeCorrect == Spec => []TypeOK
  <1>1. TypeOK /\ [Next]_vars => TypeOK'
    BY TypeStep
  <1>2. QED
    BY TypeInit, <1>1, PTL DEF Spec

-------------------------------------------------------------------------------

\* What is covered stays covered.
LEMMA CoveredGrows ==
  ASSUME force' = force, profiled \subseteq profiled', embedded \subseteq embedded',
         failed \subseteq failed'
  PROVE  Covered \subseteq Covered'
  BY DEF Covered

\* A batch of the query: what follows the start and is neither in the batch nor
\* behind a full one needs no embedding.
LEMMA BatchRests ==
  ASSUME NEW from \in Node \cup {0}, NEW b \in SUBSET Candidates(from),
         IsBatch(b, Candidates(from)), NEW n \in Node, n > from, n \notin b
  PROVE  n \in Covered \/ (Cardinality(b) = BatchLimit /\ \A m \in b : m < n)
  <1>1. CASE n \in Candidates(from)
    <2>1. Cardinality(b) = BatchLimit
      BY <1>1 DEF IsBatch
    <2>2. \A m \in b : m \in Nat /\ m # n
      BY DEF Candidates, Node
    <2>3. \A m \in b : ~(n < m)
      BY <1>1 DEF IsBatch
    <2>4. QED
      BY <2>1, <2>2, <2>3 DEF Node
  <1>2. CASE n \notin Candidates(from)
    BY <1>2 DEF Candidates, Covered
  <1>3. QED
    BY <1>1, <1>2

\* A freshly created job satisfies the coverage invariant.
LEMMA CoverageInit == Init => BackfillInv
  BY BackfillAssumption
  DEF Init, BackfillInv, CursorCovers, CompletedCovers, BatchInv, At, Node

\* Workers that return, and the requeue, leave the coverage as it is when the
\* row they write is covered.
LEMMA ReturnCovers ==
  ASSUME TypeOK, BackfillInv, NEW w \in Worker, Leave(w),
         UNCHANGED <<force, profiled, embedded, failed>>,
         \A n \in Node : n <= cursor' => n \in Covered,
         status' = "completed" => Node \subseteq Covered
  PROVE  BackfillInv'
  <1>1. Covered' = Covered
    BY DEF Covered
  <1>2. BatchInv'
    BY <1>1 DEF BackfillInv, BatchInv, Leave, Goto, At, TypeOK, Node
  <1>3. QED
    BY <1>1, <1>2 DEF BackfillInv, CursorCovers, CompletedCovers

\* Passing over a node that is covered from now on.
LEMMA PassCovers ==
  ASSUME TypeOK, BackfillInv, NEW w \in Worker, NEW n \in Node,
         At(w, "embed"), Current(w, n), Pass(w, n), n \in Covered',
         Covered \subseteq Covered', UNCHANGED <<jobVars, pc, full>>
  PROVE  BackfillInv'
  <1>1. \A k \in Node : k <= n => k \in Covered'
    <2> TAKE k \in Node
    <2>1. CASE k = n
      BY <2>1
    <2>2. CASE k < n
      <3>1. k \notin left[w]
        BY <2>2 DEF Current, Node
      <3>2. ~ \A m \in left[w] : m < k
        BY <2>2 DEF Current, Node
      <3>3. QED
        BY <3>1, <3>2 DEF BackfillInv, BatchInv
    <2>3. QED
      BY <2>1, <2>2 DEF Node
  <1>2. BatchInv'
    <2> SUFFICES ASSUME NEW v \in Worker
                 PROVE  /\ \A k \in Node : k <= last'[v] => k \in Covered'
                        /\ pc'[v] = "embed" => \A k \in Node :
                              k \in left'[v] \/ k \in Covered'
                              \/ (full'[v] /\ k > last'[v] /\ \A m \in left'[v] : m < k)
      BY DEF BatchInv, At
    <2>1. CASE v = w
      <3>1. last'[w] = n /\ left'[w] = left[w] \ {n} /\ full'[w] = full[w]
        BY DEF Pass, TypeOK
      <3>2. ASSUME NEW k \in Node, k \notin left[w], k \notin Covered
            PROVE  full[w] /\ k > n /\ \A m \in left[w] : m < k
        BY <3>2 DEF BackfillInv, BatchInv, Current, Node
      <3>3. QED
        BY <1>1, <2>1, <3>1, <3>2
    <2>2. CASE v # w
      <3>1. last'[v] = last[v] /\ left'[v] = left[v] /\ full'[v] = full[v] /\ pc'[v] = pc[v]
        BY <2>2 DEF Pass, TypeOK
      <3>2. QED
        BY <3>1 DEF BackfillInv, BatchInv, At
    <2>3. QED
      BY <2>1, <2>2
  <1>3. QED
    BY <1>2 DEF BackfillInv, CursorCovers, CompletedCovers, jobVars

\* Each step keeps the coverage invariant.
LEMMA CoverageStep == TypeOK /\ BackfillInv /\ [Next]_vars => BackfillInv'
  <1> SUFFICES ASSUME TypeOK, BackfillInv, [Next]_vars PROVE BackfillInv'
    OBVIOUS
  <1> USE DEF jobVars, history
  <1>1. ASSUME NEW w \in Worker, Claim(w) PROVE BackfillInv'
    <2>1. Covered' = Covered
      BY <1>1 DEF Claim, Covered
    <2>2. QED
      BY <1>1, <2>1 DEF Claim, Goto, At, TypeOK, BackfillInv, CursorCovers,
         CompletedCovers, BatchInv
  <1>2. ASSUME NEW w \in Worker, Find(w) PROVE BackfillInv'
    <2>1. Covered' = Covered
      BY <1>2 DEF Find, Covered
    <2>2. PICK b \in SUBSET Candidates(last[w]) :
              /\ IsBatch(b, Candidates(last[w]))
              /\ left' = [left EXCEPT ![w] = b]
              /\ full' = [full EXCEPT ![w] = Cardinality(b) = BatchLimit]
      BY <1>2 DEF Find
    <2>3. last[w] \in Node \cup {0} /\ \A n \in Node : n <= last[w] => n \in Covered
      BY DEF TypeOK, BackfillInv, BatchInv
    <2>4. \A n \in Node : n \in b \/ n \in Covered
              \/ ((Cardinality(b) = BatchLimit) /\ n > last[w] /\ \A m \in b : m < n)
      <3> SUFFICES ASSUME NEW n \in Node, n \notin b, n \notin Covered
                   PROVE  (Cardinality(b) = BatchLimit) /\ n > last[w] /\ \A m \in b : m < n
        OBVIOUS
      <3>1. n > last[w]
        BY <2>3 DEF Node
      <3>2. QED
        BY <2>2, <2>3, <3>1, BatchRests
    <2>5. left'[w] = b /\ full'[w] = (Cardinality(b) = BatchLimit) /\ last' = last
      BY <1>2, <2>2 DEF TypeOK, Find
    <2>6. ASSUME NEW v \in Worker, v # w
          PROVE  left'[v] = left[v] /\ full'[v] = full[v] /\ pc'[v] = pc[v]
      BY <1>2, <2>2, <2>6 DEF TypeOK, Find, Goto
    <2>7. BatchInv'
      BY <2>1, <2>3, <2>4, <2>5, <2>6 DEF BackfillInv, BatchInv, At
    <2>8. QED
      BY <1>2, <2>1, <2>7 DEF Find, BackfillInv, CursorCovers, CompletedCovers
  <1>3. ASSUME NEW w \in Worker, NEW n \in Node, Embed(w, n) PROVE BackfillInv'
    <2>1. Covered \subseteq Covered' /\ n \in Covered'
      BY <1>3 DEF Embed, Covered
    <2>2. QED
      BY <1>3, <2>1, PassCovers DEF Embed
  <1>4. ASSUME NEW w \in Worker, NEW n \in Node, EmbedFails(w, n) PROVE BackfillInv'
    <2>1. Covered \subseteq Covered' /\ n \in Covered'
      BY <1>4 DEF EmbedFails, Covered
    <2>2. QED
      BY <1>4, <2>1, PassCovers DEF EmbedFails
  <1>5. ASSUME NEW w \in Worker, Finish(w) PROVE BackfillInv'
    <2>1. \A n \in Node : n <= cursor' => n \in Covered
      BY <1>5 DEF Finish, BackfillInv, BatchInv
    <2>2. status' = "completed" => Node \subseteq Covered
      BY <1>5 DEF Finish, NextStatus, BackfillInv, BatchInv
    <2>3. QED
      BY <1>5, <2>1, <2>2, ReturnCovers DEF Finish
  <1>6. ASSUME NEW w \in Worker, Block(w) PROVE BackfillInv'
    BY <1>6, ReturnCovers DEF Block, BackfillInv, CursorCovers
  <1>7. ASSUME NEW w \in Worker, Crash(w) PROVE BackfillInv'
    BY <1>7, ReturnCovers DEF Crash, BackfillInv, CursorCovers, CompletedCovers
  <1>8. CASE Requeue
    <2>1. Covered' = Covered
      BY <1>8 DEF Requeue, Covered
    <2>2. QED
      BY <1>8, <2>1 DEF Requeue, workerVars, BackfillInv, CursorCovers,
         CompletedCovers, BatchInv, At
  <1>9. CASE UNCHANGED vars
    <2>1. Covered' = Covered
      BY <1>9 DEF vars, Covered
    <2>2. QED
      BY <1>9, <2>1 DEF vars, workerVars, BackfillInv, CursorCovers,
         CompletedCovers, BatchInv, At
  <1>10. QED
    BY <1>1, <1>2, <1>3, <1>4, <1>5, <1>6, <1>7, <1>8, <1>9 DEF Next, WorkerNext

\* BackfillInv holds of every state.
LEMMA CoverageHolds == Spec => []BackfillInv
  BY CoverageInit, CoverageStep, TypeCorrect, PTL DEF Spec

\* The stored cursor never passes over a node that was neither embedded nor
\* counted as a failure, however often the job is requeued while a worker is
\* still at it.
THEOREM CursorIsCovered == Spec => []CursorCovers
  <1>1. BackfillInv => CursorCovers
    BY DEF BackfillInv
  <1>2. QED
    BY <1>1, CoverageHolds, PTL

\* A job is completed only when every node in scope was dealt with.
THEOREM CompletedIsCovered == Spec => []CompletedCovers
  <1>1. BackfillInv => CompletedCovers
    BY DEF BackfillInv
  <1>2. QED
    BY <1>1, CoverageHolds, PTL

-------------------------------------------------------------------------------

\* When no job is requeued under a worker, the worker is alone, and outside force
\* mode what is left of its batch is still to be embedded.
SoleWorker ==
    /\ \A w, v \in Worker : pc[w] # "idle" /\ pc[v] # "idle" => w = v
    /\ \A w \in Worker : pc[w] # "idle" => status = "processing"
    /\ \A w \in Worker : At(w, "embed") /\ ~force => left[w] \cap profiled = {}

\* Each step of a careful operator and the workers keeps SoleWorker.
LEMMA SoleWorkerStep ==
  ASSUME careful, TypeOK, SoleWorker, [Next]_vars
  PROVE  SoleWorker'
  <1> USE DEF SoleWorker, TypeOK, jobVars, history, At, Goto
  <1>1. ASSUME NEW w \in Worker, Claim(w) PROVE SoleWorker'
    BY <1>1 DEF Claim
  <1>2. ASSUME NEW w \in Worker, Find(w) PROVE SoleWorker'
    <2>1. PICK b \in SUBSET Candidates(last[w]) : left' = [left EXCEPT ![w] = b]
      BY <1>2 DEF Find
    <2>2. ~force => b \cap profiled = {}
      BY DEF Candidates
    <2>3. QED
      BY <1>2, <2>1, <2>2 DEF Find
  <1>3. ASSUME NEW w \in Worker, NEW n \in Node, Embed(w, n) PROVE SoleWorker'
    <2>1. left'[w] = left[w] \ {n} /\ pc' = pc /\ status' = status /\ force' = force
      BY <1>3 DEF Embed, Pass
    <2>2. \A v \in Worker : At(v, "embed") => v = w
      BY <1>3 DEF Embed
    <2>3. QED
      BY <1>3, <2>1, <2>2 DEF Embed
  <1>4. ASSUME NEW w \in Worker, NEW n \in Node, EmbedFails(w, n) PROVE SoleWorker'
    BY <1>4 DEF EmbedFails, Pass
  <1>5. ASSUME NEW w \in Worker, Finish(w) PROVE SoleWorker'
    BY <1>5 DEF Finish, Leave
  <1>6. ASSUME NEW w \in Worker, Block(w) PROVE SoleWorker'
    BY <1>6 DEF Block, Leave
  <1>7. ASSUME NEW w \in Worker, Crash(w) PROVE SoleWorker'
    BY <1>7 DEF Crash, Leave
  <1>8. CASE Requeue
    BY <1>8 DEF Requeue, workerVars
  <1>9. CASE UNCHANGED vars
    BY <1>9 DEF vars, workerVars
  <1>10. QED
    BY <1>1, <1>2, <1>3, <1>4, <1>5, <1>6, <1>7, <1>8, <1>9 DEF Next, WorkerNext

\* A step embeds a node outside force mode only if it has no profile yet.
LEMMA EmbedsMissing ==
  ASSUME TypeOK, SoleWorker, [Next]_vars, NEW w \in Worker, NEW n \in Node,
         ~force, At(w, "embed"), updated'[w] = updated[w] + 1, last'[w] = n
  PROVE  n \notin profiled
  <1> USE DEF TypeOK, jobVars, workerVars, history, At
  <1>1. updated[w] \in Nat /\ updated'[w] # 0 /\ updated'[w] # updated[w]
    OBVIOUS
  <1>2. ASSUME NEW v \in Worker, NEW k \in Node, Embed(v, k) PROVE n \notin profiled
    <2>1. v = w
      BY <1>1, <1>2 DEF Embed
    <2>2. k = n /\ k \in left[w]
      BY <1>2, <2>1 DEF Embed, Pass, Current
    <2>3. QED
      BY <2>2 DEF SoleWorker
  <1>3. ASSUME NEW v \in Worker, Claim(v) \/ Find(v) \/ Finish(v) \/ Block(v) \/ Crash(v)
        PROVE  FALSE
    BY <1>1, <1>3 DEF Claim, Find, Finish, Block, Crash, Leave
  <1>4. ASSUME NEW v \in Worker, NEW k \in Node, EmbedFails(v, k) PROVE FALSE
    BY <1>1, <1>4 DEF EmbedFails
  <1>5. CASE Requeue
    BY <1>1, <1>5 DEF Requeue
  <1>6. CASE UNCHANGED vars
    BY <1>1, <1>6 DEF vars
  <1>7. QED
    BY <1>2, <1>3, <1>4, <1>5, <1>6 DEF Next, WorkerNext

\* Nothing changes the kind of operator.
LEMMA CarefulStays == [Next]_vars => careful' = careful
  BY DEF Next, WorkerNext, Claim, Find, Finish, Block, Embed, EmbedFails, Crash,
     Requeue, jobVars, vars

\* Outside force mode a replay after an interruption embeds no node a second
\* time, if the operator requeues only what no worker holds.
THEOREM ReplayEmbedsOnce == Spec => ReplaySkipsProfiled
  <1>1. Init => (careful => SoleWorker)
    BY DEF Init, SoleWorker, At
  <1>2. TypeOK /\ (careful => SoleWorker) /\ [Next]_vars => (careful => SoleWorker)'
    BY SoleWorkerStep, CarefulStays
  <1>3. TypeOK /\ (careful => SoleWorker) /\ [Next]_vars =>
            [\A w \in Worker, n \in Node :
                careful /\ ~force /\ At(w, "embed") /\ updated'[w] = updated[w] + 1 /\ last'[w] = n
                  => n \notin profiled]_vars
    BY EmbedsMissing
  <1>4. QED
    BY <1>1, <1>2, <1>3, TypeCorrect, PTL DEF Spec, ReplaySkipsProfiled
================================================================================

--------------------------- MODULE ParallelBranches ---------------------------
(***************************************************************************)
(* One PARALLEL step in mode concurrent and the MERGE step behind it.      *)
(* planning/constructs.py execute_parallel_step runs one thread per branch *)
(* (planning/parallel_runtime.py run_branches_concurrently); a branch is a *)
(* chain of steps, most of them CALLs, whose handlers append their result  *)
(* to the context bundle of context.artifacts, a field all threads share,  *)
(* and whose exceptions not every construct catches.  For STATE:           *)
(* isolated, planning/executor.py isolated_branch_runner points that field *)
(* at the branch's own snapshot around each call; for STATE: shared, a     *)
(* lock is held around each call.  The MERGE step has rule context_bundle. *)
(***************************************************************************)
EXTENDS Naturals

CONSTANTS
    Branch,     \* branch heads; each starts one thread
    NumCalls,   \* steps of each branch, the head included
    Nested,     \* branches whose head is itself a shared concurrent PARALLEL
    PlanScope,  \* names the artifacts of the plan, against those of a branch
    Nobody      \* the holder of a free lock

ASSUME ParallelAssumption ==
    /\ NumCalls \in Nat \ {0}
    /\ Nested \subseteq Branch
    /\ PlanScope \notin Branch /\ Nobody \notin Branch

Scope == Branch \cup {PlanScope}
Result == Branch \X (1 .. NumCalls)

VARIABLES
    state,     \* "isolated" or "shared", parse_parallel_state
    current,   \* the scope context.artifacts points at
    bundles,   \* tool results in the context bundle of each scope
    saved,     \* what each runner saved of `current`
    lock,      \* holder of shared_parallel_lock
    branchPc,  \* each branch's next step
    done,      \* its completed calls
    outcome,   \* none, completed, blocked, or crashed: an exception ended it
    payload,   \* its bundle when it ended, which MERGE reads
    main,      \* the interpreter: joining, walking on, or through with MERGE
    verdict,   \* outcome of the PARALLEL step
    overlap    \* history: two calls overlapped

threadVars == <<branchPc, done, outcome>>
parallelVars == <<state, current, bundles, saved, lock, threadVars, payload, main, verdict, overlap>>

ParallelInit ==
    /\ state \in {"isolated", "shared"}
    /\ current = PlanScope
    /\ bundles = [x \in Scope |-> {}]
    /\ saved = [b \in Branch |-> PlanScope]
    /\ lock = Nobody
    /\ branchPc = [b \in Branch |-> "ready"]
    /\ done = [b \in Branch |-> 0]
    /\ outcome = [b \in Branch |-> "none"]
    /\ payload = [b \in Branch |-> {}]
    /\ main = "join"
    /\ verdict = "none"
    /\ overlap = FALSE

BranchAt(b, step) == branchPc[b] = step
BranchGoto(b, step) == branchPc' = [branchPc EXCEPT ![b] = step]

InCall(b) == branchPc[b] \in {"swap", "inner", "call", "leave"}

-------------------------------------------------------------------------------
(* A branch thread: execute_branch_subtree over the two runners *)

\* isolated_branch_runner: saved_artifacts = context.artifacts
SaveArtifacts(b) ==
    /\ state = "isolated"
    /\ BranchAt(b, "ready") /\ done[b] < NumCalls
    /\ saved' = [saved EXCEPT ![b] = current]
    /\ overlap' = (overlap \/ \E c \in Branch \ {b} : InCall(c))
    /\ BranchGoto(b, "swap")
    /\ UNCHANGED <<state, current, bundles, lock, done, outcome, payload, main, verdict>>

\* context.artifacts = local_artifacts
Swap(b) ==
    /\ BranchAt(b, "swap")
    /\ current' = b
    /\ BranchGoto(b, "call")
    /\ UNCHANGED <<state, bundles, saved, lock, done, outcome, payload, main, verdict, overlap>>

\* Mutant: the runner of a shared branch without its lock.
AcquireUnlocked(b) ==
    /\ state = "shared"
    /\ BranchAt(b, "ready") /\ done[b] < NumCalls
    /\ lock' = b
    /\ BranchGoto(b, "call")
    /\ UNCHANGED <<state, current, bundles, saved, done, outcome, payload, main, verdict, overlap>>

WantsLock(b) == BranchAt(b, "inner") \/ (BranchAt(b, "ready") /\ done[b] < NumCalls)

\* shared_branch_runner: with lock.  The call of a nested PARALLEL takes the
\* same lock, which is not reentrant, for its own branches.
Acquire(b) ==
    /\ state = "shared"
    /\ WantsLock(b)
    /\ lock = Nobody
    /\ lock' = b
    /\ BranchGoto(b, IF BranchAt(b, "ready") /\ done[b] = 0 /\ b \in Nested THEN "inner" ELSE "call")
    /\ UNCHANGED <<state, current, bundles, saved, done, outcome, payload, main, verdict, overlap>>

\* The handler returns; it appends to the bundle of context.artifacts, as it is now.
RecordResult(b) ==
    /\ BranchAt(b, "call")
    /\ bundles' = [bundles EXCEPT ![current] = @ \cup {<<b, done[b] + 1>>}]
    /\ done' = [done EXCEPT ![b] = @ + 1]
    /\ BranchGoto(b, "leave")
    /\ UNCHANGED <<state, current, saved, lock, outcome, payload, main, verdict, overlap>>

\* The call blocks, or an exception leaves it.
Fail(b) ==
    /\ BranchAt(b, "call")
    /\ \E f \in {"blocked", "crashed"} : outcome' = [outcome EXCEPT ![b] = f]
    /\ BranchGoto(b, "leave")
    /\ UNCHANGED <<state, current, bundles, saved, lock, done, payload, main, verdict, overlap>>

AfterCall(b) == IF outcome[b] = "none" THEN "ready" ELSE "over"

\* Mutant: the lock is not released when the call raises.
LeaveLocked(b) ==
    /\ BranchAt(b, "leave")
    /\ lock' = IF outcome[b] = "crashed" THEN lock ELSE Nobody
    /\ BranchGoto(b, AfterCall(b))
    /\ UNCHANGED <<state, current, bundles, saved, done, outcome, payload, main, verdict, overlap>>

\* Both runners clean up after a call, whatever became of it.
LeaveCall(b) ==
    /\ BranchAt(b, "leave")
    /\ IF state = "isolated"
         THEN current' = saved[b] /\ UNCHANGED lock
         ELSE lock' = Nobody /\ UNCHANGED current
    /\ BranchGoto(b, AfterCall(b))
    /\ UNCHANGED <<state, bundles, saved, done, outcome, payload, main, verdict, overlap>>

\* The chain is at its end: the payload is a copy of the local bundle.
Complete(b) ==
    /\ BranchAt(b, "ready") /\ done[b] = NumCalls
    /\ outcome' = [outcome EXCEPT ![b] = "completed"]
    /\ payload' = [payload EXCEPT ![b] = bundles[b]]
    /\ BranchGoto(b, "over")
    /\ UNCHANGED <<state, current, bundles, saved, lock, done, main, verdict, overlap>>

-------------------------------------------------------------------------------
(* The interpreter *)

\* Mutant: one completed branch is enough.
AnyCompletes == IF \E b \in Branch : outcome[b] = "completed" THEN "completed" ELSE "blocked"

\* The first blocked branch decides the outcome of the step.
Verdict == IF \A b \in Branch : outcome[b] = "completed" THEN "completed" ELSE "blocked"

\* All futures are in; the payloads are stored only for a completed step.
Join ==
    /\ main = "join"
    /\ \A b \in Branch : BranchAt(b, "over")
    /\ verdict' = Verdict
    /\ main' = "walk"
    /\ UNCHANGED <<state, current, bundles, saved, lock, threadVars, payload, overlap>>

\* MERGE depends on the heads: a head counts as completed even if its branch
\* blocked later, but an isolated branch that raised has not passed its set on.
HeadsCompleted ==
    \A b \in Branch : done[b] > 0 /\ (state = "isolated" => outcome[b] # "crashed")

\* execute_merge_step; without the stored payloads where it looks for them, it
\* raises, and so does interpret_plan.
Merge ==
    /\ main = "walk"
    /\ HeadsCompleted
    /\ IF verdict = "completed" /\ current = PlanScope
         THEN /\ bundles' = [bundles EXCEPT ![PlanScope] = @ \cup UNION {payload[b] : b \in Branch}]
              /\ main' = "merged"
         ELSE main' = "raised" /\ UNCHANGED bundles
    /\ UNCHANGED <<state, current, saved, lock, threadVars, payload, verdict, overlap>>

\* MERGE never gets ready.
ReturnUnmerged ==
    /\ main = "walk"
    /\ ~HeadsCompleted
    /\ main' = "over"
    /\ UNCHANGED <<state, current, bundles, saved, lock, threadVars, payload, verdict, overlap>>

-------------------------------------------------------------------------------

BranchNext(b) ==
    \/ SaveArtifacts(b) \/ Swap(b) \/ Acquire(b) \/ RecordResult(b)
    \/ Fail(b) \/ LeaveCall(b) \/ Complete(b)

ParallelNext ==
    \/ \E b \in Branch : BranchNext(b)
    \/ Join \/ Merge \/ ReturnUnmerged

ParallelSpec == ParallelInit /\ [][ParallelNext]_parallelVars

\* Threads are scheduled.  Weak fairness is enough for the lock: every thread
\* takes it a bounded number of times, so it is free for good in the end.
FairParallelSpec ==
    /\ ParallelSpec
    /\ \A b \in Branch : WF_parallelVars(BranchNext(b))
    /\ WF_parallelVars(Join \/ Merge \/ ReturnUnmerged)

-------------------------------------------------------------------------------
(* Properties *)

\* Types of the threads, scopes and the interpreter.
ParallelTypeOK ==
    /\ state \in {"isolated", "shared"}
    /\ current \in Scope
    /\ bundles \in [Scope -> SUBSET Result]
    /\ saved \in [Branch -> Scope]
    /\ lock \in Branch \cup {Nobody}
    /\ branchPc \in [Branch -> {"ready", "swap", "inner", "call", "leave", "over"}]
    /\ done \in [Branch -> 0 .. NumCalls]
    /\ outcome \in [Branch -> {"none", "completed", "blocked", "crashed"}]
    /\ payload \in [Branch -> SUBSET Result]
    /\ main \in {"join", "walk", "merged", "raised", "over"}
    /\ verdict \in {"none", "completed", "blocked"}
    /\ overlap \in BOOLEAN

\* In shared state the handlers of two branches never run at the same time, also
\* after a branch has blocked or crashed.
CallsAreSerial ==
    state = "shared" => \A b, c \in Branch : InCall(b) /\ InCall(c) => b = c

\* After the MERGE step of shared branches the bundle of the plan has the result
\* of every call of every branch.
JoinedAtMerge == state = "shared" /\ main = "merged" => Result \subseteq bundles[PlanScope]

\* Isolation and the join hold as long as the calls of the branches happen not
\* to overlap: a branch's bundle has its own results only, the interpreter goes
\* on with the artifacts of the plan, and MERGE joins every result.
SerialIsIsolated ==
    state = "isolated" /\ ~overlap =>
        /\ \A b \in Branch : \A r \in bundles[b] : r[1] = b
        /\ main # "join" => current = PlanScope
        /\ main = "merged" => Result \subseteq bundles[PlanScope]

\* interpret_plan, "Walk *plan* step-by-step; return updated plan + execution
\* context": the threads of a PARALLEL step end and the walk goes on.
ParallelReturns == main = "join" ~> main \notin {"join", "walk"}

================================================================================

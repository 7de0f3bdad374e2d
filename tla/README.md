# Tirzah in TLA+

Tirzah is a memory and answering service: it takes source documents in, keeps
them as trees of nodes in MongoDB, plans and answers questions over them, and
records what was said.  It is Python code under `src/src/tirzah`.  Nothing in it
uses MongoDB transactions; a request of the web server, a command of the command
line and a worker are threads or processes of their own, and they meet in the
database, in the directories of the inbox and, inside one plan, in the fields of
one Python object.  Whatever is correct here is correct because single-row
updates are atomic, one index is unique and the steps come in the right order.
That is what these modules are about.

Paths below are relative to `src/src/tirzah` unless they start with `src/`.

## 1. Inventory

| Component | Code | State | Operations | Modules |
|---|---|---|---|---|
| Inbox queue and worker | `db/queue.py`, `ingestion/worker.py`, `ingestion/files.py`, loops in `cli.py`, `web/app.py` | rows of `queue` (status, attempts, path, checksum), files of `data/ingest` and where they are moved, archive | `enqueue_source`, `claim_next_pending`, `process_next`, `complete_job`, `reject_job`, `fail_job`, `retry_job`, file moves | `JobLifecycle`, `IngestionQueue` |
| Committing a source | `db/repositories.py` `commit_ingestion`, `db/indexes.py` | `documents`, `trees`, `nodes`, `edges` | lookup by checksum, insert, tree, rollback | in `IngestionQueue`; full rebuild in `DocumentTrees` |
| Human gates | `planning/execution_store.py`, `process/enforcement.py`, `process/instances.py` | rows of `plan_executions`, of `process_instances` | `save_plan_execution`, `load_plan_execution`, `signal_awaiting_step`, `reach_gate`, `resolve_gate`, deviations, start, complete, abandon | `PlanGates` |
| Plan interpreter | `planning/executor.py`, `constructs.py`, `context_bundle.py`, `revision_runtime.py` | step statuses, artifacts, bundle, effects, trace of one execution | `interpret_plan`, `_dispatch_call`, `execute_*_step`, handlers, mid-step revision | `PlanInterpreter`; with rows and operators `PlanGates`; with threads `ParallelBranches` |
| Concurrent branches | `planning/parallel_runtime.py`, `context_bundle.py` | `context.artifacts`, the bundle, one lock | runners, `run_branches_concurrently`, `execute_merge_step` | `ParallelBranches` |
| Profile backfill | `ingestion/embedding_backfill.py`, `backfill_node_embeddings` | rows of `embedding_backfill_jobs` (status, cursor, counts), profiles of nodes | create, claim, batch, next status, block, requeue | `BackfillJobs` |
| Recursive planning loop | `planning/recursive.py`, `outcomes_control.py`, `deborah_bridge.py` | saved revisions, validation, what the planner is told, the result | plan, execute, assess, revise, gate, save, hand off to the specialist | `PlanningLoop` |
| Process templates | `process/templates.py`, `instances.py`, `enforcement.py`, `evolution.py`, `outcomes.py`; `refinement.py`, `selection.py`, `retrospective.py` | versions of templates, instances with their trace | create, revise, start, record, deviate, gate, complete, analyse and propose | `ProcessInstances`, in `PlanningLoop`; reports not modelled |
| Rebuild and epochs | `rebuild_document`, `targeted_rebuild_document`, `ingestion/diff.py` | rows of a tree with their keys, parents, texts, judgements; edges; epochs of document and tree | diff, park keys, write, supersede, link, regenerate and flag edges, restore | targeted: `RebuildDiff`, `TreeRebuild`; full: `DocumentTrees` |
| Review of trees and edges | `promote_tree`, `reject_tree`, candidate queue in `db/repositories.py` | review status of trees and nodes, candidates, reviewed edges | promote, reject, sweep, accept, reject, add an edge | `DocumentTrees`, `SemanticCandidates` |
| Definitions, contradictions | `retrieval/definitions.py`, `contradictions.py` | none of their own | scan, report, queue | what they queue in `SemanticCandidates`; text heuristics are given sets |
| Generated output | `sessions/output_ingestion.py` | rows of `output_ingestion_jobs`, back references of exchanges | queue, claim, commit, link, fail | `SessionMemory`, over `JobLifecycle` |
| Sessions, continuity | `sessions/exchanges.py`, `continuity.py`, `active_documents.py`, `chunks.py`, `background.py`; `registry.py`, `usage.py`, `endorsements.py` | exchanges, latest iteration flag, embeddings, chunks, background queue | save an exchange and what follows it, backfill at startup | `SessionMemory`; single-row bookkeeping not modelled |
| Answer pipeline | `sessions/interaction.py`, `answer_phases.py`, `process_events.py`, `run.py` | one request in progress, its process run, its exchange | direct, agentic, bundled and phased answering, packing, persisting, resuming | `MemoryAgent`, `AnswerPipeline` |
| Deep retrieval | `retrieval/deep.py` | exclusions, useful chunks, scores | plan, search, shortlist, triage, score, pack | `DeepRetrieval`, in `AnswerPipeline` |
| Queries, trust, budgets | `retrieval/queries.py`, `trust.py`, `budget.py`, `graph_explore.py`, `reformulate.py` | none | search, ranking, expansion, trimming | the searches in `MemoryAgent`, `DeepRetrieval`; hybrid ranking and trust not modelled |
| Hoglah runtime | `adapters/hoglah_runtime.py` | results by request id | submit, callback, wait, time out | not modelled |
| Other adapters | `adapters/*.py` | none | call a model | outcome of a call only: it succeeds or raises |
| Web, command line | `web/app.py`, `cli.py` | none of their own | routing, rendering; their loops are in the modules of what they drive | loops only |
| Migrations, health | `migrations.py`, `db/schema.py`, `db/health.py` | ledger of applied migrations | apply in order | not modelled |
| Governance, domains, configuration | `db/governance.py`, `domains/registry.py`, `db/serializers.py`, `config.py` | single rows, process runs | single inserts and lookups | process runs in `AnswerPipeline` |

How they meet.  The user drops files; the enqueue loop turns them into rows; the
worker turns a row into a document or a verdict and moves the file.  A question
starts the planning loop; each revision of its plan is interpreted, saving
progress after every step; an AWAIT step sets the session's process instance to
`awaiting_gate`, and an operator's `resolve_gate` writes a signal into the saved
progress.  A PARALLEL step starts threads that share the interpreter's context.
An answer is saved as an exchange, which may queue a generated-output job, which
is committed like a source.  The backfill job goes over all nodes in batches
while the others write nodes.

What is hard in it, by component (every item with its line in `PROJECT.json`
under `hazards`):

* queue: two enqueue calls and two workers race for one checksum; a worker dies
  between any two writes; a move raises outside every handler; a rollback fails.
* gates: interpreter and operator overwrite each other's copy of a row; gates
  are announced before they are saved; instances leave terminal statuses.
* branches: one context field shared by all threads; a lock that is not
  reentrant; one failing branch among completed siblings.
* backfill: nodes are written one by one and the cursor after the batch; a
  requeued job may have two workers.
* rebuild: rows swap keys under a unique index, in the new layout and in the
  restore; any write may fail, any step may be the last; operators endorse,
  summarise and add edges meanwhile.
* versions: the old tree is superseded before the new one is written; reviewed
  edges are carried by content; a review writes a tree and its nodes apart; a
  sweep reads pairs and queues them later; an acceptance makes an edge and then
  marks the candidate.
* interpreter: constructs run each other's bodies, each with its own rule for what
  another pass resets; the plan may be swapped between two steps.
* planning loop: the planner, the outcomes controller, templates and operators each
  have their own picture of one instance; plans may be revised from outside.
* sessions: eight writes make an exchange; a background queue loses what it has when
  the process dies; two backfills may meet it; output jobs are a second job table.
* answering: three bounded loops around a model that may say anything; a plan may
  retry the answer or be resumed after the exchange was stored.

What makes each correct: a row is held by one worker and a verdict is final; a
checksum has one document; no step runs before what it depends on, and nothing
behind a gate before its release; a MERGE has the results of its branches; a
stored cursor has passed nothing over; a rebuilt tree is the parse, a failed one
is what it was, and a human judgement stays on the text it was about.  A document
has one version that counts, edges follow it or are flagged, verdicts have effect.
An interpretation that is reported ok has left nothing that could run; drifting
work is not called complete; a request has one answer, one exchange and a process
run that tells what became of it, and its prompt is what it says it is.  And every
loop comes to an end.

## 2. Modules

**JobLifecycle** is the abstract promise of a durable job table: inserted once,
begun by a counted claim, ended by a verdict that is final, at most
`MaxAttempts` attempts.

**IngestionQueue** implements it.  `queue` rows are numbered by `created_at`;
`fileAt` says in which directory a file is; `doc[j]` is the document inserted
for row `j`.  Each call to the database or the file system is one action, in
the order of `process_next`: `Claim`, `CheckPath`, `ReadSource`,
`FindDuplicate`, `InsertDocument`, `InsertTree`, the three moves
(`MoveProcessed`, `MoveDuplicate`, `DeadLetter`), the three verdicts
(`CompleteJob`, `RejectJob`, `FailJob`) and `RetryJob`.  An exception that no handler of
`process_next` catches is `Escape`; `Crash` is possible before every step.
`insert_tree_nodes` is one step that succeeds or raises; process-run
bookkeeping, which nothing here reads, is left out.

**PlanGates**.  A row per plan and revision (`Key`), with the `Progress` saved
in it: step statuses, await signals, gate markers, effects of once-only
handlers.  `Begin`, `Round`, `Call`, `SkipDuplicate`, `ReachAwait`,
`LookUpInstance`, `ReachGate`, `SaveStep` and `Finish` are `interpret_plan` in
its order; `FindAwaiting`, `Signal` and `Activate` are `resolve_gate`;
`older` keeps `updated_at`, by which `signal_awaiting_step` picks its row.  Plans have CALL and AWAIT steps; the
other constructs, which touch no row, are `PlanInterpreter`'s.  `Resume` stands for callers that interpret the
same revision again after an interruption: the store's tests do, the planning
loop never does, as every request makes a plan with a fresh id.

**ParallelBranches**.  The threads of one concurrent PARALLEL step, with
`current` for the field `context.artifacts`, `bundle` for what each artifacts
dictionary has gathered, `saved` for the local variable of the isolated runner and
`lock` for `shared_parallel_lock`; then the MERGE step with rule
`context_bundle`.  `execute_concurrent_step` runs its branches through the same
runners and is not modelled apart.

**BackfillJobs**.  One job over `Node`, ordered by `_id`, with its cursor.
`Find` takes the batch, `Embed` and `EmbedFails` go through it, `Finish` writes
status and cursor without looking at the row, `Block` is the exception path and
`Requeue` is the operator.  Nodes are all in scope from the start; invalid
scopes are refused at creation and are left out.

**RebuildDiff** is `diff_ingestion_trees`, without state: `Matching` is the
set whose only member says which row each proposed node continues.  It is stated
by what the three greedy passes settle on, not as a loop.

**TreeRebuild** is `targeted_rebuild_document` for one document with one tree.
`rows` are the `nodes` rows by `_id`, with a key, the parent's key and id, order,
title, text, the text an endorsement is about (`mark`), whether the summary is an
operator's (`sum`) and what its provenance says (`prov`).  `Begin`,
`ReadExisting` and `ReadPrevious` read; `WriteDocument`, `WriteTree`, `Park`
(`free_node_keys_for_layout`), `KeepNode`, `UpdateNode`, `AddNode`, `Supersede`,
`Link`, `DropEdges`, `InsertEdges` and `FlagEdge` are `apply_targeted_rebuild`,
one action per write of a row, loops in their order (`EndLoop` goes to the next);
`Fail` is an exception at any of them and `RestoreDocument` to `RestoreEdges` the
except branch; `Crash` is possible at every step.  `Endorse`, `Summarise` and
`AddReviewedEdge` are operators.  Edges are restored in one step, the restamp of
`origin_date` is left out, and relations have one type.  A document without an
active tree goes to the full rebuild of `DocumentTrees`, which also has two
rebuilds of one document at once.

**PlanInterpreter** is one interpretation of one plan.  A construct at work is a
`Frame` on `stack`, with its body, what is left of the pass, its counters and what
it has gathered; `call` is the step that runs and `phase` where the interpreter
is.  `BeginRound`, `TakeReady`, `BatchDone` and `Record` are the rounds of
`interpret_plan` (`Record` is also where a revised plan may be swapped in);
`RunPlain` to `RunFanOut` are the executors of `constructs.py`, `Visit` and
`VisitControl` their bodies with BREAK and CONTINUE, the `...Pass` actions decide
after a pass of a body whether there is another one, and the `...Notes` actions
take in what a body step returned.  Handlers are modelled by what they do to the
bundle (matches, compiled context, a url, anything else) and return any outcome.
Branches run one after the other here.

**SessionMemory** follows answered turns: `save_exchange` as one action per write
(`pc`), the background queue with its embedding and chunking tasks (`stage`), the
two backfill threads that read what is pending when the server starts, the
output jobs (`jobStatus`, `at`) and `Restart`.  Its output jobs are shown to
implement `JobLifecycle` with one attempt each.

**DocumentTrees** is the versions of one document: `tree`, `layout` and `row` are
the rows of `trees` and `nodes` by version and place, `edges` the graph edges with
their flags.  `BeginRebuild` and what follows is `rebuild_document` write by write
with its except branch, then `promote_tree` and `reject_tree`.  The unique index on
edges may refuse the edges of a tree (`InsertHints`) and those that a restore puts
back (`PutBack`), when another request has made the same edge meanwhile.
**SemanticCandidates** extends it by the queue of pairs: sweeps with their cursor
and dry run, the drift report, the review of a pair in its three writes and edges
made by hand.  `torn` remembers for which document or pair two requests were at
work at once or one died, for the code promises nothing there, and the document's
edges when a failed rebuild could not put them back; `budget` bounds what happens in
a behaviour.

**ProcessInstances** has versions of templates, instances with the trace of what was
recorded on them and operators who read first and write later (`desk`).
**PlanningLoop** extends it by requests: `Open`, `Keep`, `Framed`, `Execute`,
`KeepRevision`, `Interpret`, `AwaitGate`, `Ran`, `Propose`, `Proposed`, `DriftGate`
and `Specialist` are `process_frontend_request` in its order.  One execution is a
step that brings some work: how far each outcome is met by the floor (what the code
computes) and what a model says of it.

**MemoryAgent** is `run_memory_agent_loop`, **DeepRetrieval** is
`run_deep_retrieval` with its packing, and **AnswerPipeline** puts both into the
two phases of an answer, called directly or by the steps of a saved plan.  Nodes
vanish, calls raise, writes fail and the process dies where a `Setting` says so.
`pc` is where `answer_query` or `interpret_plan` is; `work.draft` is the
`AnswerRetrievalPackage` of the phase at work, `work.package` the one a plan keeps;
`runs` and `exchanges` are the two collections.  `abandoned` is history: the process
runs that an exception went past (`DeepRetrievalEscapes`, `DeepSynthesisEscapes`,
`BundleFails`).  A search and the compilation of its matches are separate reads, and
records too long for the prompt are dropped: `ResultsOf` gives every subset of them,
and the best match where none is left (`Shown`).  Packing measures each block twice,
as the code does: in characters (`BlockChars`, with the blank that the code leaves
after the identity of a node without a title) and in tokens (`BlockTokens`), which are
counted from characters or by an encoder, whose counts are a constant (`Encoded`).

The **MC...** modules give the constants of the instances; `BackfillJobs` and
`ParallelBranches` are instantiated by their configurations alone.  `BackfillJobs`, `ParallelBranches` and `TreeRebuild` choose in `Init`
between the ways their code is used (a requeueing operator who waits for the
worker or does not; shared or isolated branches; operators who keep still during
a rebuild or do not), so that one run checks both.  The `...Proofs` modules hold the theorems.

Definitions marked "Mutant" are deliberate mistakes of the kind the code could
have; with one of them in place of the definition it stands next to, the
property named in `PROJECT.json` fails.  They are not part of any specification.

## 3. Runs

Deadlock is not checked in any run: each of these systems goes quiet (no file
left, a plan that waits at a gate, a merged step) and may.

| Run | Instance | States | What it shows |
|---|---|---|---|
| `IngestionQueue` | 2 workers, 2 callers, 1 file, 2 rows of its content, 2 attempts, crashes, files put back | 90,612 | one worker per row, one document per checksum, completed means stored; implements `JobLifecycle`; pending rows are settled |
| `PlanGates` | 1 plan of two gates and two retrievals, 2 revisions, 1 operator, crashes, resumption | 711,074 | nothing runs before the calls and gates it depends on |
| `BackfillJobs` | 3 nodes, batches of 2, 2 workers, 2 requeues, with and without a careful operator | 72,939 | the cursor covers, completed covers, a pending job settles |
| `ParallelBranches` | 2 branches of 2 calls, shared and isolated, with failures | 13,013 | shared calls are serial, MERGE finds all results, the threads end |
| `TreeRebuild` | 1 tree of 2 nodes, 2 rebuilds to any of 3 parses, 1 operator act, failures and crashes at every step | 740,300 | keys never collide, a failed rebuild is undone; one that returns has the layout of the parse, judgements on their text and flags on torn edges |
| `PlanInterpreter` | 19 plans that nest every construct, all outcomes, one revision | 1,729 | calls are due and made once a pass, ok leaves nothing that could run, the interpretation ends |
| `SessionMemory` | 2 turns of one session with one answer, 2 processors, 2 tasks at once, one restart, one feature at a time | 395,732 | output jobs implement `JobLifecycle` and are stored and linked, a session keeps its latest iteration, every turn due is tried |
| `SemanticCandidates` | 1 document of up to 2 nodes in up to 3 versions beside another, 2 requests at once, 10 budgets of what happens | 346,002 | versions are whole, reviewed edges follow or are flagged, verdicts have effect, a failed rebuild leaves no trace |
| `PlanningLoop` | 1 request, 2 operators, 2 outcomes, 4 template contents, 9 configurations, up to 3 revisions | 615,086 | the drift gate is raised exactly for drift that the floor confirms, the planner hears of each execution once, the specialist is called once, every request returns |
| `AnswerPipeline` | 3 nodes of 2 documents, direct, agentic, deep and planned requests, faults, one crash | 201,036 | one exchange per request, the process run tells the outcome, the prompt is honest, the loops keep their rules, every request returns |

Two more runs are expected to be violated; they are in section 4.

Bounds.  Two is the number of workers, callers and branches at which every race
here shows, since each race is between two of them; more add symmetric copies.
Two rows of one checksum are needed for the races over a document: the file is
put back while its first row is at work.  Two attempts have a retry and a giving
up.  Three nodes in batches of two have a full batch and a short one, and, once a
profiled node has left the scope, a last batch that is full.  Two calls per
branch have a head and a step behind it.  The plan of `PlanGates` has a call
between two gates, so that a stale copy can be written back both before and
behind it, a gate that any approval passes and one with a timeout, and a second
retrieval, which is a duplicate unless the first failed.  Both revisions of the
plan may wait at the same step, so an approval has two rows to choose from.  The
parses of `TreeRebuild` are the smallest in which a section is put in between (its
successor's key shifts), two rows swap keys, a child precedes its parent and a
text is rewritten; the second rebuild starts from whatever the first left, dead,
restored or done.  The plans of
`PlanInterpreter` have each construct inside another one at least once, both loop
controls, both kinds of fan-out and each tool whose handler reads what another
wrote.  In `SessionMemory` equal answers make two processors race for one document.
The budgets of `SemanticCandidates` pair the requests that touch the same rows:
rebuild with review, edge with rebuild, rebuild with drift report, sweep with
sweep, sweep with review, two reviews; three versions let an edge be carried twice.
The configurations of `PlanningLoop` have each way the loop ends and each `on_drift`;
its two outcomes and the thresholds 0, 34 and 100 are on either side of every
comparison.  `AnswerPipeline` has budgets into which all chunks fit, with and without
the history; budgets that the history makes too small for all or uses up; one with too
few characters for any whole chunk; and ones with too few tokens, counted two characters
or one to a token or by an encoder, for which one node is dense, one sparse and one
dense at its end, so that each way in which a cut chunk is over its budget occurs.  One
node of three has a title, one is hidden from the active identity, and the plans
answer twice, retry the answer, never retrieve, or retrieve after the answer.  The theorems of
section 5 remove the bounds from the safety properties of every row, of
`PlanInterpreter` from its types only.

The types of the modules of the first five rows are proved (section 5, `TypeCorrect`)
and not checked again; those of the others are checked and proved.

Fairness.  `process-inbox` calls `process_next` until the queue is idle, and
`process-embedding-backfill` is run until the job settles, so workers have weak
fairness; a request runs in a thread until `interpret_plan` returns; branch
threads are scheduled; `Next` of an interpretation, a step of a request and
`Proceed` of an answer go on because nothing else holds their thread; the background
threads of a server that lives do some of their work as long as there is any.
Users, operators, crashes, vanishing nodes, approvals, resumptions and output
processors have none.  No strong fairness is assumed anywhere: for the lock of shared
branches weak fairness is enough, because each thread takes it a bounded number
of times.

## 4. Where code and documents disagree

Two runs are expected to be violated.  Each checks one sentence of the
repository; the counterexample is a behaviour of the code.

| Run | The sentence | What happens |
|---|---|---|
| `PlanGates_durable` | the signal is durable | the interpreter saves its own artifacts over it |
| `ParallelBranches_nested` | the walk returns | a shared PARALLEL inside a shared branch waits for its own lock |

Seen while modelling, and not runs of their own.  Queue, gates and branches:

* The accepted file of a committed document may end elsewhere than in `processed/`
  (`src/docs/build-roadmap.md`): the enqueue loop may refuse it as a duplicate between
  the commit and the move.
* An approval writes the signal, and nothing interprets the approved execution again
  (`src/docs/features.md:50`).
* Isolated branches share the field `context.artifacts` (`planning/executor.py:191`);
  one blocked branch makes the whole step blocked and its siblings' results are
  dropped (`planning/constructs.py:732`, `parallel_runtime.py:30`).
* A late gate or approval makes a completed or abandoned instance active again
  (`process/enforcement.py:169`; `ReachGate` and `Activate` have no guard).
* After a branch failed behind its head, MERGE is ready and raises (`Merge`, whose
  guard looks at the heads only).
* A summary that an operator writes while a rebuild is at work is overwritten, but
  its provenance still says "operator" (`db/repositories.py:632` looks at the row
  that was read at the start).  `JudgementsFit` asks for it only of quiet operators.
* A reviewed edge that is added meanwhile is not flagged although its end is
  rewritten, and one whose end a dead rebuild had rewritten is not flagged by the
  next; `ReviewedEdgesFlagged` is about the edges that the rebuild read and the
  rows it changed.
* The restore of a failed targeted rebuild deletes a reviewed edge that was added
  meanwhile (`db/repositories.py:295`), although
  `src/docs/consolidated-requirements-and-design.md:456` says they are never deleted.

Interpreter and planning loop:

* An ERROR fallback runs at once, whatever its status is and whether or not its
  dependencies are completed (`src/okf/concepts/interpretive-planning.md:17`); one that
  is on the round's ready list too runs a second time from there
  (`planning/executor.py:230` looks at no status again).  An ERROR step in a
  decision's branch inside a loop, with that loop as its fallback, is interpreted
  without end when what it guards fails, until Python raises `RecursionError`: the
  fallback runs the loop, the loop the guard.  `Terminates` is about plans in which no
  fallback leads back to its guard.
* RETRY does not run nested PARALLEL and DECISION bodies anew (docstring at
  `planning/constructs.py:1011`).  Steps that BREAK or CONTINUE cut off are run by the
  main loop later.
* A longer plan swapped in is cut off by the limit on rounds of the first one, and
  the verdict is still "completed" (`planning/executor.py:185`).
* A duplicate effect and a RECURSE are skipped without being completed: what depends
  on them never runs, although the interpretation is ok.
* `complete` is held back only when it is proposed by a revision and the floor finds an
  outcome unmet; a first plan, a mid-step revision, the limit on revisions or drift
  that only a model reports end the request without a gate
  (`src/docs/outcomes-loop-design.md:90`).
* Mid-step revisions are not bounded by `planning_max_revisions`, only the last is
  saved, and the executed plan is saved again under the same revision, which the
  store refuses with a warning.
* Nothing makes versions of a template unique: of two concurrent revisions one
  is never seen as latest (`process/templates.py:113`).  A gate is not what keeps an
  instance paused: a deviation or another gate's approval makes it active.

Sessions, versions and candidates:

* Two overlapping saves of a session leave two latest iterations, one cut off between
  the clearing and the insert leaves none (`sessions/continuity.py:38`; hence `raced`
  and `gaps` in `OneIsLatest`).
* Nothing takes an output job back from processing.  A refused chunk insert still
  marks the exchange as chunked.
* Between a gated rebuild and its promotion a document has no active tree, and rows of
  pending and rejected trees are found by the scans (`retrieval/queries.py:248`
  excludes superseded ones only; `src/README.md:78` says they stay out of retrieval).
* Reviewed edges on a `pending_review` tree are neither carried nor flagged by the next
  full rebuild (`db/repositories.py:166`,
  `src/docs/consolidated-requirements-and-design.md:455`; hence `shown` in
  `EdgesFollow`).
* The restore of a failed full rebuild deletes a reviewed edge that was added
  meanwhile, and fails itself at an edge that the index refuses: it goes no further
  (`db/repositories.py:899`).
* Two overlapping rebuilds of a document undo each other; a review cut off between its
  tree and its nodes is never finished; a candidate whose edge was made before a crash
  can never be accepted (hence `torn`).
* A drift report does not compare its pairs with each other: a pair given twice makes the
  insert raise after its first rows.

Answers:

* A failed answer is kept as the step's result, so a RETRY over the answer step, or a
  resumed execution, returns the failure without asking the adapter again.
* A plan that retrieves and never answers, or retrieves only after its answer, leaves the
  process run of that retrieval active, as does a bundle of which no prompt can be made.
* So does an exception outside the `try` of a deep phase: the identity, the adapter
  (`answer_adapter` raises `ValueError` for an unknown one) and the packing in
  `_retrieve_deep` (`sessions/answer_phases.py:406`, `426`), the history and the packing in
  `_synthesize_deep_and_persist` (`555`).  Without a plan the caller gets the exception;
  in a plan the step is blocked with `handler_failed` (`planning/executor.py:1009`), no
  answer is kept, and a RETRY calls the handler again.  `RunTellsOutcome` lists these
  runs (`abandoned`) and says that no other request has any.
* A save that fails after its insert reports `answer_save_failed` although the
  exchange is stored.
* The diminishing-returns stop of deep retrieval never fires, because `best_score` is
  never passed (`src/okf/concepts/deep-retrieval.md:26`), and candidates beyond the
  shortlist are excluded for the session without having been triaged.
* A chunk that is truncated "so evidence never vanishes" (`pack_synthesis_chunks`) is
  dropped when the history leaves no room.
* A truncated chunk is kept without being measured again (`retrieval/deep.py:719`), so the
  prompt may be over the budget that the docstring bounds it to: by one character when the
  node has no title, because the header is measured after `strip` (the chunk of
  `src/tests/test_budget.py` is one), by one token where tokens are counted from
  characters, by two where a character is a token, and by any number where an encoder
  finds the text denser than `chars_per_token` says.  `IsCutToFit` states the bounds that
  do hold; everything else keeps both budgets.
* What `PromptIsHonest` says of tokens is of blocks measured one by one and added to the
  prompt without them, as the code adds them; an encoder may count the whole
  otherwise.  The budget of characters is of the blocks, without the newlines between.
* The second packing adds to the list of what was left out and does not take the chunk
  from `context_metadata.included`; `truncated_from_chars` of a chunk that is cut twice is
  the length after the first cut.
* A search of which no record could be compiled, or fits, counts its best match as included
  context (`sessions/interaction.py:3978`), of which the prompt has the title and
  the identity only.
* A decision that is done and has calls drops the calls.

## 5. Proofs

Proved by TLAPS for every value of the constants that the named assumptions
(`QueueAssumption`, `GateAssumption`, `BackfillAssumption`,
`PlanAssumption`, `StepAssumption`, `ParallelAssumption`, `BoundAssumption`, `ProposalAssumption`,
`MemoryAssumption`, `TreesAssumption`, `CandidatesAssumption`, `ProcessAssumption`,
`LoopAssumption`, `AgentAssumption`, `DeepAssumption`, `PipelineAssumption`) allow.  These say
only what kind of thing a constant is (a decision of the memory model is what
`parse_memory_agent_decision` lets through), and of a parse that its keys are distinct
and its parents exist: the index on `(tree_id, node_key)` and
`validate_parent_keys` refuse others.

* **IngestionQueueProofs.**  `QueueInv` is `ExclusiveJob` with what it needs:
  rows that were not inserted are blank, inserted ones have a file
  (`AbsentIsBlank`, `RowsHaveFiles`), and a worker's program counter tells what
  its row's document and its archived source look like (`StepImpliesDocument`).
  From it: `ClaimsAreExclusive`,
  `RetriesAreBounded`, `ChecksumsAreUnique`, `CompletedRowsAreStored`, and
  `QueueImplementsLifecycle`, a step-by-step refinement of `JobLifecycle`.
  Exclusiveness comes first because every verdict is written on the row's id alone.
* **PlanExecutionProofs**, about `PlanGates`.  `EffectAfterRelease` is not inductive: a saved row may be
  loaded, a copy written back.  `GateInv` says that everything anyone holds
  (rows, interpreters, the copies of operators) is `Grounded` in what was
  granted, has expired or has run for that row, and that the steps left in a
  round are ready (`TodoIsReady`).  Groundedness only grows with the history, so
  stale copies stay grounded: that is why lost signals and undone saves, which
  the violated runs show, never let a call past its gate.
  About `PlanInterpreter`: `InterpretInv` says that every construct on the stack, its
  body, what is left of a pass and the branches to come are steps of the plan in force
  (`Frames`), which is so because a revised plan is taken only when the stack is empty
  (`InterpretTypeCorrect`).  That the first and the last of some steps exist goes
  through the least size of a set without one.  `LeftInv` ties statuses to what the
  interpreter holds: a completed step is one of `completed_step_ids`, and the only
  active one is that of the ready list, `Root`, the construct at the bottom of the
  stack.  Then a pending step that is not ready waits for one that is barren or itself
  pending, and as the steps of a plan without cycles can be numbered, the least of
  them waits for a barren one (`NothingReadyNothingLeft`).
  About `ParallelBranches`: `SharedInv`: the lock's holder is the only branch in a
  call, and completed calls are in the bundle.  `SerialInv`: while calls have
  not overlapped, `current` is the branch in the call, or the plan.
* **BackfillJobsProofs.**  `BatchInv` ties each worker's batch to the cursor it
  claimed: all up to its `last` is covered, or in what is left of the batch.
  Covered only grows, so the late worker of a requeued job may write an old
  cursor but never a wrong one.  `ReplayEmbedsOnce` needs the careful operator,
  and with it that at most one worker is busy.
* **TreeRebuildProofs.**  `RebuildInv` is inductive: the types, `KeyInv` and
  `RestoreInv`.  `KeyInv` is why no write of a key ever meets another row: once
  the loop of `free_node_keys_for_layout` is over, a key of the new layout is held
  at most by the row that keeps it; while nodes are written, by the row matched to
  a node still to come or by one already placed; in the restore every row has its
  old key or a temporary one that is its own.  Keys that a dead rebuild left are
  covered because a temporary key names its row.  `RestoreInv` says what is already
  back at each step of the restore.  All this holds for
  any parses, and uses of the diff no more than its type.
  `RebuildAlwaysRight` needs the rest of it.  `MatchingAssigns`: the three passes
  extend one assignment of active rows, and a text that is unique on both sides goes
  to its row.  `MakingInv` then follows a rebuild to its end.  `KidInv`: `key_to_id`
  gives each written node its matched row or a new id that no reviewed edge ends at,
  in document order.  `LayoutInv`: each row is as it was read, a placed node's, or
  superseded, and the parents still due are those of nodes whose parent came later
  (`Pending`).  `JudgedInv` and `FoundInv`: judgements fit, and stay on rows that were
  not rewritten.  `EdgeInv`: reviewed edges keep their value until they are flagged,
  and machine edges are the relations of the parse.  At the end the active rows are
  exactly the kids, which gives the count by a bijection.
* **SessionMemoryProofs.**  The types need `StoredFirst`: a task, a backlog and a busy
  thread name only turns that are stored.  `OutputInv` ties each processor to its job
  and its document: a job is held by one processor, whose step tells the job's status
  (`JobsAreHeld`) and how far the document is (`DocsAreHeld`); a rollback therefore
  never takes away a document that another job has completed.  From it:
  `OutputsAreStored` and `OutputsFollowLifecycle`, the refinement of `JobLifecycle`
  with one attempt.  `LatestIsKept` needs `OneAtATime`: in a session that was not raced
  a save between clearing and inserting is the only one there, and finds no latest
  iteration beside it.

* **SemanticCandidatesProofs.**  The four properties speak of a document that nobody is
  at, or of a pair that is not torn, so none is inductive: what is said of a document at
  rest has to be carried through the steps of whoever is at it.  `Touches` gives an
  untorn document, or pair, to one request at a time.  `Judged` is
  `VerdictsHaveEffect` with the one moment at which a pending pair has its edge
  already.  `Layered` says that no row and no end of an edge is where nothing was
  parsed, `Identified` that an id names one edge.  `Versions` says for every next step of a
  rebuild, a restore or a review what the store is in terms of what the request
  has read, and `Endings` which reviewed edges are still to be carried.  From
  them: `VerdictsTakeEffect`, `TreesStayWhole`, `EdgesAlwaysFollow` and
  `FailedRebuildsLeaveNoTrace`.
* **PlanningLoopProofs.**  Requests and operators meet in the instances only, so the
  proof has two halves.  `ProcessInv` types templates, instances and desks:
  whatever an operator has read is still on record when it is written.  `Kept` says of
  every step that no instance loses its content or an event, which is why an
  assessment stays true of the instance it was made under.  `RequestInv` is what a
  request knows at each of its steps: how many executions the planner has been
  told of (`Counted`), that an assessment in use is of the last execution
  (`Assessed`), that a plan in the loop asks to be revised and one at the gate has
  to be held back (`Planned`), and what then holds of a request that is over
  (`Settled`, `Answered`, `Heeded`).  The event of a drift gate may be another
  request's, so `Settled` takes the event from the gate and never the gate from the
  event.

* **AnswerPipelineProofs.**  A request has some thirty actions but does few kinds of
  things to its runs, its exchanges and its progress: `Move` names them (`Begins`,
  `Retrieves`, `HandsBack`, `Stores`, `Saves`, `Dies`, ...), and `Moves` shows that every
  step is one of them.  The invariant is then kept move by move.  `OnceInv`: an exchange
  of this life of the process is the last word of its execution, so an answer is asked
  for only while there is none (`AnsweredAtMostOnce`).  `RunInv`: a phase at work has a
  run of its own, which no kept answer names, so finishing it never changes what another
  answer says; `OpenInv`: where nothing dies and nothing is refused, an active run is
  that of the phase at work, that of the waiting package, or abandoned; `AbandonInv`: only
  runs that were begun are abandoned, and only by deep requests (the move `Escapes`) and
  by bundles, which only a plan that gathers has; `PlanInv`: the phase is
  that of the plan's step.  Together they give `OutcomeIsTold`.  `PackInv`: what is
  packed is in the prompt so far, left out, or still to come, and the characters and tokens
  that the code has added up are those of the blocks kept (`Measured`); `CutMeasured`: a
  chunk that is cut to the room its header leaves is over it by what section 4 says and no
  more, from the rounding of the division that counts tokens; `PackageInv`: every package
  accounts for its useful chunks and claims only what it includes (`PromptsAreHonest`).  `DeepInv` counts the turns of deep retrieval: each
  was an invalid plan or a round, and both run out before the cap of
  `2 * max_iterations + 2` turns does, so the loop always stops for one of its reasons;
  `AgentInv`: who decides anew has results or has logged nothing (`LoopsKeepDiscipline`).
  That the sizes of blocks add up, and that a search has a best match, are inductions
  over a list and over scores; they go through the least number of a set, which exists
  because the naturals are well-founded.

`TypeCorrect` of the modules of the first five rows (of `ParallelBranches` it is
`ParallelTypeCorrect`), `RetriesAreBounded`,
`ReplayEmbedsOnce`, `SerialBranchesJoin`, `RowsAlwaysStay` and `NothingIsTakenBack` prove
properties that no run repeats; every other listed theorem is about a property of a run.

Model-checked only: all liveness, and two things about `PlanInterpreter` which hold of
the plans the runs have, not of every plan.  `NothingReadyNothingLeft` proves
`OkMeansNothingLeft` wherever no step is ready, for every plan without cycles (in a plan
in which two steps wait for each other both stay pending); that no plan of the run is
cut off by the limit on rounds instead, with a step ready, TLC checks.  It is not so of
a fallback that runs a construct a second time.  `CallsAreDue` needs plans whose steps belong to one construct each, and whose
fallback steps are not ready when their guard is: a step that a decision skipped may be
run by the loop that owns it too, after a step behind it was found ready, and a fallback
that is on the ready list itself is run a second time from there.

## 6. Plan and what is not modelled

Done: the modules of section 2.  Left, in this order:

1. Proofs: of `PlanInterpreter`, for the plans that section 5 names, that the limit on
   rounds cuts nothing off, and `CallsAreDue`.
2. `CallbackReceiver`: submit, callback and timeout of `adapters/hoglah_runtime.py`.
3. Migrations, as a ledger that is applied in order.

Not modelled, and why.  Hybrid ranking, trust and the choice of a model's budget are
numbers without a protocol: the models take scores, sizes and budgets as given.  Selection,
refinement and retrospective read and report.  Text heuristics (contradictions,
definitions, labels) are given as sets of pairs.  Registry, usage counts,
endorsements, domains and governance are single inserts and lookups.  Routing,
rendering and the adapters' wire formats are input and output.
`answer_query_deep`, `answer_query_agentic` and `run_deep_answer` have no caller in the program.
In the models one request of a session answers at a time (`AnswerPipeline`), one
execution of a request is a step (`PlanningLoop`), and similarity links between
exchanges are left out (`SessionMemory`).

Smaller things the models leave out, none of which a property tells apart:

* `PlanInterpreter`: every MERGE joins isolated results, the code only those of the rule
  `context_bundle` (`planning/constructs.py:783`); no ERROR step has an unknown `then`, which the
  code reports as `unknown_error_then` (`998`).
* `ProcessInstances`: a revision never empties `outcomes` or `outcomes_loop`, which would
  disarm the loop (`process/templates.py:120`).
* `PlanningLoop`: the score of an assessment is not rounded to three decimals
  (`planning/outcomes.py:275`), and a planner's revision is always higher than the last
  one (`planning/recursive.py:606` ends the loop otherwise).
* `SessionMemory`: an output job and its exchange's link to it are one step, the code
  makes two writes; and the backfill of chunks has its chunker, which the code builds
  outside the `try` around each row (`sessions/interaction.py:1035`).
* `DeepRetrieval`: `chars_per_token` is whole, texts have no blanks at their ends, a chunk
  has either a title and an identity or an identity only.

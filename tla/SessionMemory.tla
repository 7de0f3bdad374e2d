----------------------------- MODULE SessionMemory -----------------------------
(***************************************************************************)
(* What becomes of an answered turn.  sessions/exchanges.py save_exchange  *)
(* writes it in a row of separate steps: the session's count, its domain,  *)
(* the active documents, the exchange, the scores of the nodes used, a job *)
(* for the generated output, the session's latest prompt iteration.  The   *)
(* turn is then embedded and chunked on a background queue that runs one   *)
(* task of a session at a time; what that queue loses is found again by    *)
(* the backfill threads that the web server starts with.  The output job   *)
(* is taken by process_next_output_ingestion, in any process, and becomes  *)
(* a document.  Nothing here is a transaction: every write is an action.   *)
(***************************************************************************)
EXTENDS Naturals, FiniteSets

CONSTANTS
    MaxTurns,     \* bound on the turns that are answered
    Session,
    SessionOf,    \* [Exchange -> Session]
    Text,         \* [Exchange -> Content \cup {Blank}]: query and answer, up to their hash
    Content,
    Blank,        \* the text of an answer that is empty
    Wordless,     \* exchanges whose query is empty
    Node,         \* nodes that answers use
    Rejected,     \* those whose endorsement label is rejected
    DocumentOf,   \* [Node -> documents]
    Uses,         \* [Exchange -> SUBSET Node]
    Processor,    \* running calls of process_next_output_ingestion
    Worker,       \* threads of the background queue
    FeatureSets,  \* the configurations that are looked at
    Limit,        \* rows that a backfill reads
    MaxRestarts   \* bound on how often the server dies

Exchange == 1 .. MaxTurns    \* turns, numbered by created_at

ASSUME MemoryAssumption ==
    /\ MaxTurns \in Nat
    /\ SessionOf \in [Exchange -> Session]
    /\ Text \in [Exchange -> Content \cup {Blank}]
    /\ Blank \notin Content
    /\ Wordless \subseteq Exchange
    /\ Rejected \subseteq Node
    /\ Uses \in [Exchange -> SUBSET Node]
    /\ FeatureSets \subseteq SUBSET {"recall", "chunking", "output"}
    /\ Limit \in Nat \ {0}
    /\ MaxRestarts \in Nat

None == 0    \* no turn, no job

VARIABLES
    features,   \* conversation_semantic_recall, conversation_chunking, an output queue
    pc,         \* the next write of each turn's save_exchange
    dead,       \* processors whose call was cut off
    count,      \* exchange_count of each session
    domains,    \* sessions that have a conversation domain
    active,     \* the active documents of each session
    stored,     \* exchanges that are in the collection
    usage,      \* usage_score of each node
    jobLink,    \* exchanges with an output_ingestion_job_id
    iteration,  \* the prompt iteration of each exchange: none, latest, superseded
    gaps,       \* history: saves that cleared the latest flag and set no other
    raced,      \* history: sessions of which two saves were at their iterations at once
    jobStatus, attempts,  \* the output job of each exchange
    doc,        \* the document of each content: none, part, whole
    outLink,    \* exchanges with an output_document_id
    at, job,    \* each processor's next step and the job it holds
    tasks,      \* tasks of the background queue
    turn, stage,  \* what each worker and each backfill is at
    backlog,    \* what is left of the rows each backfill has read
    embedded, chunked,  \* exchanges with a turn_embedding; with the mark chunked
    stocked,    \* exchanges whose chunks were inserted, once or more
    missed,     \* history: tasks whose last attempt failed, or was cut off
    lives       \* how often the server has died

sessionVars == <<count, domains, active>>
saveVars == <<pc, count, domains, stored, usage, jobLink, iteration, gaps, raced>>
jobVars == <<jobStatus, attempts>>
outputVars == <<doc, outLink, at, job>>
memoryRows == <<turn, stage, backlog, embedded, chunked, stocked>>
taskVars == <<memoryRows, missed>>
vars == <<features, saveVars, dead, active, jobVars, outputVars, tasks, taskVars, lives>>

Backfill == {"embedder", "chunker"}
Actor == Worker \cup Backfill
Kind == [a \in Backfill |-> IF a = "embedder" THEN "embed" ELSE "chunk"]
Feature == [k \in {"embed", "chunk"} |-> IF k = "embed" THEN "recall" ELSE "chunking"]
Task == [turn : Exchange, kind : {"embed", "chunk"}]
First == [k \in {"embed", "chunk"} |-> IF k = "embed" THEN "embed" ELSE "store"]

\* The lifespan of the server starts a backfill for each feature that is on.
Starting(f) == [a \in Actor |-> IF a \in Backfill /\ Feature[Kind[a]] \in f
                                  THEN "start" ELSE "idle"]

Init ==
    /\ features \in FeatureSets
    /\ pc = [e \in Exchange |-> "idle"]
    /\ dead = {}
    /\ count = [s \in Session |-> 0]
    /\ domains = {}
    /\ active = [s \in Session |-> {}]
    /\ stored = {}
    /\ usage = [n \in Node |-> 0]
    /\ jobLink = {}
    /\ iteration = [e \in Exchange |-> "none"]
    /\ gaps = {}
    /\ raced = {}
    /\ jobStatus = [e \in Exchange |-> "absent"]
    /\ attempts = [e \in Exchange |-> 0]
    /\ doc = [c \in Content |-> "none"]
    /\ outLink = {}
    /\ at = [p \in Processor |-> "idle"]
    /\ job = [p \in Processor |-> None]
    /\ tasks = {}
    /\ turn = [a \in Actor |-> None]
    /\ stage = Starting(features)
    /\ backlog = [a \in Backfill |-> {}]
    /\ embedded = {}
    /\ chunked = {}
    /\ stocked = {}
    /\ missed = {}
    /\ lives = 0

-------------------------------------------------------------------------------
(* save_exchange, and the schedulers that answer_phases.py calls after it *)

Touched(s) == [count EXCEPT ![s] = @ + 1]
WithDomain(s) == domains \cup {s}
Activated(s, documents) == [active EXCEPT ![s] = @ \cup documents]
saveRest == <<features, dead, jobVars, outputVars, tasks, taskVars, lives>>
At(e, step) == pc[e] = step
Goto(e, step) == pc' = [pc EXCEPT ![e] = step]
Turns(s) == {e \in Exchange : SessionOf[e] = s}

\* The session's count, the domains of project and conversation and the active
\* documents: upserts that nothing else here reads.
Open(e) ==
    /\ At(e, "idle")
    /\ \A f \in Exchange : f < e => pc[f] # "idle"
    /\ count' = Touched(SessionOf[e])
    /\ domains' = WithDomain(SessionOf[e])
    /\ active' = Activated(SessionOf[e], {DocumentOf[n] : n \in Uses[e]})
    /\ Goto(e, "insert")
    /\ UNCHANGED <<saveRest, stored, usage, jobLink, iteration, gaps, raced>>

InsertExchange(e) ==
    /\ At(e, "insert")
    /\ stored' = stored \cup {e}
    /\ Goto(e, "score")
    /\ UNCHANGED <<saveRest, sessionVars, usage, jobLink, iteration, gaps, raced>>

\* One update_many, which leaves out the nodes that an operator has rejected.
RecordUsage(e) ==
    /\ At(e, "score")
    /\ usage' = [n \in Node |-> IF n \in Uses[e] \ Rejected THEN usage[n] + 1 ELSE usage[n]]
    /\ Goto(e, "queue")
    /\ UNCHANGED <<saveRest, sessionVars, stored, jobLink, iteration, gaps, raced>>

\* A job for a generated output that is not empty, and its id in the exchange.
Queued(e) == "output" \in features /\ Text[e] # Blank
QueueOutput(e) ==
    /\ At(e, "queue")
    /\ IF Queued(e)
         THEN /\ jobStatus' = [jobStatus EXCEPT ![e] = "pending"]
              /\ jobLink' = jobLink \cup {e}
         ELSE UNCHANGED <<jobStatus, jobLink>>
    /\ Goto(e, "clear")
    /\ UNCHANGED <<features, dead, attempts, outputVars, tasks, taskVars, lives,
                   sessionVars, stored, usage, iteration, gaps, raced>>

\* Mutant: the old iterations keep their flag.
KeepsFlags(e) == iteration

Cleared(e) ==
    [f \in Exchange |-> IF SessionOf[f] = SessionOf[e] /\ iteration[f] = "latest"
                          THEN "superseded" ELSE iteration[f]]

ClearLatest(e) ==
    /\ At(e, "clear")
    /\ iteration' = Cleared(e)
    /\ raced' = IF \E f \in Turns(SessionOf[e]) : At(f, "iterate")
                  THEN raced \cup {SessionOf[e]} ELSE raced
    /\ Goto(e, "iterate")
    /\ UNCHANGED <<saveRest, sessionVars, stored, usage, jobLink, gaps>>

InsertIteration(e) ==
    /\ At(e, "iterate")
    /\ iteration' = [iteration EXCEPT ![e] = "latest"]
    /\ Goto(e, "schedule")
    /\ UNCHANGED <<saveRest, sessionVars, stored, usage, jobLink, gaps, raced>>

\* An exception at the iteration is written into the exchange; the answer goes on.
IterationFails(e) ==
    /\ At(e, "clear") \/ At(e, "iterate")
    /\ gaps' = IF At(e, "iterate") THEN gaps \cup {e} ELSE gaps
    /\ Goto(e, "schedule")
    /\ UNCHANGED <<saveRest, sessionVars, stored, usage, jobLink, iteration, raced>>

\* Any other exception ends the save: the answer is lost to the user, what was
\* written stays, and nothing is scheduled.
SaveFails(e) ==
    /\ At(e, "insert") \/ At(e, "score") \/ At(e, "queue")
    /\ Goto(e, "failed")
    /\ UNCHANGED <<saveRest, sessionVars, stored, usage, jobLink, iteration, gaps, raced>>

\* A task for each feature that is on; submit may raise, which the schedulers swallow.
Schedule(e) ==
    /\ At(e, "schedule")
    /\ \E T \in SUBSET {t \in Task : t.turn = e /\ Feature[t.kind] \in features} :
           tasks' = tasks \cup T /\ missed' = missed \ T
    /\ Goto(e, "done")
    /\ UNCHANGED <<features, dead, jobVars, outputVars, memoryRows, lives,
                   sessionVars, stored, usage, jobLink, iteration, gaps, raced>>

SaveStep(e) ==
    \/ Open(e) \/ InsertExchange(e) \/ RecordUsage(e) \/ QueueOutput(e)
    \/ ClearLatest(e) \/ InsertIteration(e) \/ IterationFails(e)
    \/ SaveFails(e) \/ Schedule(e)

-------------------------------------------------------------------------------
(* The background queue and the backfill threads *)

memoryVars == <<features, saveVars, dead, active, jobVars, outputVars, lives>>

\* The queue runs one task of a session at a time, the most urgent first.
Busy(s) == \E w \in Worker : turn[w] # None /\ SessionOf[turn[w]] = s
Free == {t \in tasks : ~ Busy(SessionOf[t.turn])}
Take(w, t) ==
    /\ stage[w] = "idle"
    /\ t \in Free
    /\ t.kind = "embed" \/ ~ \E u \in Free : u.kind = "embed"
    /\ tasks' = tasks \ {t}
    /\ turn' = [turn EXCEPT ![w] = t.turn]
    /\ stage' = [stage EXCEPT ![w] = First[t.kind]]
    /\ UNCHANGED <<memoryVars, backlog, embedded, chunked, stocked, missed>>

Newest(S) == CHOOSE e \in S : \A f \in S : f <= e

\* find without the mark, newest first, up to the limit; rows without a query are
\* left out only then.
Pending(done) ==
    {e \in stored \ done :
        Cardinality({f \in stored \ done : f > e}) < Limit} \ Wordless

\* The next row of a backfill, or its end; a worker takes its next task from the queue.
Proceed(a, left) ==
    IF left # {}
      THEN /\ turn' = [turn EXCEPT ![a] = Newest(left)]
           /\ stage' = [stage EXCEPT ![a] = First[Kind[a]]]
           /\ backlog' = [backlog EXCEPT ![a] = left \ {Newest(left)}]
      ELSE /\ turn' = [turn EXCEPT ![a] = None]
           /\ stage' = [stage EXCEPT ![a] = "idle"]
           /\ backlog' = IF a \in Backfill THEN [backlog EXCEPT ![a] = {}] ELSE backlog

\* Mutant: an exception ends the backfill's loop.
BreaksOff(a) == Proceed(a, {})

\* The loop of a backfill goes on after an exception, and a worker is free again.
NextTurn(a) == Proceed(a, IF a \in Backfill THEN backlog[a] ELSE {})

ReadPending(a) ==
    /\ stage[a] = "start"
    /\ \E rows \in {Pending(IF a = "embedder" THEN embedded ELSE chunked)} :
           /\ Proceed(a, rows)
           /\ missed' = missed \ {[turn |-> e, kind |-> Kind[a]] : e \in rows}
    /\ UNCHANGED <<memoryVars, tasks, embedded, chunked, stocked>>

Embed(a) ==
    /\ stage[a] = "embed"
    /\ embedded' = embedded \cup {turn[a]}
    /\ NextTurn(a)
    /\ UNCHANGED <<memoryVars, tasks, chunked, stocked, missed>>

\* The embedder, the chunker's adapter or the database raises.
TurnFails(a) ==
    /\ stage[a] \in {"embed", "store"}
    /\ missed' = missed \cup {[turn |-> turn[a],
                               kind |-> IF stage[a] = "embed" THEN "embed" ELSE "chunk"]}
    /\ NextTurn(a)
    /\ UNCHANGED <<memoryVars, tasks, embedded, chunked, stocked>>

\* insert_many may raise, which store_chunks swallows.
StoreChunks(a) ==
    /\ stage[a] = "store"
    /\ stocked' \in {stocked, stocked \cup {turn[a]}}
    /\ stage' = [stage EXCEPT ![a] = "mark"]
    /\ UNCHANGED <<memoryVars, tasks, turn, backlog, embedded, chunked, missed>>

MarkChunked(a) ==
    /\ stage[a] = "mark"
    /\ chunked' = chunked \cup {turn[a]}
    /\ NextTurn(a)
    /\ UNCHANGED <<memoryVars, tasks, embedded, stocked, missed>>

MarkFails(a) ==
    /\ stage[a] = "mark"
    /\ missed' = missed \cup {[turn |-> turn[a], kind |-> "chunk"]}
    /\ NextTurn(a)
    /\ UNCHANGED <<memoryVars, tasks, embedded, chunked, stocked>>

TurnStep(a) ==
    \/ Embed(a) \/ TurnFails(a) \/ StoreChunks(a) \/ MarkChunked(a) \/ MarkFails(a)

\* A turn waits for its task.
Due(t) ==
    \/ t \in tasks
    \/ \E a \in Backfill : Kind[a] = t.kind /\ t.turn \in backlog[a]

\* The server dies and starts again: its threads and the background queue are gone,
\* the backfills start over.
Restart ==
    /\ lives < MaxRestarts
    /\ lives' = lives + 1
    /\ pc' = [e \in Exchange |-> IF pc[e] \in {"idle", "done"} THEN pc[e] ELSE "failed"]
    /\ gaps' = gaps \cup {e \in Exchange : pc[e] = "iterate"}
    /\ tasks' = {}
    /\ turn' = [a \in Actor |-> None]
    /\ stage' = Starting(features)
    /\ backlog' = [a \in Backfill |-> {}]
    /\ missed' = missed \cup {t \in Task : Due(t) \/ \E a \in Actor : turn[a] = t.turn}
    /\ UNCHANGED <<features, dead, count, domains, active, stored, usage, jobLink, iteration, raced,
                   jobVars, outputVars, embedded, chunked, stocked>>

-------------------------------------------------------------------------------
(* process_next_output_ingestion *)

outputRest == <<features, saveVars, tasks, taskVars, lives>>

Step(p, from, to) ==
    /\ at[p] = from
    /\ p \notin dead
    /\ at' = [at EXCEPT ![p] = to]

TextOf(p) == Text[job[p]]

\* Mutant: the claim does not look at the status.
ClaimableTwice(e) == jobStatus[e] \in {"pending", "processing"}

Claimable(e) == jobStatus[e] = "pending"

\* find_one_and_update, by the job's id, by its session or the oldest.
ClaimOutput(p, e) ==
    /\ Claimable(e)
    /\ Step(p, "idle", "find")
    /\ job' = [job EXCEPT ![p] = e]
    /\ jobStatus' = [jobStatus EXCEPT ![e] = "processing"]
    /\ attempts' = [attempts EXCEPT ![e] = @ + 1]
    /\ UNCHANGED <<outputRest, dead, active, doc, outLink>>

FindDuplicate(p) ==
    /\ Step(p, "find", IF doc[TextOf(p)] # "none" THEN "reject" ELSE "insert")
    /\ UNCHANGED <<outputRest, dead, active, jobVars, doc, outLink, job>>

\* Mutant: no unique index on the checksum of documents.
Inserts(c) == TRUE

\* The unique index on the checksum; a refusal is not a DuplicateSourceError.
Absent(c) == doc[c] = "none"

InsertDocument(p) ==
    /\ Step(p, "insert", "tree")
    /\ Absent(TextOf(p))
    /\ doc' = [doc EXCEPT ![TextOf(p)] = "part"]
    /\ UNCHANGED <<outputRest, dead, active, jobVars, outLink, job>>

InsertRefused(p) ==
    /\ Step(p, "insert", "fail")
    /\ ~ Absent(TextOf(p))
    /\ UNCHANGED <<outputRest, dead, active, jobVars, doc, outLink, job>>

InsertTree(p) ==
    /\ Step(p, "tree", "complete")
    /\ doc' = [doc EXCEPT ![TextOf(p)] = "whole"]
    /\ UNCHANGED <<outputRest, dead, active, jobVars, outLink, job>>

TreeFails(p) ==
    /\ Step(p, "tree", "rollback")
    /\ UNCHANGED <<outputRest, dead, active, jobVars, doc, outLink, job>>

Rollback(p) ==
    /\ Step(p, "rollback", "fail")
    /\ doc' = [doc EXCEPT ![TextOf(p)] = "none"]
    /\ UNCHANGED <<outputRest, dead, active, jobVars, outLink, job>>

RollbackFails(p) ==
    /\ Step(p, "rollback", "fail")
    /\ UNCHANGED <<outputRest, dead, active, jobVars, doc, outLink, job>>

\* Mutant: a status that no query knows.
Misnamed(p, verdict) == jobStatus' = [jobStatus EXCEPT ![job[p]] = "complete"]

Settled(p, verdict) == jobStatus' = [jobStatus EXCEPT ![job[p]] = verdict]

RejectOutput(p) ==
    /\ Step(p, "reject", "idle")
    /\ Settled(p, "rejected")
    /\ job' = [job EXCEPT ![p] = None]
    /\ UNCHANGED <<outputRest, dead, active, attempts, doc, outLink>>

FailOutput(p) ==
    /\ Step(p, "fail", "idle")
    /\ Settled(p, "failed")
    /\ job' = [job EXCEPT ![p] = None]
    /\ UNCHANGED <<outputRest, dead, active, attempts, doc, outLink>>

CompleteOutput(p) ==
    /\ Step(p, "complete", "link")
    /\ Settled(p, "completed")
    /\ UNCHANGED <<outputRest, dead, active, attempts, doc, outLink, job>>

LinkOutput(p) ==
    /\ Step(p, "link", "activate")
    /\ outLink' = outLink \cup {job[p]}
    /\ UNCHANGED <<outputRest, dead, active, jobVars, doc, job>>

\* The document of an answer becomes one of the session's active documents.
ActivateOutput(p) ==
    /\ Step(p, "activate", "idle")
    /\ active' = Activated(SessionOf[job[p]], {TextOf(p)})
    /\ job' = [job EXCEPT ![p] = None]
    /\ UNCHANGED <<outputRest, dead, jobVars, doc, outLink>>

\* A processor dies, or an exception outside its handlers ends the call.
Stop(p) ==
    /\ at[p] # "idle"
    /\ dead' = dead \cup {p}
    /\ UNCHANGED <<outputRest, active, jobVars, outputVars>>

OutputStep(p) ==
    \/ \E e \in Exchange : ClaimOutput(p, e)
    \/ FindDuplicate(p) \/ InsertDocument(p) \/ InsertRefused(p) \/ InsertTree(p)
    \/ TreeFails(p) \/ Rollback(p) \/ RollbackFails(p)
    \/ RejectOutput(p) \/ FailOutput(p) \/ CompleteOutput(p) \/ LinkOutput(p)
    \/ ActivateOutput(p) \/ Stop(p)

-------------------------------------------------------------------------------
Background ==
    \/ \E w \in Worker : \E t \in tasks : Take(w, t)
    \/ \E a \in Backfill : ReadPending(a)
    \/ \E a \in Actor : TurnStep(a)

Next ==
    \/ \E e \in Exchange : SaveStep(e)
    \/ Background
    \/ Restart
    \/ \E p \in Processor : OutputStep(p)

Spec == Init /\ [][Next]_vars

\* As long as there is work in the background some of it is done.  Which thread does
\* it need not be said: each has a bounded amount.
FairSpec == Spec /\ WF_vars(Background)

-------------------------------------------------------------------------------
SaveSteps == {"idle", "insert", "score", "queue", "clear", "iterate", "schedule", "done",
              "failed"}
OutputSteps == {"idle", "find", "insert", "tree", "rollback", "reject", "fail", "complete",
                "link", "activate"}

\* Every variable keeps to its type; a pc names a step of save_exchange, a stage a
\* step of a background task.
TypeOK ==
    /\ features \in FeatureSets
    /\ pc \in [Exchange -> SaveSteps]
    /\ dead \subseteq Processor
    /\ count \in [Session -> Nat]
    /\ domains \subseteq Session
    /\ DOMAIN active = Session
    /\ stored \subseteq Exchange
    /\ usage \in [Node -> Nat]
    /\ jobLink \subseteq Exchange
    /\ iteration \in [Exchange -> {"none", "latest", "superseded"}]
    /\ gaps \subseteq Exchange
    /\ raced \subseteq Session
    /\ jobStatus \in [Exchange -> {"absent", "pending", "processing", "completed",
                                   "rejected", "failed"}]
    /\ attempts \in [Exchange -> Nat]
    /\ doc \in [Content -> {"none", "part", "whole"}]
    /\ outLink \subseteq Exchange
    /\ at \in [Processor -> OutputSteps]
    /\ job \in [Processor -> Exchange \cup {None}]
    /\ tasks \subseteq Task
    /\ turn \in [Actor -> Exchange \cup {None}]
    /\ stage \in [Actor -> {"idle", "start", "embed", "store", "mark"}]
    /\ backlog \in [Backfill -> SUBSET Exchange]
    /\ embedded \subseteq stored
    /\ chunked \subseteq stored
    /\ stocked \subseteq Exchange
    /\ missed \subseteq Task
    /\ lives \in 0 .. MaxRestarts

\* The jobs for generated output keep to the life of a job, with one attempt each:
\* claims never hand a job out twice, and verdicts are final.
Lifecycle == INSTANCE JobLifecycle
                WITH Job <- Exchange, MaxAttempts <- 1, status <- jobStatus, attempts <- attempts
OutputLifecycle == Lifecycle!Spec

\* A completed output job has its document, with its tree, and the exchange points to
\* it unless its processor was cut off in between; a content has one processor at most
\* that is writing its document.
OutputIsStored ==
    /\ \A e \in Exchange : jobStatus[e] = "completed" =>
           /\ doc[Text[e]] = "whole"
           /\ e \in outLink \/ \E p \in Processor : job[p] = e /\ at[p] = "link"
    /\ \A p, q \in Processor :
           /\ p # q /\ {at[p], at[q]} \subseteq {"tree", "rollback", "complete"}
           => TextOf(p) # TextOf(q)

\* A session that has prompt iterations has a latest one, unless a save is between
\* clearing the old one and inserting its own or was cut off there; and it has only
\* one, unless two saves of the session were at that point at once.
OneIsLatest ==
    \A s \in Session :
        LET latest == {e \in Turns(s) : iteration[e] = "latest"} IN
        /\ \/ \A e \in Turns(s) : iteration[e] = "none"
           \/ latest # {}
           \/ \E e \in Turns(s) : pc[e] = "iterate" \/ e \in gaps
        /\ Cardinality(latest) > 1 => s \in raced

\* Work on a turn that is on the background queue, or was read by a backfill, is done
\* or has been tried in vain, unless the server dies: neither a turn that fails nor a
\* session with much to do keeps the others from their turn.
Tried(t) ==
    \/ t.turn \in (IF t.kind = "embed" THEN embedded ELSE chunked)
    \/ t \in missed
EveryTurnIsTried == \A t \in Task : Due(t) ~> Tried(t)
================================================================================

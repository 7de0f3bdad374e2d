---------------------------- MODULE AnswerPipeline ----------------------------
(***************************************************************************)
(* A request from its query to its stored exchange.  sessions/             *)
(* answer_phases.py retrieves (directly, with the memory agent or deeply), *)
(* lets the answer adapter answer, saves the exchange and keeps a process  *)
(* run of it all; answer_query calls the two phases one after the other,   *)
(* and the handlers of planning/executor.py call them as steps of a plan   *)
(* whose progress is saved after every step, so that a process that dies   *)
(* is resumed from there.  One request of one session at a time.           *)
(***************************************************************************)
EXTENDS DeepRetrieval

CONSTANTS
    Document,      \* documents, of the nodes in Corpus
    MinScore,      \* DIRECT_CONTEXT_MIN_SCORE
    Setting,       \* requests, and what may go wrong with them
    MaxCrashes     \* bound on the deaths of the process

\* The budgets of the request's model, which is given the prompt without the response.
BudgetPlan ==
    [chars : Nat, available : Nat, tokenizer : {"approx", "tiktoken"}, ratio : Nat \ {0}]

\* A request: its query is small talk, about "this document", about the corpus, or
\* neither; a plan is the steps it has left to a planner; overhead and withHistory
\* are the tokens of its deep prompt without context, and without and with the
\* history of the session; may is what can go wrong.
Request ==
    [mode : {"direct", "agentic", "deep"}, kind : {"low", "reference", "plain", "generic"},
     plan : Seq([kind : {"retrieve", "answer", "search", "compile"}, tries : Nat]),
     focus : Nat, web : {"on", "off"}, scoring : {"on", "off"}, active : Seq(Document),
     budget : BudgetPlan, overhead : Nat, withHistory : Nat,
     may : SUBSET {"raise", "norun", "noupdate", "nosave", "vanish", "crash"}]

ASSUME PipelineAssumption ==
    /\ \A n \in Node : Corpus[n].doc \in Document
    /\ MinScore \in Nat
    /\ Setting \subseteq Request
    /\ MaxCrashes \in Nat

VARIABLES
    setting,    \* the request
    pc,         \* where it is
    active,     \* active documents of the session, the latest first
    runs,       \* process runs
    exchanges,  \* exchanges stored, each with its run
    work,       \* what the request holds in memory
    saved,      \* the execution row: progress of the plan
    reply,      \* what the request returns
    crashes,    \* deaths of the process
    forgotten,  \* history: deaths after an exchange was stored, before it was noted
    abandoned   \* history: runs that an exception went past

requestVars == <<setting, pc, active, runs, exchanges, work, saved, reply, crashes, forgotten,
                abandoned>>
vars == <<agentVars, deepVars, requestVars>>

(***************************************************************************)
(* Request and package                                                     *)
(***************************************************************************)
May(what) == what \in setting.may
Planned == setting.plan # <<>>

NoPackage ==
    [mode |-> None, run |-> 0, selected |-> 0, status |-> None, action |-> None,
     included |-> {}, deep |-> "no", useful |-> <<>>, skipped |-> {}, all |-> {}]

NoReply == [ok |-> None, reason |-> None, run |-> 0, exchange |-> 0]
Reply(ok, reason, run, exchange) ==
    [ok |-> ok, reason |-> reason, run |-> run, exchange |-> exchange]

\* step: the next of the plan; tries: what its RETRY has left; package, answer
\* and bundle: artifacts, with the effects that made them.
NoWork ==
    [step |-> 1, tries |-> 0, package |-> NoPackage, answer |-> NoReply, bundle |-> <<>>,
     retrieved |-> "no", draft |-> NoPackage, outcome |-> None, reason |-> None]

\* What goes into the execution row: the draft of a step under way does not.
Kept(w) == [w EXCEPT !.draft = NoPackage, !.tries = 0]

Goto(l) == pc' = l

Init ==
    /\ AgentInit /\ DeepInit
    /\ setting \in Setting
    /\ active = setting.active
    /\ pc = IF Planned THEN "step" ELSE "retrieve"
    /\ runs = <<>> /\ exchanges = <<>>
    /\ work = NoWork /\ saved = NoWork
    /\ reply = NoReply
    /\ crashes = 0 /\ forgotten = 0 /\ abandoned = {}

idleLoops == <<nodes, agent, deep, pack>>
around == <<setting, crashes, forgotten>>
requestRest == <<around, abandoned>>

(***************************************************************************)
(* The plan: interpret_plan over CALL steps, and their handlers            *)
(***************************************************************************)
PlanStep == setting.plan[work.step]
PlanOver == work.step > Len(setting.plan)

StepEnds(outcome, reason) ==
    /\ work' = [work EXCEPT !.outcome = outcome, !.reason = reason]
    /\ Goto("stepped")

\* tirzah_retrieval
RetrievalStep ==
    /\ pc = "step" /\ ~PlanOver /\ PlanStep.kind = "retrieve"
    /\ IF work.retrieved = "yes" THEN StepEnds("skipped", "duplicate_effect")
       ELSE Goto("retrieve") /\ UNCHANGED work
    /\ UNCHANGED <<idleLoops, requestRest, active, runs, exchanges, saved, reply>>

\* Mutant: a failed answer is asked for again.
AnswerFailedAgain ==
    /\ pc = "step" /\ ~PlanOver /\ PlanStep.kind = "answer"
    /\ CASE work.answer.ok = "yes" -> StepEnds("completed", work.answer.reason)
         [] work.answer.ok # "yes" /\ work.package # NoPackage ->
              /\ work' = [work EXCEPT !.draft = work.package]
              /\ Goto("synthesize")
         [] work.answer.ok # "yes" /\ work.package = NoPackage /\ work.bundle # <<>> ->
              Goto("bundle") /\ UNCHANGED work
         [] OTHER -> StepEnds("blocked", "missing_retrieval_package")
    /\ UNCHANGED <<idleLoops, requestRest, active, runs, exchanges, saved, reply>>

\* answer_adapter_handler: an answer is given again, a failed one too.
AnswerStep ==
    /\ pc = "step" /\ ~PlanOver /\ PlanStep.kind = "answer"
    /\ CASE work.answer # NoReply ->
              StepEnds(IF work.answer.ok = "yes" THEN "completed" ELSE "blocked", work.answer.reason)
         [] work.answer = NoReply /\ work.package # NoPackage ->
              /\ work' = [work EXCEPT !.draft = work.package]
              /\ Goto("synthesize")
         [] work.answer = NoReply /\ work.package = NoPackage /\ work.bundle # <<>> ->
              Goto("bundle") /\ UNCHANGED work
         [] OTHER -> StepEnds("blocked", "missing_retrieval_package")
    /\ UNCHANGED <<idleLoops, requestRest, active, runs, exchanges, saved, reply>>

\* The node that a granular step is about (resolve_focus_node_id): the one asked
\* for, the one compiled last, or the best match of the last search.
FocusOf(bundle) ==
    LET compiled == {i \in DOMAIN bundle : bundle[i].tool = "compile_context"}
        from == IF compiled = {} THEN DOMAIN bundle ELSE compiled
    IN  IF setting.focus # 0 THEN setting.focus
        ELSE IF from = {} THEN 0
        ELSE bundle[CHOOSE i \in from : \A j \in from : j <= i].top

\* The call that a granular step makes.
GatherCall(n) ==
    IF PlanStep.kind = "search" THEN SearchFor(Asked)
    ELSE [SearchFor(Asked) EXCEPT !.tool = "compile_context", !.node = n]

\* search_nodes_handler, compile_context_handler and their like; one that raises is
\* a blocked step (_dispatch_call).
GatherStep ==
    /\ pc = "step" /\ ~PlanOver /\ PlanStep.kind \in {"search", "compile"}
    /\ \/ May("raise") /\ StepEnds("blocked", "handler_failed")
       \/ \E n \in {FocusOf(work.bundle)} : \E r \in ResultsOf(GatherCall(n)) :
              IF PlanStep.kind = "compile" /\ n \notin nodes
              THEN StepEnds("blocked", IF n = 0 THEN "missing_node_id" ELSE "node_not_found")
              ELSE /\ work' = [work EXCEPT !.bundle = Append(@, r), !.outcome = "completed"]
                   /\ Goto("stepped")
    /\ UNCHANGED <<idleLoops, requestRest, active, runs, exchanges, saved, reply>>

\* Mutant: attempts are not counted.
EndStepUncounted ==
    /\ pc = "stepped"
    /\ IF work.outcome = "blocked" /\ work.tries + 1 < PlanStep.tries
       THEN /\ work' = [work EXCEPT !.outcome = None]
            /\ Goto("step") /\ UNCHANGED saved
       ELSE /\ work' = [Kept(work) EXCEPT !.outcome = None,
                            !.step = IF work.outcome = "completed" THEN @ + 1 ELSE Len(setting.plan) + 1]
            /\ saved' = work'
            /\ Goto("step")
    /\ UNCHANGED <<idleLoops, requestRest, active, runs, exchanges, reply>>

\* A RETRY dispatches a blocked step again; a step that stays blocked ends the
\* plan, whose later steps depend on it.
EndStep ==
    /\ pc = "stepped"
    /\ IF work.outcome = "blocked" /\ work.tries + 1 < PlanStep.tries
       THEN /\ work' = [work EXCEPT !.tries = @ + 1, !.outcome = None]
            /\ Goto("step") /\ UNCHANGED saved
       ELSE /\ work' = [Kept(work) EXCEPT !.outcome = None,
                            !.step = IF work.outcome = "completed" THEN @ + 1 ELSE Len(setting.plan) + 1]
            /\ saved' = work'
            /\ Goto("step")
    /\ UNCHANGED <<idleLoops, requestRest, active, runs, exchanges, reply>>

\* The primary result is the answer, or else what was gathered.
EndPlan ==
    /\ pc = "step" /\ Planned /\ PlanOver
    /\ reply' = IF work.answer # NoReply THEN work.answer
                ELSE Reply(IF work.package = NoPackage /\ work.bundle = <<>> THEN "no" ELSE None,
                           work.reason, 0, 0)
    /\ Goto("done")
    /\ UNCHANGED <<idleLoops, requestRest, active, runs, exchanges, work, saved>>

(***************************************************************************)
(* _begin_answer_request                                                   *)
(***************************************************************************)
Mode(asked) ==
    LET mode == IF setting.web = "on" THEN "agentic" ELSE asked
    IN  IF mode = "agentic" /\ setting.focus = 0 /\ setting.kind = "low" THEN "direct" ELSE mode

\* start_answer_process_run: without a run when the store refuses it.
BeginRun(mode) ==
    \/ /\ runs' = Append(runs, [status |-> "active", exchange |-> 0])
       /\ work' = [work EXCEPT !.draft = [NoPackage EXCEPT !.mode = mode, !.run = Len(runs) + 1,
                                                           !.selected = setting.focus]]
    \/ /\ May("norun")
       /\ work' = [work EXCEPT !.draft = [NoPackage EXCEPT !.mode = mode, !.selected = setting.focus]]
       /\ UNCHANGED runs

BeginRetrieval ==
    /\ pc = "retrieve"
    /\ BeginRun(Mode(setting.mode))
    /\ Goto(Mode(setting.mode))
    /\ agent' = IF Mode(setting.mode) = "agentic" THEN AgentStarts ELSE agent
    /\ deep' = IF Mode(setting.mode) = "deep" THEN DeepStarts ELSE deep
    /\ UNCHANGED <<nodes, pack, requestRest, active, exchanges, saved, reply>>

\* finish_answer_process_run: a refused update is passed over.
Finish(run, status, exchange) ==
    IF run = 0 THEN UNCHANGED runs
    ELSE \/ runs' = [runs EXCEPT ![run] = [status |-> status, exchange |-> exchange]]
         \/ May("noupdate") /\ UNCHANGED runs

\* A handler returns the result of a phase; answer_adapter_handler keeps it.
HandlerReturns(answer) ==
    /\ work' = [work EXCEPT
           !.outcome = IF answer.ok = "yes" THEN "completed" ELSE "blocked",
           !.reason = answer.reason,
           !.answer = IF PlanStep.kind = "answer" THEN answer ELSE @]
    /\ Goto("stepped")
    /\ UNCHANGED reply

\* A phase returns: to the plan's step, or to the caller.
PhaseEnds(answer) ==
    IF Planned THEN HandlerReturns(answer)
    ELSE reply' = answer /\ Goto("done") /\ UNCHANGED work

\* A process run is left as it is.
Abandon(run) == abandoned' = abandoned \cup ({run} \ {0})

\* An exception that no phase catches blocks the plan's step (_dispatch_call);
\* without a plan it is what the caller gets.
PhaseRaises ==
    /\ IF Planned THEN StepEnds("blocked", "handler_failed") /\ UNCHANGED reply
       ELSE reply' = Reply("raised", None, 0, 0) /\ Goto("done") /\ UNCHANGED work
    /\ Abandon(work.draft.run)

RetrievalFailed(reason) ==
    /\ Finish(work.draft.run, "blocked", 0)
    /\ PhaseEnds(Reply("no", reason, work.draft.run, 0))

\* retrieve_for_answer returns the package; answer_query goes on with it.
RetrievalEnds(package) ==
    IF Planned
    THEN /\ work' = [work EXCEPT !.draft = NoPackage, !.package = package, !.retrieved = "yes",
                                 !.outcome = "completed"]
         /\ Goto("stepped")
    ELSE /\ work' = [work EXCEPT !.draft = package]
         /\ Goto("synthesize")

(***************************************************************************)
(* _retrieve_direct: prepare_direct_answer_prompt                          *)
(***************************************************************************)
\* ranked_focus_matches always asks the fallback queries too.
FocusMatches(label, doc) ==
    {n \in nodes : /\ Corpus[n].score[Asked] > 0 \/ Asked \in Corpus[n].nearly
                   /\ label \in {None, Corpus[n].label}
                   /\ doc \in {None, Corpus[n].doc}}

Qualified(n) == IF n # 0 /\ Corpus[n].score[Asked] >= MinScore THEN n ELSE 0

SelectFocusNode ==
    LET chunk == Qualified(Top(FocusMatches("source_chunk", None), Asked))
    IN  IF chunk # 0 THEN chunk ELSE Qualified(Top(FocusMatches(None, None), Asked))

\* The best match in an active document, the latest first; without one, the root
\* or the first node of one of them.
MatchIn(doc) ==
    IF FocusMatches("source_chunk", doc) # {} THEN Top(FocusMatches("source_chunk", doc), Asked)
    ELSE Top(FocusMatches(None, doc), Asked)

DefaultIn(doc) ==
    LET all == {n \in nodes : Corpus[n].doc = doc}
        roots == {n \in all : Corpus[n].label = "source_root"}
    IN  IF roots # {} THEN CHOOSE n \in roots : \A m \in roots : n <= m
        ELSE IF all # {} THEN CHOOSE n \in all : \A m \in all : n <= m ELSE 0

FirstNonzero(s) ==
    IF \E i \in DOMAIN s : s[i] # 0
    THEN s[CHOOSE i \in DOMAIN s : s[i] # 0 /\ \A j \in 1 .. i - 1 : s[j] = 0] ELSE 0

\* A later document is looked at only when the earlier ones have no match.
SelectActiveDocumentFocusNode ==
    LET matches == [i \in DOMAIN active |-> MatchIn(active[i])]
        defaults == [i \in DOMAIN active |-> DefaultIn(active[i])]
    IN  IF FirstNonzero(matches) # 0 THEN FirstNonzero(matches) ELSE FirstNonzero(defaults)

\* active_document_reference_query: the query is about "this document".
Refers == setting.kind = "reference"

\* direct_retrieval_decision: the query has terms to search the corpus for.
Searches == setting.kind = "plain"

SelectedNode ==
    CASE setting.focus # 0 -> setting.focus
      [] setting.focus = 0 /\ Refers -> SelectActiveDocumentFocusNode
      [] setting.focus = 0 /\ Searches -> SelectFocusNode
      [] OTHER -> 0

\* Without a node, an excerpt of an active document's source, if it can be read.
Excerpts(n) ==
    IF n = 0 /\ setting.kind # "low" /\ active # <<>> THEN {"yes", "no"} ELSE {"no"}

DirectStatus(n, excerpt) ==
    CASE n # 0 /\ n \in nodes -> "matched_context"
      [] n # 0 /\ n \notin nodes -> "missing_context"
      [] n = 0 /\ excerpt = "yes" -> "active_document_source_fallback"
      [] OTHER -> "no_focus_node"

\* direct_context_controller_decision
DirectAction(n, excerpt) ==
    CASE n # 0 -> "use_repository_context"
      [] n = 0 /\ excerpt = "yes" -> "use_active_document_source_excerpt"
      [] n = 0 /\ excerpt = "no" /\ Searches -> "skip_weak_or_missing_repository_context"
      [] OTHER -> "answer_without_repository_context"

\* A selected node that is gone leaves the prompt without context; of one that is
\* there, the prompt has the records that its budget has room for
\* (render_context_document).
RetrieveDirect ==
    /\ pc = "direct"
    /\ \E n \in {SelectedNode} : \E excerpt \in Excerpts(n) :
       \E records \in SUBSET CompileContext(n) :
           RetrievalEnds([work.draft EXCEPT
               !.selected = n,
               !.included = records,
               !.status = DirectStatus(n, excerpt),
               !.action = DirectAction(n, excerpt)])
    /\ UNCHANGED <<idleLoops, requestRest, active, runs, exchanges, saved, reply>>

RetrieveRaises ==
    /\ May("raise")
    /\ \/ pc = "direct" /\ RetrievalFailed("retrieval_failed")
       \/ pc = "agentic" /\ RetrievalFailed("agentic_retrieval_failed")
       \/ pc = "deep" /\ deep.at = "planning" /\ RetrievalFailed("deep_retrieval_failed")
    /\ agent' = AgentIdle /\ deep' = DeepIdle
    /\ UNCHANGED <<nodes, pack, requestRest, active, exchanges, saved>>

(***************************************************************************)
(* _retrieve_agentic                                                       *)
(***************************************************************************)
RunAgent ==
    /\ pc = "agentic"
    /\ AgentNext
    /\ UNCHANGED <<deepVars, requestVars>>

\* The evidence of an answer that is made of tool results.
Envelope(package, results, claim) ==
    [package EXCEPT !.included = IncludedIn(results), !.status = EvidenceStatus(results),
                    !.action = ControllerAction(results, claim)]

EndAgentic ==
    /\ pc = "agentic" /\ agent.at = "stopped"
    /\ RetrievalEnds(Envelope(work.draft, agent.results, agent.claim))
    /\ agent' = AgentIdle
    /\ UNCHANGED <<nodes, deepVars, requestRest, active, runs, exchanges, saved, reply>>

(***************************************************************************)
(* _retrieve_deep                                                          *)
(***************************************************************************)
RunDeep ==
    /\ pc = "deep"
    /\ \/ DeepNext
       \/ setting.scoring = "on" /\ Score
       \/ setting.scoring = "off" /\ DoNotScore
    /\ UNCHANGED <<agentVars, requestVars>>

PackUseful ==
    /\ pc = "deep" /\ deep.at = "stopped"
    /\ pack' = PackStarts([i \in DOMAIN deep.useful |-> Chunk(deep.useful[i])],
                          setting.budget, setting.overhead)
    /\ Goto("packing")
    /\ UNCHANGED <<agentVars, deep, requestRest, active, runs, exchanges, work, saved, reply>>

PackChunk ==
    /\ pc \in {"packing", "repacking"}
    /\ KeepChunk \/ SkipChunk
    /\ UNCHANGED <<agentVars, requestVars>>

NodesOf(chunks) == {chunks[i].node : i \in DOMAIN chunks}

EndDeep ==
    /\ pc = "packing" /\ pack.todo = <<>>
    /\ RetrievalEnds([work.draft EXCEPT
           !.deep = "yes", !.useful = pack.kept, !.skipped = pack.skipped, !.all = Members(deep.useful),
           !.included = NodesOf(pack.kept),
           !.status = IF pack.kept # <<>> THEN "deep_context" ELSE "deep_no_context"])
    /\ deep' = DeepIdle /\ pack' = PackIdle
    /\ UNCHANGED <<agentVars, requestRest, active, runs, exchanges, saved, reply>>

\* Before the loop: the identity or the adapter; after it: the packing.
DeepRetrievalEscapes ==
    /\ May("raise")
    /\ (pc = "deep" /\ deep = DeepStarts) \/ pc = "packing"
    /\ PhaseRaises
    /\ deep' = DeepIdle /\ pack' = PackIdle
    /\ UNCHANGED <<agentVars, around, active, runs, exchanges, saved>>

(***************************************************************************)
(* build_retrieval_package_from_context_bundle                             *)
(***************************************************************************)
\* _node_id_from_tool_results
LastTop(bundle) ==
    LET tops == {i \in DOMAIN bundle : bundle[i].top # 0}
    IN  IF tops = {} THEN 0 ELSE bundle[CHOOSE i \in tops : \A j \in tops : j <= i].top

BeginBundle ==
    /\ pc = "bundle"
    /\ BeginRun(Mode(setting.mode))
    /\ Goto("envelope")
    /\ UNCHANGED <<idleLoops, requestRest, active, exchanges, saved, reply>>

BuildBundle ==
    /\ pc = "envelope"
    /\ work' = [work EXCEPT !.draft =
                   [Envelope(work.draft, work.bundle, None) EXCEPT
                       !.selected = IF setting.focus # 0 THEN setting.focus ELSE LastTop(work.bundle)]]
    /\ Goto("synthesize")
    /\ UNCHANGED <<idleLoops, requestRest, active, runs, exchanges, saved, reply>>

\* The run that was begun is left as it is.
BundleFails ==
    /\ pc = "envelope" /\ May("raise")
    /\ HandlerReturns(Reply("no", "context_bundle_envelope_failed", 0, 0))
    /\ Abandon(work.draft.run)
    /\ UNCHANGED <<idleLoops, around, active, runs, exchanges, saved>>

(***************************************************************************)
(* synthesize_from_retrieval                                               *)
(***************************************************************************)
\* Deep retrieval leaves a list of useful chunks, an empty one too.
IsDeep(package) == package.deep = "yes"

Repack ==
    /\ pc = "synthesize" /\ IsDeep(work.draft)
    /\ pack' = PackStarts(work.draft.useful, setting.budget, setting.withHistory)
    /\ Goto("repacking")
    /\ UNCHANGED <<agentVars, deep, requestRest, active, runs, exchanges, work, saved, reply>>

\* Mutant: the second packing's list replaces the first's.
EndRepackAnew ==
    /\ pc = "repacking" /\ pack.todo = <<>>
    /\ work' = [work EXCEPT !.draft.useful = pack.kept, !.draft.skipped = pack.skipped]
    /\ pack' = PackIdle
    /\ Goto("ask")
    /\ UNCHANGED <<agentVars, deep, requestRest, active, runs, exchanges, saved, reply>>

\* What is left out now is added to what was left out before.
EndRepack ==
    /\ pc = "repacking" /\ pack.todo = <<>>
    /\ work' = [work EXCEPT !.draft.useful = pack.kept,
                            !.draft.skipped = @ \cup pack.skipped]
    /\ pack' = PackIdle
    /\ Goto("ask")
    /\ UNCHANGED <<agentVars, deep, requestRest, active, runs, exchanges, saved, reply>>

\* The history that cannot be rendered, or the packing.
DeepSynthesisEscapes ==
    /\ May("raise")
    /\ (pc = "synthesize" /\ IsDeep(work.draft)) \/ pc = "repacking"
    /\ PhaseRaises
    /\ pack' = PackIdle
    /\ UNCHANGED <<agentVars, deep, around, active, runs, exchanges, saved>>

Synthesize ==
    /\ pc = "synthesize" /\ ~IsDeep(work.draft)
    /\ Goto("ask")
    /\ UNCHANGED <<idleLoops, requestRest, active, runs, exchanges, work, saved, reply>>

\* Mutant: the run is completed before the exchange is saved.
AdapterCompletes ==
    /\ pc = "ask"
    /\ Finish(work.draft.run, "completed", 0)
    /\ Goto("save")
    /\ UNCHANGED <<idleLoops, requestRest, active, exchanges, work, saved, reply>>

AdapterAnswers ==
    /\ pc = "ask"
    /\ Goto("save")
    /\ UNCHANGED <<idleLoops, requestRest, active, runs, exchanges, work, saved, reply>>

SynthesisFailed(reason) ==
    /\ Finish(work.draft.run, "blocked", 0)
    /\ PhaseEnds(Reply("no", reason, work.draft.run, 0))

AdapterFails ==
    /\ pc = "ask" /\ May("raise")
    /\ SynthesisFailed("answer_adapter_failed")
    /\ UNCHANGED <<idleLoops, requestRest, active, exchanges, saved>>

\* Nodes that the answer used: those of its prompt, and the one in focus.
UsedNodes(package) ==
    (IF IsDeep(package) THEN NodesOf(package.useful) ELSE package.included)
        \cup ({package.selected} \ {0})

\* record_active_documents: each document of a used node comes first, in any order.
Orders(docs) == {s \in UNION {[1 .. k -> docs] : k \in {Cardinality(docs)}} : Members(s) = docs}
Referenced(docs) == {s \o Keeping(active, Members(active) \ docs) : s \in Orders(docs)}
UsedDocuments(package) == {Corpus[n].doc : n \in UsedNodes(package) \cap nodes}

\* Mutant: the exchange names the next run.
SaveForNextRun ==
    /\ pc = "save"
    /\ active' \in Referenced(UsedDocuments(work.draft))
    /\ exchanges' = Append(exchanges, [run |-> Len(runs) + 1, life |-> crashes])
    /\ Goto("saved")
    /\ UNCHANGED <<idleLoops, requestRest, runs, work, saved, reply>>

\* save_exchange: the exchange is stored, with its documents.
SaveExchange ==
    /\ pc = "save"
    /\ active' \in Referenced(UsedDocuments(work.draft))
    /\ exchanges' = Append(exchanges, [run |-> work.draft.run, life |-> crashes])
    /\ Goto("saved")
    /\ UNCHANGED <<idleLoops, requestRest, runs, work, saved, reply>>

\* It raises before the exchange is stored, or something after it does.
SaveFails ==
    /\ May("nosave")
    /\ \/ pc = "save" /\ active' \in {active} \cup Referenced(UsedDocuments(work.draft))
       \/ pc = "saved" /\ UNCHANGED active
    /\ SynthesisFailed("answer_save_failed")
    /\ UNCHANGED <<idleLoops, requestRest, exchanges, saved>>

Answered ==
    /\ pc = "saved"
    /\ Finish(work.draft.run, "completed", Len(exchanges))
    /\ PhaseEnds(Reply("yes", "answered", work.draft.run, Len(exchanges)))
    /\ UNCHANGED <<idleLoops, requestRest, active, exchanges, saved>>

(***************************************************************************)
(* Around the request                                                      *)
(***************************************************************************)
\* The rows of a tree that is taken back disappear.
Vanish ==
    /\ May("vanish") /\ pc # "done"
    /\ \E n \in nodes : nodes' = nodes \ {n}
    /\ nodes = Node
    /\ UNCHANGED <<agent, deepVars, requestVars>>

\* An exchange stored in this life of the process of which no answer was kept.
Unnoted ==
    /\ saved.answer = NoReply
    /\ \E i \in DOMAIN exchanges : exchanges[i].life = crashes

Crash ==
    /\ pc \notin {"done", "down"} /\ crashes < MaxCrashes /\ May("crash")
    /\ crashes' = crashes + 1
    /\ forgotten' = IF Unnoted THEN forgotten + 1 ELSE forgotten
    /\ work' = NoWork
    /\ agent' = AgentIdle /\ deep' = DeepIdle /\ pack' = PackIdle
    /\ Goto("down")
    /\ UNCHANGED <<nodes, setting, active, runs, exchanges, saved, reply, abandoned>>

\* interpret_plan takes up a running execution where it was saved.
Resume ==
    /\ pc = "down" /\ Planned
    /\ work' = saved
    /\ Goto("step")
    /\ UNCHANGED <<idleLoops, requestRest, active, runs, exchanges, saved, reply>>

PlanNext == RetrievalStep \/ AnswerStep \/ GatherStep \/ EndStep \/ EndPlan

RetrievalNext ==
    \/ BeginRetrieval \/ RetrieveDirect \/ RetrieveRaises
    \/ RunAgent \/ EndAgentic
    \/ RunDeep \/ PackUseful \/ PackChunk \/ EndDeep \/ DeepRetrievalEscapes
    \/ BeginBundle \/ BuildBundle \/ BundleFails

SynthesisNext ==
    \/ Repack \/ EndRepack \/ DeepSynthesisEscapes \/ Synthesize \/ AdapterAnswers \/ AdapterFails
    \/ SaveExchange \/ SaveFails \/ Answered

Proceed == PlanNext \/ RetrievalNext \/ SynthesisNext

Next == Proceed \/ Vanish \/ Crash \/ Resume

Spec == Init /\ [][Next]_vars /\ WF_vars(Proceed)

(***************************************************************************)
(* Types                                                                   *)
(***************************************************************************)
Reasons ==
    {None, "duplicate_effect", "missing_retrieval_package", "missing_node_id", "node_not_found",
     "handler_failed", "retrieval_failed", "agentic_retrieval_failed", "deep_retrieval_failed", "answered",
     "context_bundle_envelope_failed", "answer_adapter_failed", "answer_save_failed"}

Replies == [ok : {None, "yes", "no", "raised"}, reason : Reasons, run : Nat, exchange : Nat]

TypeOK ==
    /\ nodes \subseteq Node
    /\ agent.at \in {"idle", "deciding", "calling", "stopped"}
    /\ deep.at \in {"idle", "planning", "scoring", "stopped"}
    /\ pc \in {"step", "stepped", "retrieve", "direct", "agentic", "deep", "packing", "bundle",
               "envelope", "synthesize", "repacking", "ask", "save", "saved", "done", "down"}
    /\ Members(active) \subseteq Document
    /\ runs \in Seq([status : {"active", "blocked", "completed"}, exchange : 0 .. Len(exchanges)])
    /\ exchanges \in Seq([run : 0 .. Len(runs), life : 0 .. MaxCrashes])
    /\ \A w \in {work, saved} : w.answer \in Replies /\ w.package.run \in 0 .. Len(runs)
    /\ reply \in Replies /\ abandoned \subseteq DOMAIN runs

(***************************************************************************)
(* An execution stores one exchange, however often its answer step is      *)
(* retried, a stored exchange is reported as failed, or the execution is   *)
(* resumed; one more only for each death between the storing of an         *)
(* exchange and the saving of the step (answer_adapter_handler).           *)
(***************************************************************************)
AnsweredOnce == Len(exchanges) <= 1 + forgotten

(***************************************************************************)
(* What a finished request says and what the process run it names says are *)
(* the same: completed, with a stored exchange of that run, or blocked.    *)
(* No other run is left active but those of a process that died, of a      *)
(* package that no answer was asked of, those whose update was refused,    *)
(* and those that an exception went past: of deep requests and of bundles  *)
(* of tool results only (finish_answer_process_run, _retrieve_deep and     *)
(* _synthesize_deep_and_persist outside their try,                         *)
(* build_retrieval_package_from_context_bundle).                           *)
(***************************************************************************)
Gathers == \E i \in DOMAIN setting.plan : setting.plan[i].kind \in {"search", "compile"}

RunTellsOutcome ==
    /\ \A r \in DOMAIN runs :
           runs[r].status = "completed" => /\ runs[r].exchange # 0
                                           /\ exchanges[runs[r].exchange].run = r
    /\ pc = "done" /\ reply.run # 0 /\ ~May("noupdate") =>
           runs[reply.run] = [status |-> IF reply.ok = "yes" THEN "completed" ELSE "blocked",
                              exchange |-> reply.exchange]
    /\ pc = "done" /\ ~May("noupdate") /\ crashes = 0 =>
           \A r \in DOMAIN runs :
               runs[r].status = "active" =>
                   (r = work.package.run /\ r # reply.run) \/ r \in abandoned
    /\ abandoned # {} => May("raise") /\ (Mode(setting.mode) = "deep" \/ Gathers)

(***************************************************************************)
(* When a deep answer is asked for, every chunk that retrieval found       *)
(* useful is either in the prompt or listed as left out, and none is both. *)
(* The blocks of the chunks keep the budget of characters, and their       *)
(* tokens, each block measured on its own and added to those of the prompt *)
(* without them, keep what the model has, the history included. Only a     *)
(* single chunk that was cut to fit may not: the cut is made by an         *)
(* estimate and not measured, so that the characters may be one too many   *)
(* when the node has no title, the tokens that are counted from characters *)
(* one too many, or two where each character is a token, and those of an   *)
(* encoder any number (_synthesize_deep_and_persist,                       *)
(* pack_synthesis_chunks).                                                 *)
(***************************************************************************)
Total(sizes) ==
    LET upTo[k \in 0 .. Len(sizes)] == IF k = 0 THEN 0 ELSE upTo[k - 1] + sizes[k]
    IN  upTo[Len(sizes)]

Chars(chunks) == Total([i \in DOMAIN chunks |-> BlockChars(chunks[i])])
Tokens(plan, chunks) == Total([i \in DOMAIN chunks |-> BlockTokens(plan, chunks[i])])

KeepsBudgets(plan, overhead, kept) ==
    /\ Chars(kept) <= plan.chars
    /\ kept # <<>> => overhead + Tokens(plan, kept) <= plan.available

IsCutToFit(plan, overhead, kept) ==
    /\ Len(kept) = 1 /\ kept[1].cut = "yes"
    /\ Chars(kept) <= plan.chars + (IF kept[1].node \in Titled THEN 0 ELSE 1)
    /\ plan.tokenizer = "approx" =>
           overhead + Tokens(plan, kept) <= plan.available + (IF plan.ratio = 1 THEN 2 ELSE 1)

LeftOutIsListed ==
    pc = "ask" /\ IsDeep(work.draft) =>
        /\ NodesOf(work.draft.useful) \cup work.draft.skipped = work.draft.all
        /\ NodesOf(work.draft.useful) \cap work.draft.skipped = {}
        /\ \/ KeepsBudgets(setting.budget, setting.withHistory, work.draft.useful)
           \/ IsCutToFit(setting.budget, setting.withHistory, work.draft.useful)

(***************************************************************************)
(* An agentic or bundled prompt that announces repository context has      *)
(* records of it, or names the best match of a search, whatever the memory *)
(* model claimed or proposed (agentic_context_controller_decision,         *)
(* included_nodes_from_tool_results).                                      *)
(***************************************************************************)
ClaimsWhatItHas ==
    work.draft.action = "use_repository_context"
        /\ work.draft.status \notin {"matched_context", "missing_context"} =>
        work.draft.included # {}

(***************************************************************************)
(* The prompt says what it is: deep answers list what did not fit, and no  *)
(* agentic prompt announces a repository context of which it has nothing   *)
(* (_synthesize_deep_and_persist, agentic_context_controller_decision).    *)
(***************************************************************************)
PromptIsHonest == LeftOutIsListed /\ ClaimsWhatItHas

(***************************************************************************)
(* The two model-driven loops keep to their rules whatever the model says: *)
(* the memory agent falls back to a search of its own at its first tool or *)
(* not at all, and deep retrieval ends for a reason it names and puts no   *)
(* candidate before the model twice (run_memory_agent_loop,                *)
(* run_deep_retrieval).                                                    *)
(***************************************************************************)
LoopsAreDisciplined == FallbackFirst /\ StopIsNamed

(***************************************************************************)
(* Every request returns, if only with an exception, unless its process    *)
(* dies and nobody resumes it.                                             *)
(***************************************************************************)
Returns == <>(pc \in {"done", "down"})

=============================================================================

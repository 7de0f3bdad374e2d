----------------------------- MODULE MemoryAgent -----------------------------
(***************************************************************************)
(* The memory agent of an agentic request: sessions/interaction.py         *)
(* run_memory_agent_loop asks a model which memory tools to call, calls    *)
(* them, and asks again, until the model is done, fails, or its iterations *)
(* are used up; build_agentic_answer_envelope makes the evidence for the   *)
(* answer of the results.  The nodes in the store may change between two   *)
(* calls.  Scores are lexical; the lengths of a context's records and      *)
(* their order are left out.                                               *)
(***************************************************************************)
EXTENDS Naturals, Sequences, FiniteSets

CONSTANTS
    Node,           \* nodes, numbered from the most recently created
    Query,          \* texts that are searched for
    Asked,          \* the query of the request
    Corpus,         \* of each node: its document, label, date, what finds it
    Around,         \* records of the context that is compiled for each node
    Hidden,         \* nodes that the active identity does not see
    Decisions,      \* what the memory model may decide
    WeakScore,      \* weak_match_fallback_score
    MatchLimit,     \* matches of a search
    MaxIterations   \* config.retrieval.memory_agent_max_iterations

None == "none"
MaxCalls == 3       \* tool calls of a decision that are read

\* A call of a memory tool; what it leaves out is None or 0.
Tool == {"search_nodes", "compile_context", "get_document_tree", "web_search", "unknown"}
Label == {None} \cup {Corpus[n].label : n \in Node}
ToolCall == [tool : Tool, query : Query, label : Label, after : Nat, node : Nat]

\* What the memory model may say of the context; any other claim is dropped
\* (normalize_memory_agent_controller_decision).
ContextAction ==
    {"use_repository_context", "answer_without_repository_context",
     "answer_after_memory_tools_without_context", "use_web_context"}

Decision ==
    [status : {"continue", "done"}, calls : Seq(ToolCall), claim : {None} \cup ContextAction]

ASSUME AgentAssumption ==
    /\ Node \subseteq Nat \ {0} /\ IsFiniteSet(Node) /\ Hidden \subseteq Node
    /\ Asked \in Query
    /\ \A n \in Node : Corpus[n].score \in [Query -> Nat]
    /\ Around \in [Node -> SUBSET Node]
    /\ \A n \in Node : n \in Around[n]
    /\ Decisions \subseteq Decision
    /\ {WeakScore, MatchLimit, MaxIterations} \subseteq Nat

VARIABLES
    nodes,    \* nodes that are in the store
    agent     \* the loop

agentVars == <<nodes, agent>>

(***************************************************************************)
(* execute_search_nodes_tool                                               *)
(***************************************************************************)
Above(m, n, q) ==
    \/ Corpus[m].score[q] > Corpus[n].score[q]
    \/ Corpus[m].score[q] = Corpus[n].score[q] /\ m < n

Best(found, q, k) ==
    {n \in found : Cardinality({m \in found : Above(m, n, q)}) < k}

\* Nodes that a search may return whatever its text.
Searchable(label) ==
    {n \in nodes \ Hidden : label \in {None, Corpus[n].label}}

Hits(q, label, after) ==
    {n \in Searchable(label) : Corpus[n].score[q] > 0 /\ Corpus[n].date >= after}

WeakMatch(found, q) == \A n \in found : Corpus[n].score[q] < WeakScore

\* The fallback queries are sent without the dates.
FallbackHits(q, label) == {n \in Searchable(label) : q \in Corpus[n].nearly}

SearchNodes(q, label, after) ==
    LET found == Best(Hits(q, label, after), q, MatchLimit)
    IN  IF WeakMatch(found, q)
        THEN Best(found \cup FallbackHits(q, label), q, MatchLimit)
        ELSE found

CompileContext(n) == IF n \in nodes THEN Around[n] \cap nodes ELSE {}

\* The contexts of the two best matches.
ContextsOf(found, q) == UNION {CompileContext(n) : n \in Best(found, q, 2)}

(***************************************************************************)
(* execute_tool_calls                                                      *)
(***************************************************************************)
\* top: the best match, or the node that a context is about.
Result(tool, ok, top, included) ==
    [tool |-> tool, ok |-> ok, top |-> top, included |-> included]

\* The best of found, 0 without one.
Top(found, q) == IF found = {} THEN 0 ELSE CHOOSE n \in Best(found, q, 1) : TRUE

SearchFor(q) == [tool |-> "search_nodes", query |-> q, label |-> None, after |-> 0, node |-> 0]

\* assemble_search_contexts keeps the records that are short enough and still
\* there; when none is, the best match itself is what the search includes.
Shown(records, top) == IF records = {} THEN {top} \ {0} ELSE records

\* What may come of a call: it is answered, or noted as failed; node 0 is a missing
\* argument.
ResultsOf(call) ==
    LET q == call.query
        found == SearchNodes(q, call.label, call.after)
    IN  CASE call.tool = "search_nodes" ->
               {Result(call.tool, "ok", Top(found, q), Shown(records, Top(found, q))) :
                   records \in SUBSET ContextsOf(found, q)}
          [] call.tool = "compile_context" /\ call.node # 0 ->
               {Result(call.tool, "ok", IF call.node \in nodes THEN call.node ELSE 0,
                       CompileContext(call.node))}
          [] call.tool \in {"get_document_tree", "web_search"} ->
               {Result(call.tool, "ok", 0, {})}
          [] OTHER -> {Result(call.tool, "failed", 0, {})}

(***************************************************************************)
(* run_memory_agent_loop                                                   *)
(***************************************************************************)
AgentIdle ==
    [at |-> "idle", turn |-> 0, todo |-> <<>>, results |-> <<>>, fallback |-> None,
     done |-> 0, log |-> <<>>, claim |-> None, stop |-> None]

AgentInit == nodes = Node /\ agent = AgentIdle

AgentStarts == [AgentIdle EXCEPT !.at = "deciding", !.turn = 1]

\* A model that fails, or an answer that cannot be read, is a search for the query.
DecisionFailed ==
    [status |-> "continue", calls |-> <<SearchFor(Asked)>>, claim |-> None,
     fallback |-> "memory_agent_decision_failed"]

Decided(d) ==
    [status |-> d.status, calls |-> SubSeq(d.calls, 1, IF Len(d.calls) < MaxCalls THEN Len(d.calls) ELSE MaxCalls),
     claim |-> d.claim, fallback |-> None]

FirstSearch(d) ==
    [d EXCEPT !.status = "continue", !.calls = <<SearchFor(Asked)>>,
              !.fallback = "memory_agent_returned_no_initial_tool_calls"]

\* Whether the loop holds tool results: failed ones count.
HasResults(a) == a.results # <<>>

\* The decision about the context that stands is the last one that was given.
LastClaim(a, d) == IF d.claim = None THEN a.claim ELSE d.claim

Noted(a, d, ran) ==
    [a EXCEPT !.log = Append(@, [fallback |-> d.fallback, ran |-> ran]), !.claim = LastClaim(a, d)]

StopAgent(a, reason) == [a EXCEPT !.at = "stopped", !.stop = reason, !.todo = <<>>]

AfterDecision(a, d) ==
    LET e == IF d.calls = <<>> /\ ~HasResults(a) THEN FirstSearch(d) ELSE d
    IN  IF d.fallback # None /\ HasResults(a)
        THEN StopAgent(Noted(a, d, "no"), "memory_agent_failed_after_tool_context")
        ELSE IF e.status = "done" \/ e.calls = <<>>
        THEN StopAgent(Noted(a, e, "no"), "done")
        ELSE [Noted(a, e, "yes") EXCEPT !.at = "calling", !.todo = e.calls,
                  !.fallback = e.fallback, !.done = Len(a.results)]

Decide ==
    /\ agent.at = "deciding"
    /\ \E d \in {Decided(d) : d \in Decisions} \cup {DecisionFailed} :
           agent' = AfterDecision(agent, d)
    /\ UNCHANGED nodes

CallTool ==
    /\ agent.at = "calling" /\ agent.todo # <<>>
    /\ \E r \in ResultsOf(Head(agent.todo)) :
           agent' = [agent EXCEPT !.results = Append(@, r), !.todo = Tail(@)]
    /\ UNCHANGED nodes

\* Some result of the turn is not a failure.
TurnSucceeded(a) == \E i \in a.done + 1 .. Len(a.results) : a.results[i].ok = "ok"

LastTurn(a) == a.turn >= MaxIterations

EndTurn ==
    /\ agent.at = "calling" /\ agent.todo = <<>>
    /\ agent' =
         CASE agent.fallback = "memory_agent_decision_failed" ->
                StopAgent(agent, IF TurnSucceeded(agent) THEN "fallback_context_gathered"
                                 ELSE "fallback_context_unavailable")
           [] LastTurn(agent) /\ agent.fallback # "memory_agent_decision_failed" ->
                StopAgent(agent, "iterations")
           [] OTHER -> [agent EXCEPT !.at = "deciding", !.turn = @ + 1]
    /\ UNCHANGED nodes

AgentNext == Decide \/ CallTool \/ EndTurn

(***************************************************************************)
(* build_agentic_answer_envelope                                           *)
(***************************************************************************)
IncludedIn(results) == UNION {results[i].included : i \in DOMAIN results}
SomeOk(results) == \E i \in DOMAIN results : results[i].ok = "ok"
WebContext(results) ==
    \E i \in DOMAIN results : results[i].ok = "ok" /\ results[i].tool = "web_search"

EvidenceStatus(results) ==
    CASE IncludedIn(results) # {} -> "agentic_tool_context"
      [] IncludedIn(results) = {} /\ WebContext(results) -> "agentic_web_context"
      [] OTHER -> "agentic_no_tool_context"

WithoutContext(results) ==
    IF SomeOk(results) THEN "answer_after_memory_tools_without_context"
    ELSE "answer_without_repository_context"

DerivedAction(results) ==
    CASE IncludedIn(results) # {} -> "use_repository_context"
      [] IncludedIn(results) = {} /\ WebContext(results) -> "use_web_context"
      [] OTHER -> WithoutContext(results)

\* The model's claim stands unless it claims context that is not there.
ControllerAction(results, claim) ==
    LET action == IF claim = None THEN DerivedAction(results) ELSE claim
    IN  IF action = "use_repository_context" /\ IncludedIn(results) = {}
        THEN WithoutContext(results) ELSE action

(***************************************************************************)
(* The loop falls back to a search of its own only before it has run any   *)
(* tool: a model that fails later ends the loop with what was gathered,    *)
(* even if all that was gathered is failures, and no request searches for  *)
(* its own query twice on the loop's account (run_memory_agent_loop).      *)
(***************************************************************************)
FallbackFirst ==
    \A k \in DOMAIN agent.log :
        agent.log[k].fallback # None /\ agent.log[k].ran = "yes" => k = 1

=============================================================================

---------------------------- MODULE MCPlanInterpreter ----------------------------
(* Small plans that nest the constructs, for TLC. *)
EXTENDS PlanInterpreter

Plain(c, s, deps) ==
    [id |-> s, at |-> 0, construct |-> c, deps |-> deps, tool |-> None, max |-> 2, mode |-> None,
     on |-> "any", label |-> "default", then |-> "propagate", fallback |-> None,
     until |-> None]

Call(s, deps) == [Plain("CALL", s, deps) EXCEPT !.tool = "milcah"]
Uses(tool, s, deps) == [Plain("CALL", s, deps) EXCEPT !.tool = tool]
If(c, cond, s, deps) == [Plain(c, s, deps) EXCEPT !.on = cond]
On(signal, s, deps) == [Plain("DECISION", s, deps) EXCEPT !.on = signal]
Branch(label, step) == [step EXCEPT !.label = label]
Fan(c, mode, s, deps) == [Plain(c, s, deps) EXCEPT !.mode = mode]
Guard(on, then, fallback, s, deps) ==
    [Plain("ERROR", s, deps) EXCEPT !.on = on, !.then = then, !.fallback = fallback]
Wait(on, then, s, deps) == [Plain("AWAIT", s, deps) EXCEPT !.on = on, !.then = then]
Until(cond, step) == [step EXCEPT !.until = cond]

MCSteps == [
    \* a loop with a search, a decision between its branches, and both controls
    loop |-> << Until("has_matches", Plain("ITERATE", "i", {})),
                Uses("search_nodes", "a", {"i"}), On("has_matches", "d", {"i", "a"}),
                Branch("expand", Call("x", {"d"})), Branch("search", Call("y", {"d"})),
                Call("z", {"y"}), Plain("RECURSE", "r", {"i"}), Plain("STEP", "t", {"r"}) >>,
    controls |-> << Plain("ITERATE", "i", {}), Call("a", {"i"}),
                    If("BREAK", "blocked", "b", {"i"}), If("CONTINUE", "always", "c", {"i"}),
                    Call("e", {"i", "a"}), Plain("STEP", "t", {"e"}) >>,
    cut |-> << Plain("ITERATE", "i", {}), If("CONTINUE", "second_round", "c", {"i"}),
               Uses("compile_context", "a", {"i"}), If("BREAK", "context_ready", "b", {"i", "a"}),
               Call("e", {"i"}), Call("t", {"e"}) >>,
    \* an attempt goes over the whole body, a nested fan-out included
    retry |-> << Plain("RETRY", "r", {}), Call("a", {"r"}), Call("b", {"r", "a"}),
                 Call("c", {"b"}) >>,
    fanned |-> << Plain("RETRY", "r", {}), Fan("PARALLEL", "isolated", "p", {"r"}),
                  Uses("search_nodes", "a", {"p"}), Uses("search_nodes", "b", {"p"}),
                  Plain("MERGE", "m", {"a", "b"}), On("has_matches", "d", {"m"}),
                  Branch("expand", Uses("compile_context", "x", {"d"})),
                  Branch("search", Call("y", {"d"})) >>,
    early |-> << Fan("PARALLEL", "shared", "p", {}), Call("a", {"p"}), Call("b", {"p"}),
                 Plain("MERGE", "m", {"a"}), Plain("MERGE", "n", {}) >>,
    service |-> << Plain("RETRY", "r", {}), Plain("SERVICE", "s", {"r"}), Call("a", {"s"}),
                   Call("b", {"r"}), Fan("CONCURRENT", None, "f", {"s"}), Call("c", {"f"}),
                   Plain("STEP", "u", {"f"}) >>,
    queue |-> << Until("consensus", [Plain("QUEUE", "q", {}) EXCEPT !.mode = "ROUND_ROBIN"]),
                 Call("a", {"q"}), Call("b", {"q"}), Plain("BREAK", "k", {"b"}) >>,
    priority |-> << [Plain("QUEUE", "q", {}) EXCEPT !.mode = "PRIORITY"],
                    [Call("a", {"q"}) EXCEPT !.max = 1], [Call("b", {"q"}) EXCEPT !.max = 3],
                    [Call("c", {"q"}) EXCEPT !.max = 3] >>,
    handled |-> << Guard("any", "handle", None, "e", {}), Call("a", {"e"}), Call("b", {"e", "a"}),
                   Call("c", {"b"}), Call("d", {"e"}) >>,
    fallback |-> << Guard("handler_failed", "fallback", "f", "e", {}), Call("a", {"e"}),
                    Call("g", {"e"}), Plain("STEP", "o", {"a"}), Call("f", {"o"}) >>,
    lost |-> << Guard("any", "fallback", "zz", "e", {}), Guard("any", "propagate", None, "h", {"e"}),
                Uses("tirzah_retrieval", "a", {"h"}), Plain("RECURSE", "b", {"e"}) >>,
    wait |-> << Wait("go", "completed", "w", {}), Wait("default", "blocked", "v", {}),
                Wait("default", "never", "u", {}), Uses("tirzah_retrieval", "a", {"w"}),
                Uses("tirzah_retrieval", "b", {"a"}), Call("c", {"b"}) >>,
    waits |-> << Plain("RETRY", "r", {}), Wait("default", "blocked", "w", {"r"}),
                 Wait("default", "completed", "v", {"r"}) >>,
    looped |-> << Plain("ITERATE", "i", {}), On("none", "d", {"i"}),
                  Wait("default", "blocked", "w", {"d"}),
                  Branch("default", Wait("default", "completed", "v", {"d"})),
                  Branch("default", Plain("DECISION", "e", {"d"})) >>,
    web |-> << On("web_research", "d", {}), Branch("web", Uses("web_search", "a", {"d"})),
               Branch("web", Uses("list_documents", "b", {"d"})),
               Branch("memory", Call("c", {"d"})), Uses("web_fetch", "e", {"a"}),
               Uses("answer_adapter", "f", {"e", "c"}) >>,
    granular |-> << Uses("search_nodes", "a", {}), Uses("expand_proximity", "b", {"a"}),
                    Uses("get_node_context", "c", {"a"}), On("context_depth", "d", {"b", "c"}),
                    Branch("compile", Uses("compile_context", "e", {"d"})),
                    Branch("expand", Uses("get_document", "f", {"d"})),
                    Uses("get_document", "g", {"e"}), Uses("answer_adapter", "h", {"g"}) >>,
    bare |-> << Fan("PARALLEL", "shared", "p", {}), Plain("SERVICE", "u", {}),
                Plain("RETRY", "r", {}), Plain("SERVICE", "v", {"r"}), Call("a", {"v"}),
                Call("b", {"r"}) >>,
    \* revised into a longer plan, which the limit on rounds of the first cuts off
    chain |-> << Call("a", {}), Plain("CALL", "n", {}) >>,
    chained |-> << Call("a", {}), Wait("go", "never", "w", {"a"}), Call("b", {"w"}),
                   Call("d", {"b"}), Call("c", {"d"}) >>]

MCPlan == DOMAIN MCSteps
MCStepIn == [p \in MCPlan |-> [s \in {MCSteps[p][i].id : i \in DOMAIN MCSteps[p]} |->
              LET i == CHOOSE i \in DOMAIN MCSteps[p] : MCSteps[p][i].id = s
              IN  [MCSteps[p][i] EXCEPT !.at = i]]]
MCRequested == MCPlan \ {"chained"}
MCRevisedBy == [p \in MCPlan |-> IF p = "chain" THEN {"chained"} ELSE {}]
MCContinued == {"s"}
MCSignalled == {"go"}

===============================================================================

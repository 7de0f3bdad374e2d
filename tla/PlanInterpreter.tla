----------------------------- MODULE PlanInterpreter -----------------------------
(***************************************************************************)
(* One interpretation of a plan: planning/executor.py interpret_plan walks *)
(* the steps in rounds and planning/constructs.py expands the constructs   *)
(* that own other steps (ITERATE, DECISION, PARALLEL, RETRY, ERROR,        *)
(* SERVICE, QUEUE, CONCURRENT), which nest.  A construct that is at work   *)
(* is a frame on a stack; the step it runs next may push another one.      *)
(* After every completed step the planner may swap in a revised plan       *)
(* (planning/revision_runtime.py).  Concurrent branches are the subject of *)
(* ParallelBranches and the saved row that of PlanGates: here branches run *)
(* one after the other and everything is in memory.                        *)
(***************************************************************************)
EXTENDS Naturals, Sequences, FiniteSets

CONSTANTS
    PlanName,    \* names of plan revisions
    Id,          \* step ids
    StepIn,      \* [PlanName -> [Id -> step]]: the steps of a plan
    Requested,   \* the plans an interpretation starts with
    RevisedBy,   \* [PlanName -> SUBSET PlanName]: what the planner may swap a plan for
    Signalled,   \* answer_kwargs: events that are signalled from the start
    WebEnabled,  \* answer_kwargs or runtime: web research
    FocusGiven,  \* answer_kwargs: a focus node
    Continued    \* SERVICE steps that answer_kwargs asks to continue

\* A step is a record of its place in the list, its construct, what it depends on, and
\* what the interpreter parses from its text (max is MAX, ROUNDS or a priority; on is
\* ON, EVENT or IF; then is THEN).
ASSUME PlanAssumption ==
    /\ Requested \subseteq PlanName
    /\ RevisedBy \in [PlanName -> SUBSET PlanName]
    /\ {WebEnabled, FocusGiven} \subseteq BOOLEAN

ASSUME StepAssumption ==
    \A p \in PlanName :
        /\ DOMAIN StepIn[p] \subseteq Id /\ IsFiniteSet(DOMAIN StepIn[p])
        /\ \A s \in DOMAIN StepIn[p] : StepIn[p][s].at \in Nat
        /\ \A s, x \in DOMAIN StepIn[p] : StepIn[p][s].at = StepIn[p][x].at => s = x
        /\ \A s \in DOMAIN StepIn[p] : StepIn[p][s].deps \subseteq DOMAIN StepIn[p]

VARIABLES
    first, plan,    \* the plan at the start and the one being walked
    steps,          \* working_steps: what the plan says of its steps
    round, ready,   \* rounds begun; the steps left of the round's ready list
    status,         \* of each step
    completed,      \* completed_step_ids
    bundle,         \* artifacts.context_bundle: the latest matches, a compiled context
    effects,        \* once-only handlers that have run (and artifacts.retrieval_package)
    answered,       \* artifacts.synthesis_result
    ticks, waited,  \* artifacts service:id, and await:id that hold a start time
    stored,         \* artifacts parallel:id, and what their branches gathered
    phase,          \* what the interpreter does next
    call, out,      \* the step it runs with its runner, and an outcome
    stack,          \* the constructs at work, the innermost last
    calls,          \* history: handler calls of a step since a loop last reset it
    listed          \* history: the plan the ready list was taken from

stepVars == <<status, completed, calls>>
artVars == <<bundle, effects, answered, ticks, waited, stored>>
walkVars == <<first, plan, steps, round, ready, listed>>
interpretVars == <<walkVars, stepVars, artVars, phase, call, out, stack>>

Status == {"pending", "active", "completed", "blocked", "skipped", "awaiting"}
Empty == [matches |-> "none", compiled |-> FALSE, url |-> FALSE, some |-> FALSE]
None == "none"

-------------------------------------------------------------------------------
(* The plan as a graph *)

Ids == DOMAIN steps
StepOf(s) == steps[s]
DependsOn(s) == StepOf(s).deps
First(S) == CHOOSE s \in S : \A x \in S : StepOf(s).at <= StepOf(x).at
Last(S) == CHOOSE s \in S : \A x \in S : StepOf(x).at <= StepOf(s).at

Body(p) == {s \in Ids : p \in DependsOn(s)}

Owners == {"ITERATE", "DECISION", "PARALLEL", "RETRY", "ERROR", "AWAIT",
           "SERVICE", "CONCURRENT", "QUEUE"}

Owned(s, done) ==
    \E p \in DependsOn(s) : StepOf(p).construct \in Owners /\ p \notin done

\* The passes over the list until nothing changes find the least closed set: the
\* steps every closed set has.
TransitiveDependents(root) ==
    LET rest == Ids \ {root} IN
    {x \in rest : \A C \in SUBSET rest :
        (\A s \in rest \ C : DependsOn(s) \cap (C \cup {root}) = {}) => x \in C}

\* The steps reachable from the selected heads that wait for nothing outside.
BranchSubtree(p, heads) ==
    LET rest == Ids \ Body(p) IN
    heads \cup {x \in rest : \A C \in SUBSET rest :
        (\A s \in rest \ C : \/ DependsOn(s) \cap (C \cup heads \cup {p}) = {}
                              \/ ~(DependsOn(s) \subseteq C \cup heads \cup {p}))
        => x \in C}

\* The pending steps all of whose parents are skipped, and theirs.
CascadeSkipped(skipped, pending) ==
    {x \in pending : \A C \in SUBSET pending :
        (\A s \in pending \ C : DependsOn(s) = {} \/ ~(DependsOn(s) \subseteq C \cup skipped))
        => x \in C}

-------------------------------------------------------------------------------
(* Parsed parameters and conditions *)

Clamped(m, ceiling) == IF m < 1 THEN 1 ELSE IF m > ceiling THEN ceiling ELSE m

LoopRounds(s) == Clamped(StepOf(s).max, 10)
RetryMax(s) == Clamped(StepOf(s).max, 5)
QueueRounds(s) == IF StepOf(s).mode = "ROUND_ROBIN" THEN Clamped(StepOf(s).max, 10) ELSE 1

\* participant_priority: the step's max field; ties keep the document order.
NextParticipant(s, S) ==
    IF StepOf(s).mode # "PRIORITY" THEN First(S)
    ELSE First({x \in S : \A y \in S : StepOf(y).max <= StepOf(x).max})

\* latest_tool_matches: of the last search that listed any result.
HasMatches == bundle.matches = "found"
ContextReady == bundle.compiled \/ effects # {}

LoopControl(cond, f) ==
    CASE cond = "always" -> TRUE
      [] cond = "blocked" -> f.hurt
      [] cond = "has_matches" -> HasMatches
      [] cond = "context_ready" -> ContextReady
      [] cond = "second_round" -> f.n >= 2
      [] OTHER -> FALSE

UntilSatisfied(s, n) ==
    \/ StepOf(s).until = "has_matches" /\ HasMatches
    \/ StepOf(s).until = "context_ready" /\ ContextReady
    \/ StepOf(s).until = "single_round" /\ n >= 1

DecisionBranch(signal) ==
    CASE signal = "web_research" -> IF WebEnabled THEN "web" ELSE "memory"
      [] signal = "has_matches" -> IF HasMatches THEN "expand" ELSE "search"
      [] signal = "context_depth" -> IF bundle.compiled THEN "expand" ELSE "compile"
      [] OTHER -> "default"

\* The branches with the chosen label, else the last default one, else the first.
Selected(s) ==
    LET chosen == DecisionBranch(StepOf(s).on)
        match == {b \in Body(s) : StepOf(b).label = chosen}
        default == {b \in Body(s) : StepOf(b).label = "default"}
    IN  IF match # {} \/ Body(s) = {} THEN match
        ELSE IF default # {} THEN {Last(default)} ELSE {First(Body(s))}

AwaitSatisfied(s) ==
    \/ "any" \in Signalled
    \/ s \in Signalled
    \/ (IF StepOf(s).construct = "AWAIT" THEN StepOf(s).on ELSE "default") \in Signalled

ErrorMatches(on, reason) == on \in {"any", "default", reason}

-------------------------------------------------------------------------------
(* Rounds: interpret_plan *)

InterpretInit ==
    /\ first \in Requested /\ plan = first /\ steps = StepIn[first]
    /\ round = 0 /\ ready = {}
    /\ status = [s \in Id |-> "pending"] /\ completed = {}
    /\ bundle = Empty /\ effects = {} /\ answered = FALSE /\ ticks = [s \in Id |-> 0]
    /\ waited = {} /\ stored = [s \in Id |-> {}]
    /\ phase = "round" /\ call = None /\ out = None /\ stack = <<>>
    /\ calls = [s \in Id |-> 0] /\ listed = first

\* ready_steps.
ReadySteps(st, done) ==
    {s \in Ids : st[s] = "pending" /\ ~Owned(s, done) /\ DependsOn(s) \subseteq done}

RoundLimit == Cardinality(DOMAIN StepIn[first]) + 1

\* resume_awaiting_steps: a timer can only have run out for a step that waits
\* since an earlier round.
Timers == {s \in Ids : /\ status[s] = "awaiting" /\ ~AwaitSatisfied(s)
                       /\ s \in waited /\ StepOf(s).then # "never"}

Resumed(T) == [s \in Id |->
    IF s \notin Ids \/ status[s] # "awaiting" THEN status[s]
    ELSE IF AwaitSatisfied(s) THEN "completed"
    ELSE IF s \in T THEN IF StepOf(s).then = "blocked" THEN "blocked" ELSE "completed"
    ELSE status[s]]

BeginRound ==
    /\ phase = "round" /\ round < RoundLimit
    /\ \E T \in SUBSET Timers :
         LET st == Resumed(T)
             done == completed \cup {s \in Ids : status[s] # st[s] /\ st[s] = "completed"}
         IN  /\ status' = st /\ completed' = done
             /\ ready' = ReadySteps(st, done)
             /\ phase' = IF ready' = {} THEN "ended" ELSE "batch"
    /\ round' = round + 1 /\ listed' = plan
    /\ UNCHANGED <<first, plan, steps, artVars, calls, call, out, stack>>

LastRound ==
    /\ phase = "round" /\ round = RoundLimit
    /\ phase' = "ended"
    /\ UNCHANGED <<walkVars, stepVars, artVars, call, out, stack>>

\* A step of the list that a revision has dropped is passed over; the status of
\* the others is not looked at again.
TakeReady ==
    /\ phase = "batch" /\ ready # {}
    /\ \E s \in ready :
         /\ \A x \in ready : StepIn[listed][s].at <= StepIn[listed][x].at
         /\ ready' = ready \ {s}
         /\ IF s \in Ids
            THEN /\ status' = [status EXCEPT ![s] = "active"]
                 /\ call' = [id |-> s, runner |-> "plain"]
                 /\ phase' = "run"
            ELSE UNCHANGED <<status, call, phase>>
    /\ UNCHANGED <<first, plan, steps, round, listed, completed, calls, artVars, out, stack>>

BatchDone ==
    /\ phase = "batch" /\ ready = {}
    /\ phase' = "round"
    /\ UNCHANGED <<walkVars, stepVars, artVars, call, out, stack>>

\* apply_mid_step_revision keeps what is completed and the statuses of the steps
\* the new plan still has.
Swapped(q, st, done) == [s \in Id |->
    IF s \notin DOMAIN StepIn[q] THEN "pending"
    ELSE IF s \in done THEN "completed"
    ELSE IF s \in Ids THEN st[s] ELSE "pending"]

\* The outcome of a step of the ready list, and the planner asked about it.
Record ==
    /\ phase = "return" /\ stack = <<>>
    /\ LET st == [status EXCEPT ![call.id] = out.status]
           done == completed \cup (IF out.status = "completed" THEN {call.id} ELSE {})
       IN  /\ completed' = done
           /\ \/ plan' = plan /\ steps' = steps /\ status' = st
              \/ /\ out.status = "completed"
                 /\ \E q \in RevisedBy[plan] :
                      plan' = q /\ steps' = StepIn[q] /\ status' = Swapped(q, st, done)
    /\ phase' = "batch" /\ call' = None /\ out' = None
    /\ UNCHANGED <<first, round, ready, listed, calls, artVars, stack>>

-------------------------------------------------------------------------------
(* Running one step: _execute_step and _run_iterate_body_step *)

Running(c) == phase = "run" /\ StepOf(call.id).construct = c

Return(s, runner, st, reason) ==
    /\ call' = [id |-> s, runner |-> runner]
    /\ out' = [status |-> st, reason |-> reason]
    /\ phase' = "return"

Answer(st, reason) == Return(call.id, call.runner, st, reason) /\ stack' = stack

\* BREAK and CONTINUE mean something to the runner of loop bodies only.
RunPlain ==
    /\ phase = "run"
    /\ LET c == StepOf(call.id).construct IN
         \/ c = "STEP" /\ Answer("completed", None)
         \/ c = "RECURSE" /\ Answer("skipped", "revision_loop_owns_recursion")
         \/ /\ c \in {"BREAK", "CONTINUE"}
            /\ IF call.runner = "iterate" THEN Answer("completed", None)
               ELSE Answer("blocked", "unknown_construct")
    /\ UNCHANGED <<walkVars, stepVars, artVars>>

\* Handlers (build_default_handlers): the bundles one may leave when it succeeds,
\* none when what it needs is missing.
Appended(b) == [b EXCEPT !.some = TRUE]
Focus(b) == FocusGiven \/ b.compiled \/ b.matches = "found"

SearchNodes(b) == {[Appended(b) EXCEPT !.matches = x] : x \in {"found", "empty"}}
CompileContext(b) == IF Focus(b) THEN {[Appended(b) EXCEPT !.compiled = TRUE]} ELSE {}
AroundFocus(b) == IF Focus(b) THEN {Appended(b)} ELSE {}
ExpandFocus(b) == IF Focus(b) THEN SearchNodes(b) ELSE {}
ListDocuments(b) == {Appended(b)}
GetDocument(b) == IF b.compiled THEN {Appended(b)} ELSE {}
WebSearch(b) == IF WebEnabled THEN {[Appended(b) EXCEPT !.url = x] : x \in BOOLEAN} ELSE {}
WebFetch(b) == IF WebEnabled /\ b.url THEN {Appended(b)} ELSE {}

\* answer_adapter: the answer there is, else one from the package or the bundle.
AnswerAdapter(b) == IF answered \/ effects # {} \/ b.some THEN {b} ELSE {}

Handled(tool, b) ==
    CASE tool = "search_nodes" -> SearchNodes(b)
      [] tool = "compile_context" -> CompileContext(b)
      [] tool = "expand_proximity" -> ExpandFocus(b)
      [] tool = "get_node_context" -> AroundFocus(b)
      [] tool = "list_documents" -> ListDocuments(b)
      [] tool = "get_document" -> GetDocument(b)
      [] tool = "web_search" -> WebSearch(b)
      [] tool = "web_fetch" -> WebFetch(b)
      [] tool = "answer_adapter" -> AnswerAdapter(b)
      [] OTHER -> {b}

\* _dispatch_call: the first allowed tool that has a handler.
RunCall ==
    /\ Running("CALL")
    /\ LET tool == StepOf(call.id).tool IN
         \/ /\ tool = None /\ Answer("blocked", "no_handler")
            /\ UNCHANGED <<bundle, effects, answered, calls>>
         \/ /\ tool \in effects /\ Answer("skipped", "duplicate_effect")
            /\ UNCHANGED <<bundle, effects, answered, calls>>
         \/ /\ tool \notin effects \cup {None}
            /\ calls' = [calls EXCEPT ![call.id] = @ + 1]
            /\ \/ /\ bundle' \in Handled(tool, bundle)
                  /\ effects' = effects \cup ({tool} \cap {"tirzah_retrieval"})
                  /\ answered' = (answered \/ tool = "answer_adapter")
                  /\ Answer("completed", None)
               \/ /\ \E r \in {"handler_failed", "not_ok"} : Answer("blocked", r)
                  /\ UNCHANGED <<bundle, effects, answered>>
    /\ UNCHANGED <<walkVars, status, completed, ticks, waited, stored>>

RunAwait ==
    /\ Running("AWAIT")
    /\ \/ AwaitSatisfied(call.id) /\ Answer("completed", None) /\ waited' = waited
       \/ /\ ~AwaitSatisfied(call.id) /\ call.id \in waited
          /\ \/ StepOf(call.id).then = "blocked" /\ Answer("blocked", "await_timeout")
             \/ StepOf(call.id).then = "completed" /\ Answer("completed", None)
          /\ waited' = waited
       \/ /\ ~AwaitSatisfied(call.id) /\ Answer("awaiting", None)
          /\ waited' = waited \cup {call.id}
    /\ UNCHANGED <<walkVars, stepVars, bundle, effects, answered, ticks, stored>>

\* infer_parallel_parent: a PARALLEL step among the steps it depends on, else
\* among those they depend on.
ParallelParents(s) ==
    LET direct == {p \in DependsOn(s) : StepOf(p).construct = "PARALLEL"}
        parents == UNION {DependsOn(d) : d \in DependsOn(s)}
        above == {p \in parents : StepOf(p).construct = "PARALLEL"}
    IN  IF direct # {} THEN direct ELSE above

Joined(b, more) == [matches |-> IF more.matches = None THEN b.matches ELSE more.matches,
                    compiled |-> b.compiled \/ more.compiled,
                    url |-> b.url \/ more.url, some |-> b.some \/ more.some]

\* A MERGE of a PARALLEL step that has not stored its branches raises, and
\* interpret_plan with it; isolated branches bring what they gathered.
RunMerge ==
    /\ Running("MERGE")
    /\ LET par == ParallelParents(call.id) IN
         \/ par = {} /\ bundle' = bundle /\ Answer("completed", None)
         \/ \E p \in par :
              \/ /\ stored[p] = {}
                 /\ phase' = "raised" /\ UNCHANGED <<bundle, call, out, stack>>
              \/ \E b \in stored[p] :
                 /\ bundle' = IF StepOf(p).mode = "isolated" THEN Joined(bundle, b) ELSE bundle
                 /\ Answer("completed", None)
    /\ UNCHANGED <<walkVars, stepVars, effects, answered, ticks, waited, stored>>

-------------------------------------------------------------------------------
(* Constructs that own steps *)

\* body are the steps it walks and left those it has not come to in this pass; a
\* fan-out has the branches after the current one in rest.
Frame(kind, body) ==
    [kind |-> kind, id |-> call.id, runner |-> call.runner, body |-> body, left |-> body,
     n |-> 1, hurt |-> FALSE, failed |-> FALSE, moved |-> FALSE,
     rest |-> {}, saved |-> bundle, gain |-> Empty]

BodyRunner(f) ==
    CASE f.kind = "ITERATE" -> "iterate"
      [] f.kind = "QUEUE" -> "plain"
      [] OTHER -> f.runner

Enter(f) ==
    /\ stack' = Append(stack, f) /\ phase' = "walk" /\ UNCHANGED <<call, out>>

\* execute_iterate_step, execute_retry_step, execute_error_step and
\* execute_queue_step complete at once when they own nothing.
RunLoop ==
    /\ phase = "run"
    /\ StepOf(call.id).construct \in {"ITERATE", "RETRY", "ERROR", "QUEUE"}
    /\ IF Body(call.id) = {} THEN Answer("completed", None)
       ELSE Enter(Frame(StepOf(call.id).construct, Body(call.id)))
    /\ UNCHANGED <<walkVars, stepVars, artVars>>

\* One tick; a later one only when the caller asks to continue.
RunService ==
    /\ Running("SERVICE")
    /\ IF Body(call.id) = {} \/ (ticks[call.id] > 0 /\ call.id \notin Continued)
       THEN Answer("completed", None) /\ ticks' = ticks
       ELSE /\ Enter([Frame("SERVICE", Body(call.id)) EXCEPT !.n = ticks[call.id] + 1])
            /\ ticks' = [ticks EXCEPT ![call.id] = @ + 1]
    /\ UNCHANGED <<walkVars, stepVars, bundle, effects, answered, waited, stored>>

\* The branches not selected are skipped, whatever their status, and so is every
\* pending step of the plan all of whose parents are skipped.
SkippedBy(lost) ==
    lost \cup CascadeSkipped({s \in Ids : status[s] = "skipped"} \cup lost,
                           {s \in Ids \ lost : status[s] = "pending"})

\* Only inside a loop are the selected branches run at once.
RunDecision ==
    /\ Running("DECISION")
    /\ \E heads \in {Selected(call.id)} :
         /\ \E gone \in {SkippedBy(Body(call.id) \ heads)} :
              /\ status' = [x \in Id |-> IF x \in gone THEN "skipped" ELSE status[x]]
              /\ completed' = completed \cup gone
         /\ IF call.runner = "iterate" /\ heads # {}
            THEN Enter(Frame("DECISION", BranchSubtree(call.id, heads)))
            ELSE Answer("completed", None)
    /\ UNCHANGED <<walkVars, calls, artVars>>

\* The next branch of a fan-out; an isolated one starts with an empty bundle.
Isolated(f) == f.kind = "PARALLEL" /\ StepOf(f.id).mode = "isolated"

NextBranch(f, heads) ==
    LET b == First(heads)
        sub == BranchSubtree(f.id, {b})
    IN  [f EXCEPT !.body = sub, !.left = sub, !.rest = heads \ {b}, !.moved = FALSE]

RunFanOut ==
    /\ phase = "run" /\ StepOf(call.id).construct \in {"PARALLEL", "CONCURRENT"}
    /\ LET heads == Body(call.id)
           f == Frame(StepOf(call.id).construct, {})
       IN  IF heads = {} THEN Answer("completed", None) /\ bundle' = bundle
           ELSE /\ Enter(NextBranch(f, heads))
                /\ bundle' = IF Isolated(f) THEN Empty ELSE bundle
    /\ UNCHANGED <<walkVars, stepVars, effects, answered, ticks, waited, stored>>

-------------------------------------------------------------------------------
(* Walking the steps a construct owns *)

Top == stack[Len(stack)]
Under == SubSeq(stack, 1, Len(stack) - 1)
PassDone == phase = "walk" /\ Top.left = {}

\* The construct comes to the next step of its body.
Coming(f, s) ==
    s = IF f.kind = "QUEUE" THEN NextParticipant(f.id, f.left) ELSE First(f.left)

Passed(f, s) == [f EXCEPT !.left = @ \ {s}]

Leave(st, reason) == Return(Top.id, Top.runner, st, reason) /\ stack' = Under
Stay(f) == stack' = Append(Under, f) /\ phase' = "walk" /\ UNCHANGED <<call, out>>

\* The steps a later pass sets back to pending when it comes to s.
Rewound(f, s) ==
    LET past == CASE f.kind = "ITERATE" -> {"completed", "skipped"}
                  [] f.kind = "SERVICE" -> {"completed", "skipped"}
                  [] f.kind = "RETRY" -> {"completed", "blocked"}
                  [] f.kind = "QUEUE" -> {"completed", "skipped", "blocked"}
                  [] OTHER -> {}
        c == StepOf(s).construct
    IN  IF \/ f.n = 1 \/ status[s] \notin past
           \/ f.kind = "ITERATE" /\ c \in {"BREAK", "CONTINUE"}
        THEN {}
        ELSE IF f.kind = "ITERATE" /\ c = "DECISION"
             THEN {s} \cup TransitiveDependents(s) ELSE {s}

Reset(back) == [x \in Id |-> IF x \in back THEN "pending" ELSE status[x]]

\* Mutant: completed.discard is forgotten.
KeepsDone(back) == completed

Remaining(back) == completed \ back

\* A body step is run when it is pending and waits for nothing but its owner.
Due(f, s, back) ==
    Reset(back)[s] = "pending" /\ DependsOn(s) \subseteq Remaining(back) \cup {f.id}

Controls(f, s) == f.kind = "ITERATE" /\ StepOf(s).construct \in {"BREAK", "CONTINUE"}

Visit ==
    /\ phase = "walk" /\ Top.left # {}
    /\ \E f \in {Top}, s \in Ids : \E back \in {Rewound(f, s)} :
         /\ Coming(f, s)
         /\ ~(Due(f, s, back) /\ Controls(f, s))
         /\ status' = Reset(back) /\ completed' = Remaining(back)
         /\ calls' = [x \in Id |-> IF x \in back THEN 0 ELSE calls[x]]
         /\ IF Due(f, s, back)
            THEN /\ call' = [id |-> s, runner |-> BodyRunner(f)] /\ phase' = "run"
                 /\ stack' = Append(Under, Passed(f, s)) /\ out' = out
            ELSE Stay(Passed(f, s))
    /\ UNCHANGED <<walkVars, artVars>>

IterateOutcome(f) ==
    IF f.failed THEN Leave("blocked", "iterate_body_blocked") ELSE Leave("completed", None)

\* BREAK ends the loop and CONTINUE the round; one whose condition does not hold
\* is skipped.  Neither is ever set back.
VisitControl ==
    /\ phase = "walk" /\ Top.left # {}
    /\ \E f \in {Top}, s \in Ids : \E hit \in {LoopControl(StepOf(s).on, f)} :
         /\ Coming(f, s) /\ Controls(f, s) /\ Due(f, s, {})
         /\ status' = [status EXCEPT ![s] = IF hit THEN "completed" ELSE "skipped"]
         /\ completed' = completed \cup {s}
         /\ IF hit /\ StepOf(s).construct = "BREAK" THEN IterateOutcome(f)
            ELSE Stay(IF hit THEN [f EXCEPT !.left = {}] ELSE Passed(f, s))
    /\ UNCHANGED <<walkVars, calls, artVars>>

\* Mutants: the status is set and the step not added to completed_step_ids; the
\* reason is taken for the status.
NotedOnly(s) == status' = [status EXCEPT ![s] = out.status] /\ completed' = completed
NotedReason(s) == status' = [status EXCEPT ![s] = out.reason] /\ completed' = completed

\* The outcome of a step a construct has run.
Noted(s) ==
    /\ status' = [status EXCEPT ![s] = out.status]
    /\ completed' = completed \cup (IF out.status = "completed" THEN {s} ELSE {})

Got(kinds) == phase = "return" /\ stack # <<>> /\ Top.kind \in kinds

Failed == out.status = "blocked"

LoopNotes ==
    /\ Got({"ITERATE", "RETRY", "SERVICE", "QUEUE"})
    /\ Noted(call.id)
    /\ Stay([Top EXCEPT !.hurt = @ \/ Failed, !.failed = @ \/ Failed])
    /\ UNCHANGED <<walkVars, calls, artVars>>

\* A branch ends with its first blocked step, and the construct with it.
BranchNotes ==
    /\ Got({"DECISION", "PARALLEL", "CONCURRENT"})
    /\ Noted(call.id)
    /\ IF Failed
       THEN /\ Leave("blocked", out.reason)
            /\ bundle' = IF Isolated(Top) THEN Top.saved ELSE bundle
       ELSE Stay([Top EXCEPT !.moved = TRUE]) /\ bundle' = bundle
    /\ UNCHANGED <<walkVars, calls, effects, answered, ticks, waited, stored>>

\* A guarded step: a failure the handler does not match, and every outcome but
\* completed, is the outcome of the ERROR step.
GuardNotes ==
    /\ Got({"ERROR"})
    /\ ~(Failed /\ ErrorMatches(StepOf(Top.id).on, out.reason))
    /\ Noted(call.id)
    /\ IF out.status = "completed" THEN Stay(Top) ELSE Leave(out.status, out.reason)
    /\ UNCHANGED <<walkVars, calls, artVars>>

\* A matching failure: propagate it, or skip what failed and handle it or run the
\* fallback step, whatever that step's status and dependencies are.
GuardFails ==
    /\ Got({"ERROR"}) /\ Failed /\ ErrorMatches(StepOf(Top.id).on, out.reason)
    /\ LET then == StepOf(Top.id).then
           st == [status EXCEPT ![call.id] = out.status]
           bad == {s \in Body(Top.id) : st[s] = "blocked"}
       IN  IF then = "propagate"
           THEN status' = st /\ completed' = completed /\ Leave("blocked", out.reason)
           ELSE /\ status' = [s \in Id |-> IF s \in bad THEN "skipped" ELSE st[s]]
                /\ completed' = completed \cup bad
                /\ \/ then = "handle" /\ Leave("completed", None)
                   \/ /\ then = "fallback" /\ StepOf(Top.id).fallback \in Ids
                      /\ stack' = Append(Under, [Top EXCEPT !.kind = "FALLBACK"])
                      /\ call' = [id |-> StepOf(Top.id).fallback, runner |-> BodyRunner(Top)]
                      /\ phase' = "run" /\ out' = out
                   \/ /\ then = "fallback" /\ StepOf(Top.id).fallback \notin Ids
                      /\ Leave("blocked", "error_fallback_missing")
    /\ UNCHANGED <<walkVars, calls, artVars>>

FallbackNotes ==
    /\ Got({"FALLBACK"})
    /\ Noted(call.id)
    /\ Leave(out.status, out.reason)
    /\ UNCHANGED <<walkVars, calls, artVars>>

-------------------------------------------------------------------------------
(* The end of a pass over the owned steps *)

\* Mutant: the attempts are not counted.
AgainForEver(f) == Stay([f EXCEPT !.left = f.body, !.hurt = FALSE])

Again(f) == Stay([f EXCEPT !.left = f.body, !.n = @ + 1, !.hurt = FALSE])

IteratePass ==
    /\ PassDone /\ Top.kind = "ITERATE"
    /\ LET f == Top IN
         IF \/ UntilSatisfied(f.id, f.n) \/ f.n = LoopRounds(f.id)
            \/ \E s \in f.body : status[s] = "blocked"
         THEN IterateOutcome(f) ELSE Again(f)
    /\ UNCHANGED <<walkVars, stepVars, artVars>>

RetryPass ==
    /\ PassDone /\ Top.kind = "RETRY"
    /\ LET f == Top IN
         IF ~f.hurt /\ \A s \in f.body : status[s] = "completed"
         THEN Leave("completed", None)
         ELSE IF f.n = RetryMax(f.id) THEN Leave("blocked", "retry_exhausted")
              ELSE Again(f)
    /\ UNCHANGED <<walkVars, stepVars, artVars>>

\* The turns of the last round may signal convergence.
QueuePass ==
    /\ PassDone /\ Top.kind = "QUEUE"
    /\ LET f == Top IN
         \/ f.hurt /\ Leave("blocked", "queue_turn_blocked")
         \/ ~f.hurt /\ f.n = QueueRounds(f.id) /\ Leave("completed", None)
         \/ /\ ~f.hurt /\ f.n < QueueRounds(f.id)
            /\ StepOf(f.id).until = "consensus" /\ Leave("completed", None)
         \/ ~f.hurt /\ f.n < QueueRounds(f.id) /\ Again(f)
    /\ UNCHANGED <<walkVars, stepVars, artVars>>

SinglePass ==
    /\ PassDone /\ Top.kind \in {"SERVICE", "ERROR"}
    /\ IF Top.hurt THEN Leave("blocked", "service_tick_blocked") ELSE Leave("completed", None)
    /\ UNCHANGED <<walkVars, stepVars, artVars>>

\* A branch is walked until a pass runs nothing; then the next, or the join.
BranchPass ==
    /\ PassDone /\ Top.kind \in {"DECISION", "PARALLEL", "CONCURRENT"}
    /\ LET f == [Top EXCEPT !.gain = IF Isolated(Top) THEN Joined(@, bundle) ELSE @]
           calm == IF Isolated(f) THEN f.saved ELSE bundle
       IN  \/ /\ f.moved /\ Stay([Top EXCEPT !.left = f.body, !.moved = FALSE])
              /\ UNCHANGED <<bundle, stored>>
           \/ /\ ~f.moved /\ f.rest # {} /\ Stay(NextBranch(f, f.rest))
              /\ bundle' = IF Isolated(f) THEN Empty ELSE bundle
              /\ stored' = stored
           \/ /\ ~f.moved /\ f.rest = {} /\ Leave("completed", None)
              /\ bundle' = calm
              /\ stored' = IF f.kind = "PARALLEL" THEN [stored EXCEPT ![f.id] = {f.gain}]
                           ELSE stored
    /\ UNCHANGED <<walkVars, stepVars, effects, answered, ticks, waited>>

RunStep == RunPlain \/ RunCall \/ RunAwait \/ RunMerge \/ RunLoop \/ RunService
           \/ RunDecision \/ RunFanOut
Walk == Visit \/ VisitControl \/ IteratePass \/ RetryPass \/ QueuePass \/ SinglePass
        \/ BranchPass
Note == LoopNotes \/ BranchNotes \/ GuardNotes \/ GuardFails \/ FallbackNotes \/ Record

InterpretNext == BeginRound \/ LastRound \/ TakeReady \/ BatchDone \/ RunStep \/ Walk \/ Note

\* Handlers return; nothing else can hold the interpreter up.
InterpretSpec ==
    InterpretInit /\ [][InterpretNext]_interpretVars /\ WF_interpretVars(InterpretNext)

-------------------------------------------------------------------------------
(* Properties *)

\* Types.
InterpretTypeOK ==
    /\ first \in Requested /\ plan \in PlanName /\ listed \in PlanName
    /\ steps = StepIn[plan]
    /\ round \in 0 .. RoundLimit
    /\ ready \subseteq Id
    /\ status \in [Id -> Status] /\ completed \subseteq Id
    /\ bundle.matches \in {None, "empty", "found"}
    /\ {bundle.compiled, bundle.url, bundle.some, answered} \subseteq BOOLEAN
    /\ effects \subseteq {"tirzah_retrieval"} /\ waited \subseteq Id
    /\ ticks \in [Id -> Nat] /\ calls \in [Id -> Nat] /\ DOMAIN stored = Id
    /\ phase \in {"round", "batch", "run", "walk", "return", "ended", "raised"}
    /\ phase \in {"run", "return"} => call.id \in Id /\ call.runner \in {"plain", "iterate"}
    /\ phase = "return" => out.status \in Status
    /\ phase \in {"round", "batch", "ended"} => stack = <<>>

\* interpret_plan's ok.
Ok ==
    /\ phase = "ended"
    /\ \A s \in Ids : status[s] \notin {"blocked", "awaiting"}
    /\ \E s \in Ids : status[s] = "completed"

\* Steps whose outcome releases nobody: RECURSE, and a second call of a once-only
\* handler.  Whatever depends on them waits for ever.
Barren == {s \in Ids : status[s] = "skipped" /\ s \notin completed}
BehindBarren == UNION {TransitiveDependents(s) : s \in Barren}

\* When an interpretation is reported ok, no step of the plan is left that could
\* still have run: the steps still pending are those behind a skipped step that
\* counts as not done.  Neither a loop that resets its body, a BREAK that cuts a
\* round short, a decision that skips a branch nor the limit on rounds loses a
\* step.  (A revision may: the limit on rounds is that of the first plan.)
OkMeansNothingLeft ==
    Ok /\ plan = first => {s \in Ids : status[s] \in {"pending", "active"}} \subseteq BehindBarren

\* A handler is called only when the steps its step depends on are done, or are
\* the constructs that are running it, and only once until a loop starts over:
\* a later pass of a loop never reads what an earlier one left in its body.
\* Exempt are a fallback step, and the rest of a round's ready list after a
\* revision.  The plans are ones whose steps belong to one construct each, and
\* whose fallback steps are not on the ready list beside their guard.
CallsAreDue ==
    [][\A s \in Id : calls'[s] > calls[s] =>
          \/ plan # listed \/ \E i \in DOMAIN stack : stack[i].kind = "FALLBACK"
          \/ /\ calls[s] = 0
             /\ \A d \in DependsOn(s) : \/ status[d] \in {"completed", "skipped"}
                                        \/ \E i \in DOMAIN stack : stack[i].id = d
      ]_interpretVars

\* However constructs nest and plans are revised, the interpretation ends.  The plans
\* are ones in which no fallback step leads back to its guard: a guard inside a loop
\* whose fallback is that loop is interpreted without end.
Terminates == <>(phase \in {"ended", "raised"})

===============================================================================

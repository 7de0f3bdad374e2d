----------------------------- MODULE PlanningLoop -----------------------------
(***************************************************************************)
(* A front-end request around the interpreter: planning/recursive.py       *)
(* process_frontend_request plans, executes, shows the result to the       *)
(* planner and goes on while it revises.  When the conversation runs under *)
(* a process with an outcomes loop, planning/outcomes_control.py measures  *)
(* the work of every execution, names what drifted to the planner and      *)
(* holds a drifting completion back at a gate.  Plans are kept revision by *)
(* revision and may be revised from outside meanwhile.  One execution is a *)
(* step here: PlanInterpreter is what happens in it.                       *)
(***************************************************************************)
EXTENDS ProcessInstances

CONSTANTS
    Request,     \* requests of one conversation
    Outcome,     \* the declared outcomes
    Works,       \* what an execution may bring: a floor and a judgement
    Setting,     \* configurations and what may happen under them
    MaxMid       \* bound: mid-step revisions of an execution

\* floor is the coverage of each outcome, judged what a model said of it, if it did.
Level == {"met", "partial", "unmet"}
Decision == {"revise", "stable", "complete", "blocked"}

ASSUME LoopAssumption ==
    /\ Works \subseteq [floor : [Outcome -> Level], judged : [Outcome -> Level \cup {"unsaid"}]]
    /\ Outcome # {}
    /\ \A s \in Setting :
        /\ {s.enabled, s.interpretive, s.framed, s.strict} \subseteq BOOLEAN
        /\ {s.max, s.acts, MaxMid} \subseteq Nat
        /\ s.may \subseteq {"await", "special", "mid", "raise", "unsaved"}

VARIABLES
    setting,    \* the configuration
    pc,         \* of each request: what it does next
    proc,       \* active_process: the instance that shaped the plan, or 0
    ctl,        \* the instance that the outcomes controller holds, or 0
    aim,        \* the instance whose gate an AWAIT step is about to reach, or 0
    list,       \* revisions: those proposed or executed so far
    saved,      \* rows of recursive_plans
    works,      \* history: what each execution brought
    told,       \* information: of which execution, and the outcomes it re-anchors
    valid,      \* the controller's last assessment
    asked,      \* history: what the planner was told, each time
    result,     \* what the result holds: a specialist's result, a gate, warnings
    trigger,    \* the specialist was called after the executions
    outside     \* revision that an operator is revising, or 0

requestVars == <<setting, pc, proc, ctl, aim, list, saved, works, told, valid, asked, result,
                 trigger, outside>>
vars == <<processVars, requestVars>>

Goto(r, l) == pc' = [pc EXCEPT ![r] = l]
Now(r) == list[r][Len(list[r])]
Plan(rev, parent, decision, special) ==
    [rev |-> rev, parent |-> parent, decision |-> decision, special |-> special]
May(what) == what \in setting.may

(***************************************************************************)
(* Outcomes                                                                *)
(***************************************************************************)

\* A model's word counts before the floor.
StatusOf(w, o) == IF w.judged[o] = "unsaid" THEN w.floor[o] ELSE w.judged[o]
Unmet(w) == {o \in Outcome : StatusOf(w, o) = "unmet"}
Drifting(w, c) == 100 * Cardinality(Unmet(w)) >= c.threshold * Cardinality(Outcome)
NotMet(w) == {o \in Outcome : StatusOf(w, o) # "met"}

Assess(i, w) ==
    [drifting |-> Drifting(w, instances[i].content), missing |-> NotMet(w),
     floor |-> \E o \in Outcome : w.floor[o] = "unmet"]

Reanchored(r) ==
    IF /\ ctl[r] # 0
       /\ valid[r].drifting
       /\ instances[ctl[r]].content.onDrift \in {"reanchor", "reanchor_then_gate"}
    THEN valid[r].missing ELSE {}

\* Not the code: a model's judgement is enough.
GateOnModel(r) ==
    /\ ctl[r] # 0
    /\ valid[r].drifting
    /\ instances[ctl[r]].content.onDrift \in {"gate", "reanchor_then_gate"}

ShouldGate(r) ==
    /\ ctl[r] # 0
    /\ valid[r].drifting
    /\ instances[ctl[r]].content.onDrift \in {"gate", "reanchor_then_gate"}
    /\ valid[r].floor

\* The controller of the request, looked up when the first execution is over.
Armed == IF Active # 0 /\ instances[Active].content.onDrift # "unarmed" THEN Active ELSE 0

(***************************************************************************)
(* Rows                                                                    *)
(***************************************************************************)
Row(rev, parent, by) == [rev |-> rev, parent |-> parent, by |-> by]
Refused(r, plan) == (\E row \in saved[r] : row.rev = plan.rev) \/ May("unsaved")

\* save_plan_revision: a refused row is a warning of the result.
Save(r, plan) ==
    \/ /\ ~\E row \in saved[r] : row.rev = plan.rev
       /\ saved' = [saved EXCEPT ![r] = @ \cup {Row(plan.rev, plan.parent, "request")}]
       /\ UNCHANGED result
    \/ /\ Refused(r, plan)
       /\ result' = [result EXCEPT ![r].warned = TRUE]
       /\ UNCHANGED saved

-------------------------------------------------------------------------------
(* The plan is made within the process that is active now. *)
Open(r) ==
    /\ pc[r] = "idle"
    /\ IF setting.enabled
       THEN /\ proc' = [proc EXCEPT ![r] = Active]
            /\ \E special \in {FALSE} \cup {May("special")} :
                  list' = [list EXCEPT ![r] = <<Plan(1, 0, "revise", special)>>]
            /\ Goto(r, "keep")
       ELSE Goto(r, "done") /\ UNCHANGED <<proc, list>>
    /\ UNCHANGED <<processVars, setting, ctl, aim, saved, works, told, valid, asked, result,
                   trigger, outside>>

\* Which way: a crystallised plan goes to Deborah; a plan without conformance may fail.
Keep(r) ==
    /\ pc[r] = "keep"
    /\ Save(r, Now(r))
    /\ \/ setting.strict /\ Goto(r, "failed")
       \/ setting.framed /\ Now(r).special /\ Goto(r, "framed")
       \/ setting.interpretive /\ Goto(r, "run")
       \/ ~setting.interpretive /\ Goto(r, "execute")
    /\ UNCHANGED <<processVars, setting, proc, ctl, aim, list, works, told, valid, asked, trigger,
                   outside>>

Framed(r) ==
    /\ pc[r] = "framed"
    /\ Goto(r, "specialist")
    /\ UNCHANGED <<processVars, setting, proc, ctl, aim, list, saved, works, told, valid, asked,
                   result, trigger, outside>>

\* Without the interpreter: one execution and at most one revision, saved afterwards.
Execute(r) ==
    /\ pc[r] = "execute"
    /\ \/ May("raise") /\ Goto(r, "failed") /\ UNCHANGED <<list, asked, works>>
       \/ \E w \in Works, d \in Decision :
            /\ works' = [works EXCEPT ![r] = <<[brought |-> w, specialist |-> FALSE]>>]
            /\ IF setting.max > 1
               THEN /\ asked' = [asked EXCEPT ![r] = <<[run |-> 1, missing |-> {}]>>]
                    /\ list' = [list EXCEPT ![r] = Append(@, Plan(2, 1, d, Now(r).special))]
                    /\ Goto(r, "keepRevision")
               ELSE Goto(r, "specialist") /\ UNCHANGED <<asked, list>>
    /\ UNCHANGED <<processVars, setting, proc, ctl, aim, saved, told, valid, result, trigger,
                   outside>>

KeepRevision(r) ==
    /\ pc[r] = "keepRevision"
    /\ Save(r, Now(r))
    /\ Goto(r, "specialist")
    /\ UNCHANGED <<processVars, setting, proc, ctl, aim, list, works, told, valid, asked, trigger,
                   outside>>

-------------------------------------------------------------------------------
\* Not the code: the result of an execution replaces the one before.
InterpretAnew(r) ==
    /\ pc[r] = "run"
    /\ \/ /\ May("raise") /\ Goto(r, "failed")
          /\ UNCHANGED <<list, works, aim, result>>
       \/ \E w \in Works, mid \in 0 .. IF May("mid") THEN MaxMid ELSE 0,
             success \in {FALSE} \cup {Now(r).special} :
            /\ works' = [works EXCEPT ![r] =
                    Append(@, [brought |-> w, specialist |-> success])]
            /\ list' = [list EXCEPT ![r][Len(list[r])] =
                    IF mid = 0 THEN @
                    ELSE Plan(@.rev + mid, @.rev + mid - 1, "revise", @.special)]
            /\ result' = [result EXCEPT ![r].specialist = success]
            /\ \/ Goto(r, "ran") /\ UNCHANGED aim
               \/ /\ May("await") /\ Active # 0
                  /\ aim' = [aim EXCEPT ![r] = Active]
                  /\ Goto(r, "await")
    /\ UNCHANGED <<processVars, setting, proc, ctl, saved, told, valid, asked, trigger, outside>>

(* An execution: the plan may be revised at each step, an AWAIT step may halt it. *)
Interpret(r) ==
    /\ pc[r] = "run"
    /\ \/ /\ May("raise") /\ Goto(r, "failed")
          /\ UNCHANGED <<list, works, aim, result>>
       \/ \E w \in Works, mid \in 0 .. IF May("mid") THEN MaxMid ELSE 0,
             success \in {FALSE} \cup {Now(r).special} :
            /\ works' = [works EXCEPT ![r] =
                    Append(@, [brought |-> w, specialist |-> success])]
            /\ list' = [list EXCEPT ![r][Len(list[r])] =
                    IF mid = 0 THEN @
                    ELSE Plan(@.rev + mid, @.rev + mid - 1, "revise", @.special)]
            /\ result' = [result EXCEPT ![r].specialist = @ \/ success]
            /\ \/ Goto(r, "ran") /\ UNCHANGED aim
               \/ /\ May("await") /\ Active # 0
                  /\ aim' = [aim EXCEPT ![r] = Active]
                  /\ Goto(r, "await")
    /\ UNCHANGED <<processVars, setting, proc, ctl, saved, told, valid, asked, trigger, outside>>

\* Not the code: the request waits while a gate is open.
AwaitDecision(r) ==
    /\ pc[r] = "await"
    /\ instances[aim[r]].status # "awaiting_gate"
    /\ ReachGate(aim[r], "await")
    /\ Goto(r, "ran")
    /\ UNCHANGED <<templates, desk, acts, setting, proc, ctl, aim, list, saved, works, told, valid,
                   asked, result, trigger, outside>>

\* _record_process_gate_for_await writes to the instance it found.
AwaitGate(r) ==
    /\ pc[r] = "await"
    /\ ReachGate(aim[r], "await")
    /\ Goto(r, "ran")
    /\ UNCHANGED <<templates, desk, acts, setting, proc, ctl, aim, list, saved, works, told, valid,
                   asked, result, trigger, outside>>

\* Not the code: only the first execution is assessed.
RanUnassessed(r) ==
    /\ pc[r] = "ran"
    /\ Save(r, Now(r))
    /\ told' = [told EXCEPT ![r] = Len(works[r])]
    /\ LET first == Len(works[r]) = 1
           i == IF first THEN Armed ELSE ctl[r]
       IN  /\ ctl' = [ctl EXCEPT ![r] = i]
           /\ valid' = IF i = 0 \/ ~first THEN valid
                       ELSE [valid EXCEPT ![r] = Assess(i, works[r][Len(works[r])].brought)]
    /\ Goto(r, "revise")
    /\ UNCHANGED <<processVars, setting, proc, aim, list, works, asked, trigger, outside>>

\* The executed plan is saved again, its result becomes what the planner is told.
Ran(r) ==
    /\ pc[r] = "ran"
    /\ Save(r, Now(r))
    /\ told' = [told EXCEPT ![r] = Len(works[r])]
    /\ LET first == Len(works[r]) = 1
           i == IF first THEN Armed ELSE ctl[r]
       IN  /\ ctl' = [ctl EXCEPT ![r] = i]
           /\ valid' = IF i = 0 THEN valid
                       ELSE [valid EXCEPT ![r] = Assess(i, works[r][Len(works[r])].brought)]
    /\ Goto(r, "revise")
    /\ UNCHANGED <<processVars, setting, proc, aim, list, works, asked, trigger, outside>>

\* The planner is asked for a complete replacement; when it fails the plan is stable.
Propose(r) ==
    /\ pc[r] = "revise"
    /\ IF Len(list[r]) < IF setting.max < 1 THEN 1 ELSE setting.max
       THEN /\ asked' = [asked EXCEPT ![r] =
                    Append(@, [run |-> told[r], missing |-> Reanchored(r)])]
            /\ \E d \in Decision, special \in {FALSE} \cup {May("special")} :
                  list' = [list EXCEPT ![r] =
                    Append(@, Plan(Now(r).rev + 1, Now(r).rev, d, special))]
            /\ Goto(r, "proposed")
       ELSE Goto(r, "specialist") /\ UNCHANGED <<asked, list>>
    /\ UNCHANGED <<processVars, setting, proc, ctl, aim, saved, works, told, valid, result,
                   trigger, outside>>

Proposed(r) ==
    /\ pc[r] = "proposed"
    /\ Save(r, Now(r))
    /\ Goto(r, IF Now(r).decision = "revise" THEN "run"
               ELSE IF Now(r).decision # "blocked" /\ ShouldGate(r) THEN "gate"
               ELSE "specialist")
    /\ UNCHANGED <<processVars, setting, proc, ctl, aim, list, works, told, valid, asked, trigger,
                   outside>>

DriftGate(r) ==
    /\ pc[r] = "gate"
    /\ ReachGate(ctl[r], "outcomes:drift")
    /\ result' = [result EXCEPT ![r].gate = TRUE]
    /\ Goto(r, "specialist")
    /\ UNCHANGED <<templates, desk, acts, setting, proc, ctl, aim, list, saved, works, told, valid,
                   asked, trigger, outside>>

-------------------------------------------------------------------------------
(* A specialist that the plan asks for, unless an execution has its result. *)
Specialist(r) ==
    /\ pc[r] = "specialist"
    /\ trigger' = [trigger EXCEPT ![r] = Now(r).special /\ ~result[r].specialist]
    /\ Goto(r, "done")
    /\ UNCHANGED <<processVars, setting, proc, ctl, aim, list, saved, works, told, valid, asked,
                   result, outside>>

(* revise_saved_plan, from outside: the latest row, below the limit, and one more. *)
LatestRow(r) == CHOOSE row \in saved[r] : \A other \in saved[r] : other.rev <= row.rev

ReadSaved(r) ==
    /\ outside[r] = 0 /\ saved[r] # {}
    /\ Act
    /\ LatestRow(r).rev < setting.max
    /\ outside' = [outside EXCEPT ![r] = LatestRow(r).rev]
    /\ UNCHANGED <<templates, instances, desk, setting, pc, proc, ctl, aim, list, saved, works,
                   told, valid, asked, result, trigger>>

ReviseSaved(r) ==
    /\ outside[r] # 0
    /\ outside' = [outside EXCEPT ![r] = 0]
    /\ saved' = IF \E row \in saved[r] : row.rev = outside[r] + 1 THEN saved
                ELSE [saved EXCEPT ![r] =
                        @ \cup {Row(outside[r] + 1, outside[r], "operator")}]
    /\ UNCHANGED <<processVars, setting, pc, proc, ctl, aim, list, works, told, valid, asked,
                   result, trigger>>
-------------------------------------------------------------------------------
Init ==
    /\ ProcessInit
    /\ setting \in Setting
    /\ acts = setting.acts
    /\ pc = [r \in Request |-> "idle"]
    /\ proc = [r \in Request |-> 0]
    /\ ctl = [r \in Request |-> 0]
    /\ aim = [r \in Request |-> 0]
    /\ list = [r \in Request |-> <<>>]
    /\ saved = [r \in Request |-> {}]
    /\ works = [r \in Request |-> <<>>]
    /\ told = [r \in Request |-> 0]
    /\ valid = [r \in Request |-> [drifting |-> FALSE, missing |-> {}, floor |-> FALSE]]
    /\ asked = [r \in Request |-> <<>>]
    /\ result = [r \in Request |-> [specialist |-> FALSE, gate |-> FALSE, warned |-> FALSE]]
    /\ trigger = [r \in Request |-> FALSE]
    /\ outside = [r \in Request |-> 0]

RequestStep(r) ==
    \/ Open(r) \/ Keep(r) \/ Framed(r) \/ Execute(r) \/ KeepRevision(r)
    \/ Interpret(r) \/ AwaitGate(r) \/ Ran(r) \/ Propose(r) \/ Proposed(r) \/ DriftGate(r)
    \/ Specialist(r)

Next ==
    \/ ProcessNext /\ UNCHANGED requestVars
    \/ \E r \in Request : RequestStep(r) \/ ReadSaved(r) \/ ReviseSaved(r)

(* A request runs on its own thread until it returns; operators act when they like. *)
Spec == Init /\ [][Next]_vars /\ \A r \in Request : WF_vars(RequestStep(r))

-------------------------------------------------------------------------------
Over(r) == pc[r] \in {"done", "failed"}

(* State, and the instances that a request holds. *)
TypeOK ==
    /\ ProcessTypeOK
    /\ \A r \in Request :
        /\ {proc[r], ctl[r], aim[r]} \subseteq {0} \cup Instance
        /\ told[r] \in 0 .. Len(works[r])
        /\ Len(asked[r]) <= Len(works[r])
        /\ \A row \in saved[r] : row.parent < row.rev

(* A request that ends on a stable or complete plan has raised the drift gate of its    *)
(* process exactly when the work of its last execution drifts, the process gates drift, *)
(* and the floor itself, not only a model, finds an outcome unmet; outcomes_control.py   *)
(* :11, :16-17.                                                                          *)
DriftHoldsBack ==
    \A r \in Request : pc[r] = "done" =>
        (result[r].gate <=>
            /\ ctl[r] # 0
            /\ Len(list[r]) > 1
            /\ Now(r).decision \in {"stable", "complete"}
            /\ LET w == works[r][Len(works[r])].brought
                   c == instances[ctl[r]].content
               IN  /\ c.onDrift \in {"gate", "reanchor_then_gate"}
                   /\ Drifting(w, c)
                   /\ \E o \in Outcome : w.floor[o] = "unmet"
                   /\ <<"gate.reached", "outcomes:drift">>
                         \in {instances[ctl[r]].trace[k] : k \in DOMAIN instances[ctl[r]].trace})

(* The planner is asked once for each execution, about that execution, and a process     *)
(* that re-anchors names just what its work has not met; recursive.py:594-656.           *)
AnswersTheLastRun ==
    \A r \in Request : \A k \in DOMAIN asked[r] :
        /\ asked[r][k].run = k
        /\ asked[r][k].missing =
             IF ctl[r] = 0 THEN {}
             ELSE LET w == works[r][k].brought
                      c == instances[ctl[r]].content
                  IN  IF Drifting(w, c) /\ c.onDrift \in {"reanchor", "reanchor_then_gate"}
                      THEN NotMet(w) ELSE {}

(* The specialist is called after the executions only if none of them had its result;    *)
(* recursive.py:692-728.                                                                 *)
SpecialistOnce ==
    \A r \in Request : trigger[r] =>
        \A k \in DOMAIN works[r] : ~works[r][k].specialist

(* A request returns, however often its plan is revised, by itself or from outside.      *)
Returns == \A r \in Request : pc[r] # "idle" ~> Over(r)

=============================================================================

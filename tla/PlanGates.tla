------------------------------- MODULE PlanGates -------------------------------
(***************************************************************************)
(* Human gates in plan execution.  planning/executor.py interpret_plan     *)
(* walks the steps of a plan revision and saves its progress to a          *)
(* plan_executions row after every step; an AWAIT step pauses the active   *)
(* process instance (process/enforcement.py reach_gate); an operator       *)
(* answers with resolve_gate, which writes a signal into the saved row     *)
(* (planning/execution_store.py signal_awaiting_step).  Interpreter and    *)
(* operator run in different threads and share nothing but the rows, whose *)
(* updates are single and unconditional.  One session, simple plans: CALL  *)
(* and AWAIT steps, no mid-step revision.                                  *)
(***************************************************************************)
EXTENDS Naturals

CONSTANTS
    Plan,          \* planned requests of the session
    MaxRevision,   \* config.runtime.planning_max_revisions
    NumSteps,      \* steps of a plan, in the order of its list
    Deps,          \* [Step -> SUBSET Step], depends_on
    Await,         \* the AWAIT steps
    DefaultEvent,  \* those of them that name no EVENT
    OnTimeout,     \* [Await -> {"never", "blocked", "completed"}], TIMEOUT and THEN
    Once,          \* steps that call the once-only tirzah_retrieval handler
    MaxInstances,  \* bound on the process instances of the session
    Operator,      \* concurrent resolve_gate requests
    Resumes,       \* whether callers interpret an interrupted revision again
    Crashes        \* whether an interpreter may die between two steps

Step == 1 .. NumSteps
Revision == 1 .. MaxRevision
Instance == 1 .. MaxInstances

ASSUME GateAssumption ==
    /\ NumSteps \in Nat /\ MaxInstances \in Nat
    /\ MaxRevision \in Nat \ {0}
    /\ Await \subseteq Step /\ DefaultEvent \subseteq Await
    /\ Once \subseteq Step \ Await
    /\ Deps \in [Step -> SUBSET Step]
    /\ OnTimeout \in [Await -> {"never", "blocked", "completed"}]
    /\ Resumes \in BOOLEAN /\ Crashes \in BOOLEAN

Key == Plan \X Revision   \* (plan_id, revision) identifies a row

VARIABLES
    rowStatus,  \* status of each plan_executions row
    prog,       \* the progress saved in it
    older,      \* updated_at: <<j, k>> when j was updated before k
    inst,       \* status of each process instance, numbered by started_at
    pc, rev,    \* each plan's interpreter: next step, revision
    mem,        \* the progress it holds in memory
    todo,       \* ready steps it has left in this round
    rounds,     \* rounds begun
    gate,       \* instance it looked up for a gate (0: none)
    opc, oinst, ostep, okey, ocopy,  \* each resolve_gate request
    granted,    \* history: AWAIT steps an approval reached, per row
    expired,    \* history: AWAIT steps completed by their timeout, per row
    ran         \* history: calls whose handler was run, per row

rowVars == <<rowStatus, prog, older>>
runVars == <<pc, rev, mem, todo, rounds, gate>>
opVars == <<opc, oinst, ostep, okey, ocopy>>
history == <<granted, expired, ran>>
vars == <<rowVars, inst, runVars, opVars, history>>

StepStatus == {"pending", "awaiting", "completed", "blocked", "skipped"}

\* What a row or an interpreter knows: step statuses, await_signals (an approval
\* sets the step's own id and "default"; nothing sets a named event), the
\* process_gate markers and the effects of once-only handlers.
Effect == {"tirzah_retrieval"}
EffectOf(s) == IF s \in Once THEN Effect ELSE {}

Progress == [st : [Step -> StepStatus], approved : SUBSET Await,
             marks : SUBSET Step, effects : SUBSET Effect]

Fresh == [st |-> [s \in Step |-> "pending"], approved |-> {},
          marks |-> {}, effects |-> {}]

Init ==
    /\ rowStatus = [k \in Key |-> "absent"]
    /\ prog = [k \in Key |-> Fresh]
    /\ older = {}
    /\ inst = [i \in Instance |-> "absent"]
    /\ pc = [p \in Plan |-> "idle"]
    /\ rev = [p \in Plan |-> 1]
    /\ mem = [p \in Plan |-> Fresh]
    /\ todo = [p \in Plan |-> {}]
    /\ rounds = [p \in Plan |-> 0]
    /\ gate = [p \in Plan |-> 0]
    /\ opc = [o \in Operator |-> "idle"]
    /\ oinst = [o \in Operator |-> 0]
    /\ ostep = [o \in Operator |-> 0]
    /\ okey = [o \in Operator |-> <<>>]
    /\ ocopy = [o \in Operator |-> Fresh]
    /\ granted = [k \in Key |-> {}]
    /\ expired = [k \in Key |-> {}]
    /\ ran = [k \in Key |-> {}]

-------------------------------------------------------------------------------
(* Progress: ready_steps and resume_awaiting_steps *)

Ready(r) ==
    {s \in Step : r.st[s] = "pending" /\ \A d \in Deps[s] : r.st[d] = "completed"}

\* Mutant: a signal of any execution of the session will do.
SatisfiedInSession(r, a) == \E k \in Key : a \in prog[k].approved

\* await_event_satisfied: a signal for the step, or for the event it waits for.
Satisfied(r, a) == a \in r.approved \/ (a \in DefaultEvent /\ r.approved # {})

Waiting(r) == {a \in Await : r.st[a] = "awaiting"}

\* The timers that may have run out by now.
MayExpire(r) == {a \in Waiting(r) : ~Satisfied(r, a) /\ OnTimeout[a] # "never"}

\* resume_awaiting_steps, when the timers of T have run out.
Promoted(r, T) ==
    [r EXCEPT !.st = [s \in Step |->
        IF s \in T THEN OnTimeout[s]
        ELSE IF s \in Waiting(r) /\ Satisfied(r, s) THEN "completed"
        ELSE r.st[s]]]

Expire(k, T) ==
    expired' = [expired EXCEPT ![k] = @ \cup {a \in T : OnTimeout[a] = "completed"}]

\* The row was written now: every other one is older.
Touch(k) ==
    older' = {e \in older : e[1] # k} \cup ((Key \ {k}) \X {k})

-------------------------------------------------------------------------------
(* interpret_plan *)

KeyOf(p) == <<p, rev[p]>>
At(p, step) == pc[p] = step
Goto(p, step) == pc' = [pc EXCEPT ![p] = step]

\* The step at hand: the ready list keeps the order of the plan.
Current(p, s) == s \in todo[p] /\ \A t \in todo[p] : s <= t

\* load_plan_execution finds rows in status running only.
Begin(p) ==
    /\ At(p, "idle")
    /\ mem' = [mem EXCEPT ![p] =
                  IF rowStatus[KeyOf(p)] = "running" THEN prog[KeyOf(p)] ELSE Fresh]
    /\ rounds' = [rounds EXCEPT ![p] = 0]
    /\ Goto(p, "round")
    /\ UNCHANGED <<rowVars, inst, rev, todo, gate, opVars, history>>

\* max_rounds; Begin always has one left.
MaxRounds == NumSteps + 1

Round(p) ==
    /\ At(p, "round")
    /\ rounds' = [rounds EXCEPT ![p] = @ + 1]
    /\ \E T \in SUBSET MayExpire(mem[p]) :
         LET r == Promoted(mem[p], T) IN
         /\ mem' = [mem EXCEPT ![p] = r]
         /\ todo' = [todo EXCEPT ![p] = Ready(r)]
         /\ Goto(p, IF Ready(r) = {} THEN "final" ELSE "step")
         /\ Expire(KeyOf(p), T)
    /\ UNCHANGED <<rowVars, inst, rev, gate, opVars, granted, ran>>

SetStep(p, s, status) == mem' = [mem EXCEPT ![p].st[s] = status]

\* A handler runs; its outcome is its own.
Call(p, s) ==
    /\ At(p, "step") /\ Current(p, s)
    /\ s \notin Await
    /\ EffectOf(s) \cap mem[p].effects = {}
    /\ \/ mem' = [mem EXCEPT ![p].st[s] = "completed",
                             ![p].effects = @ \cup EffectOf(s)]
       \/ SetStep(p, s, "blocked")
    /\ ran' = [ran EXCEPT ![KeyOf(p)] = @ \cup {s}]
    /\ Goto(p, "save")
    /\ UNCHANGED <<rowVars, inst, rev, todo, rounds, gate, opVars, granted, expired>>

\* The once-only handler sees its effect and steps aside.
SkipDuplicate(p, s) ==
    /\ At(p, "step") /\ Current(p, s)
    /\ s \notin Await
    /\ EffectOf(s) \cap mem[p].effects # {}
    /\ SetStep(p, s, "skipped")
    /\ Goto(p, "save")
    /\ UNCHANGED <<rowVars, inst, rev, todo, rounds, gate, opVars, history>>

\* execute_await_step
ReachAwait(p, s) ==
    /\ At(p, "step") /\ Current(p, s)
    /\ s \in Await
    /\ IF Satisfied(mem[p], s)
         THEN SetStep(p, s, "completed") /\ Goto(p, "save")
         ELSE /\ SetStep(p, s, "awaiting")
              /\ Goto(p, IF s \in mem[p].marks THEN "save" ELSE "lookup")
    /\ UNCHANGED <<rowVars, inst, rev, todo, rounds, gate, opVars, history>>

Open == {i \in Instance : inst[i] \in {"active", "awaiting_gate"}}

\* active_instance_for_session: the latest instance that is not terminal.
LookUpInstance(p) ==
    /\ At(p, "lookup")
    /\ IF Open = {}
         THEN Goto(p, "save") /\ UNCHANGED gate
         ELSE /\ \E i \in Open : /\ \A j \in Open : j <= i
                                 /\ gate' = [gate EXCEPT ![p] = i]
              /\ Goto(p, "gate")
    /\ UNCHANGED <<rowVars, inst, rev, mem, todo, rounds, opVars, history>>

\* reach_gate, whatever became of the instance since, and the marker.
ReachGate(p, s) ==
    /\ At(p, "gate") /\ Current(p, s)
    /\ inst' = [inst EXCEPT ![gate[p]] = "awaiting_gate"]
    /\ mem' = [mem EXCEPT ![p].marks = @ \cup {s}]
    /\ gate' = [gate EXCEPT ![p] = 0]
    /\ Goto(p, "save")
    /\ UNCHANGED <<rowVars, rev, todo, rounds, opVars, history>>

\* save_plan_execution replaces all progress of the row by the interpreter's.
Save(p, status) ==
    /\ rowStatus' = [rowStatus EXCEPT ![KeyOf(p)] = status]
    /\ prog' = [prog EXCEPT ![KeyOf(p)] = mem[p]]
    /\ Touch(KeyOf(p))

SaveStep(p, s) ==
    /\ At(p, "save") /\ Current(p, s)
    /\ Save(p, "running")
    /\ todo' = [todo EXCEPT ![p] = @ \ {s}]
    /\ Goto(p, IF todo[p] # {s} THEN "step"
               ELSE IF rounds[p] < MaxRounds THEN "round" ELSE "final")
    /\ UNCHANGED <<inst, rev, mem, rounds, gate, opVars, history>>

Has(r, status) == \E s \in Step : r.st[s] = status

FinalStatus(r) ==
    IF Has(r, "blocked") THEN "blocked"
    ELSE IF Has(r, "completed") /\ ~Has(r, "awaiting") THEN "completed"
    ELSE "running"

Finish(p) ==
    /\ At(p, "final")
    /\ Save(p, FinalStatus(mem[p]))
    /\ mem' = [mem EXCEPT ![p] = Fresh]
    /\ rounds' = [rounds EXCEPT ![p] = 0]
    /\ Goto(p, "decide")
    /\ UNCHANGED <<inst, rev, todo, gate, opVars, history>>

\* process_frontend_request asks the planner for another revision.
Revise(p) ==
    /\ At(p, "decide")
    /\ rev[p] < MaxRevision
    /\ rev' = [rev EXCEPT ![p] = @ + 1]
    /\ Goto(p, "idle")
    /\ UNCHANGED <<rowVars, inst, mem, todo, rounds, gate, opVars, history>>

\* stable, complete, blocked, or the limit of revisions
Conclude(p) ==
    /\ At(p, "decide")
    /\ Goto(p, "ended")
    /\ UNCHANGED <<rowVars, inst, rev, mem, todo, rounds, gate, opVars, history>>

Crash(p) ==
    /\ Crashes
    /\ pc[p] \notin {"idle", "decide", "ended"}
    /\ Goto(p, "ended")
    /\ mem' = [mem EXCEPT ![p] = Fresh]
    /\ todo' = [todo EXCEPT ![p] = {}]
    /\ rounds' = [rounds EXCEPT ![p] = 0]
    /\ gate' = [gate EXCEPT ![p] = 0]
    /\ UNCHANGED <<rowVars, inst, rev, opVars, history>>

\* A caller interprets the revision again, as the tests of the store do.
Resume(p) ==
    /\ Resumes
    /\ At(p, "ended")
    /\ rowStatus[KeyOf(p)] \in {"absent", "running"}
    /\ Goto(p, "idle")
    /\ UNCHANGED <<rowVars, inst, rev, mem, todo, rounds, gate, opVars, history>>

-------------------------------------------------------------------------------
(* resolve_gate with approved=True *)

OpGoto(o, step) == opc' = [opc EXCEPT ![o] = step]

\* Rows of the session that wait at step a.
Candidates(a) == {k \in Key : rowStatus[k] = "running" /\ prog[k].st[a] = "awaiting"}

\* signal_awaiting_step reads all running rows; the latest candidate is taken.
FindAwaiting(o, i, a) ==
    /\ opc[o] = "idle"
    /\ inst[i] # "absent"
    /\ oinst' = [oinst EXCEPT ![o] = i]
    /\ ostep' = [ostep EXCEPT ![o] = a]
    /\ IF Candidates(a) = {}
         THEN OpGoto(o, "activate") /\ UNCHANGED <<okey, ocopy>>
         ELSE /\ \E k \in Candidates(a) :
                   /\ \A j \in Candidates(a) \ {k} : <<j, k>> \in older
                   /\ okey' = [okey EXCEPT ![o] = k]
                   /\ ocopy' = [ocopy EXCEPT ![o] = prog[k]]
              /\ OpGoto(o, "signal")
    /\ UNCHANGED <<rowVars, inst, runVars, history>>

\* It writes the copy back with the signal and what the signal promotes.
Signal(o) ==
    /\ opc[o] = "signal"
    /\ LET k == okey[o]
           r == [ocopy[o] EXCEPT !.approved = @ \cup {ostep[o]}]
       IN /\ \E T \in SUBSET MayExpire(r) :
               /\ prog' = [prog EXCEPT ![k] = Promoted(r, T)]
               /\ Expire(k, T)
          /\ granted' = [granted EXCEPT ![k] = @ \cup {ostep[o]}]
          /\ Touch(k)
    /\ okey' = [okey EXCEPT ![o] = <<>>]
    /\ ocopy' = [ocopy EXCEPT ![o] = Fresh]
    /\ OpGoto(o, "activate")
    /\ UNCHANGED <<rowStatus, inst, runVars, oinst, ostep, ran>>

Activate(o) ==
    /\ opc[o] = "activate"
    /\ inst' = [inst EXCEPT ![oinst[o]] = "active"]
    /\ oinst' = [oinst EXCEPT ![o] = 0]
    /\ ostep' = [ostep EXCEPT ![o] = 0]
    /\ OpGoto(o, "idle")
    /\ UNCHANGED <<rowVars, runVars, okey, ocopy, history>>

-------------------------------------------------------------------------------
(* Process instances, one update each *)

StartInstance(i) ==
    /\ inst[i] = "absent"
    /\ \A j \in Instance : j < i => inst[j] # "absent"
    /\ inst' = [inst EXCEPT ![i] = "active"]
    /\ UNCHANGED <<rowVars, runVars, opVars, history>>

SetInstance(i, status) ==
    /\ inst[i] # "absent"
    /\ inst' = [inst EXCEPT ![i] = status]
    /\ UNCHANGED <<rowVars, runVars, opVars, history>>

FlagDeviation(i) == SetInstance(i, "awaiting_gate")

\* resolve_gate with approved=False, resolve_deviation, record_override
ReturnToActive(i) == SetInstance(i, "active")

CompleteInstance(i) == SetInstance(i, "completed")
AbandonInstance(i) == SetInstance(i, "abandoned")

-------------------------------------------------------------------------------

InterpreterNext(p) ==
    \/ Begin(p) \/ Round(p)
    \/ \E s \in Step : \/ Call(p, s) \/ SkipDuplicate(p, s) \/ ReachAwait(p, s)
                       \/ ReachGate(p, s) \/ SaveStep(p, s)
    \/ LookUpInstance(p) \/ Finish(p) \/ Revise(p) \/ Conclude(p)

OperatorNext(o) ==
    \/ \E i \in Instance, a \in Await : FindAwaiting(o, i, a)
    \/ Signal(o) \/ Activate(o)

InstanceNext(i) ==
    \/ StartInstance(i) \/ FlagDeviation(i) \/ ReturnToActive(i)
    \/ CompleteInstance(i) \/ AbandonInstance(i)

Next ==
    \/ \E p \in Plan : InterpreterNext(p) \/ Crash(p) \/ Resume(p)
    \/ \E o \in Operator : OperatorNext(o)
    \/ \E i \in Instance : InstanceNext(i)

Spec == Init /\ [][Next]_vars

-------------------------------------------------------------------------------
(* Properties *)

RunnerStep == {"idle", "round", "step", "lookup", "gate", "save",
               "final", "decide", "ended"}

\* Types of the rows, the instances and the two kinds of threads; a thread at
\* the gate holds an instance and one at the signal holds a row.
TypeOK ==
    /\ rowStatus \in [Key -> {"absent", "running", "completed", "blocked"}]
    /\ prog \in [Key -> Progress]
    /\ older \subseteq Key \X Key
    /\ inst \in [Instance -> {"absent", "active", "awaiting_gate", "completed", "abandoned"}]
    /\ pc \in [Plan -> RunnerStep]
    /\ rev \in [Plan -> Revision]
    /\ mem \in [Plan -> Progress]
    /\ todo \in [Plan -> SUBSET Step]
    /\ rounds \in [Plan -> Nat]
    /\ gate \in [Plan -> Instance \cup {0}]
    /\ \A p \in Plan : pc[p] = "gate" => gate[p] # 0
    /\ opc \in [Operator -> {"idle", "signal", "activate"}]
    /\ oinst \in [Operator -> Instance \cup {0}]
    /\ ostep \in [Operator -> Await \cup {0}]
    /\ ocopy \in [Operator -> Progress]
    /\ okey \in [Operator -> Key \cup {<<>>}]
    /\ \A o \in Operator : opc[o] # "idle" => oinst[o] # 0 /\ ostep[o] # 0
    /\ \A o \in Operator : opc[o] = "signal" => okey[o] \in Key
    /\ granted \in [Key -> SUBSET Await]
    /\ expired \in [Key -> SUBSET Await]
    /\ ran \in [Key -> SUBSET Step]

\* AWAIT step a of row k may be passed: an operator approved it for this row,
\* its timeout says to go on, or it names no event and the row got an approval.
Released(k, a) ==
    \/ a \in granted[k] \cup expired[k]
    \/ a \in DefaultEvent /\ granted[k] # {}

\* No handler runs before what its step depends on: the handlers of the calls
\* among them, and for each AWAIT a release of this very row.  Approvals for
\* another row, stale copies written back, crashes and resumed executions make
\* no difference.
EffectAfterRelease ==
    \A k \in Key : \A s \in ran[k] : \A d \in Deps[s] :
        IF d \in Await THEN Released(k, d) ELSE d \in ran[k]

\* What progress r of row k rests on: its signals were given to the row, its
\* completed gates were released and the handlers of its completed calls ran.
Grounded(k, r) ==
    /\ r.approved \subseteq granted[k]
    /\ \A s \in Step : r.st[s] = "completed" =>
          IF s \in Await THEN Released(k, s) ELSE s \in ran[k]

\* A round's list is set up only inside the round, and what its steps depend
\* on is completed; the steps not reached yet are pending.
TodoIsReady ==
    \A p \in Plan :
        /\ todo[p] # {} => pc[p] \in {"step", "lookup", "gate", "save"}
        /\ \A s \in todo[p] :
              /\ \A d \in Deps[s] : mem[p].st[d] = "completed"
              /\ At(p, "step") \/ (\E t \in todo[p] : t < s) => mem[p].st[s] = "pending"

\* The inductive invariant behind EffectAfterRelease: rows, interpreters and the
\* copies operators are about to write back are all grounded.
GateInv ==
    /\ \A k \in Key : Grounded(k, prog[k])
    /\ \A p \in Plan : Grounded(KeyOf(p), mem[p])
    /\ \A o \in Operator : opc[o] = "signal" => Grounded(okey[o], ocopy[o])
    /\ \A p \in Plan : At(p, "decide") => mem[p] = Fresh
    /\ TodoIsReady
    /\ EffectAfterRelease

\* planning/execution_store.py: "Inject a durable AWAIT signal into the latest
\* running plan execution": a row does not lose a signal it was given.
SignalIsDurable ==
    [][\A k \in Key : prog[k].approved \subseteq prog'[k].approved]_vars

================================================================================

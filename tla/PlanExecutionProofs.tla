-------------------------- MODULE PlanExecutionProofs --------------------------
(***************************************************************************)
(* Theorems about the execution of plans.  About PlanGates: its types, and *)
(* that no handler runs before what its step depends on, for any plan, any *)
(* number of plans, revisions, instances and operators, with crashes and   *)
(* resumed executions.  About PlanInterpreter: its types, for any plans    *)
(* and revisions, however constructs nest, and what is left of a plan      *)
(* without cycles when nothing is ready.  About ParallelBranches, for any  *)
(* number of branches and calls: the lock of shared branches and what it   *)
(* gives to MERGE, and the join of isolated branches as long as no calls   *)
(* overlap.                                                                *)
(***************************************************************************)
EXTENDS PlanGates, PlanInterpreter, ParallelBranches, FiniteSetTheorems, SequenceTheorems,
        WellFoundedInduction, TLAPS

(***************************************************************************)
(* Rows, interpreters and operators: PlanGates                             *)
(***************************************************************************)
USE GateAssumption DEF Step, Revision, Instance

\* The updates of a progress record are progress records.
LEMMA FreshType == Fresh \in Progress
BY DEF Fresh, Progress, StepStatus

\* Promoting waiting steps keeps a progress record one.
LEMMA PromotedType ==
    ASSUME NEW r \in Progress, NEW T \in SUBSET MayExpire(r)
    PROVE  Promoted(r, T) \in Progress
<1>1. \A s \in Step : (IF s \in T THEN OnTimeout[s]
                       ELSE IF s \in Waiting(r) /\ Satisfied(r, s) THEN "completed"
                       ELSE r.st[s]) \in StepStatus
  <2>1. \A s \in T : s \in Await /\ OnTimeout[s] \in {"blocked", "completed"}
    BY DEF MayExpire, Waiting
  <2>2. \A s \in Step : r.st[s] \in StepStatus
    BY DEF Progress
  <2> QED
    BY <2>1, <2>2 DEF StepStatus
<1>2. Promoted(r, T).st \in [Step -> StepStatus]
  BY <1>1 DEF Promoted, Progress
<1> QED
  BY <1>2 DEF Promoted, Progress

\* So does a new status of one step,
LEMMA SetStType ==
    ASSUME NEW r \in Progress, NEW s \in Step, NEW v \in StepStatus
    PROVE  [r EXCEPT !.st[s] = v] \in Progress
BY DEF Progress

\* a completed call with its effect,
LEMMA CalledType ==
    ASSUME NEW r \in Progress, NEW s \in Step
    PROVE  [r EXCEPT !.st[s] = "completed", !.effects = @ \cup EffectOf(s)] \in Progress
BY DEF Progress, StepStatus, EffectOf

\* a process_gate marker,
LEMMA MarkedType ==
    ASSUME NEW r \in Progress, NEW s \in Step
    PROVE  [r EXCEPT !.marks = @ \cup {s}] \in Progress
BY DEF Progress

\* and a signal.
LEMMA SignalledType ==
    ASSUME NEW r \in Progress, NEW a \in Await
    PROVE  [r EXCEPT !.approved = @ \cup {a}] \in Progress
BY DEF Progress

\* A change of one interpreter's memory, as an update of the whole record.
LEMMA SetStepIs ==
    ASSUME NEW p \in Plan, NEW s \in Step, NEW v \in StepStatus, SetStep(p, s, v)
    PROVE  mem' = [mem EXCEPT ![p] = [mem[p] EXCEPT !.st[s] = v]]
BY DEF SetStep

\* SetStep keeps the type of the memories.
LEMMA SetStepType ==
    ASSUME mem \in [Plan -> Progress], NEW p \in Plan, NEW s \in Step,
           NEW v \in StepStatus, SetStep(p, s, v)
    PROVE  mem' \in [Plan -> Progress]
<1>1. [mem[p] EXCEPT !.st[s] = v] \in Progress
  BY SetStType
<1> QED
  BY <1>1, SetStepIs

\* The statuses that steps are set to.
LEMMA StatusNames == {"awaiting", "completed", "blocked", "skipped"} \subseteq StepStatus
BY DEF StepStatus

\* Types are preserved by every step.
LEMMA TypeStep == TypeOK /\ [Next]_vars => TypeOK'
<1> SUFFICES ASSUME TypeOK, [Next]_vars PROVE TypeOK'
  OBVIOUS
<1> USE DEF TypeOK
<1>k. \A p \in Plan : KeyOf(p) \in Key
  BY DEF KeyOf, Key
<1>1. ASSUME NEW p \in Plan, Begin(p) PROVE TypeOK'
  <2>1. mem'[p] \in Progress
    BY <1>1, <1>k, FreshType DEF Begin
  <2> QED
    BY <1>1, <2>1 DEF Begin, Goto, RunnerStep, rowVars, opVars, history
<1>2. ASSUME NEW p \in Plan, Round(p) PROVE TypeOK'
  <2>1. PICK T \in SUBSET MayExpire(mem[p]) :
          /\ mem' = [mem EXCEPT ![p] = Promoted(mem[p], T)]
          /\ todo' = [todo EXCEPT ![p] = Ready(Promoted(mem[p], T))]
          /\ pc' = [pc EXCEPT ![p] = IF Ready(Promoted(mem[p], T)) = {} THEN "final" ELSE "step"]
          /\ expired' = [expired EXCEPT ![KeyOf(p)] = @ \cup {a \in T : OnTimeout[a] = "completed"}]
    BY <1>2 DEF Round, Goto, Expire
  <2>2. mem' \in [Plan -> Progress]
    BY <2>1, PromotedType
  <2>3. todo' \in [Plan -> SUBSET Step]
    BY <2>1 DEF Ready
  <2>4. expired' \in [Key -> SUBSET Await]
    BY <2>1, <1>k DEF MayExpire, Waiting
  <2>5. pc' \in [Plan -> RunnerStep] /\ \A q \in Plan : pc'[q] = "gate" => gate[q] # 0
    BY <2>1 DEF RunnerStep
  <2> QED
    BY <1>2, <2>2, <2>3, <2>4, <2>5 DEF Round, rowVars, opVars
<1>4. ASSUME NEW p \in Plan, NEW s \in Step, Call(p, s) PROVE TypeOK'
  <2>1. mem' \in [Plan -> Progress]
    <3>1. CASE mem' = [mem EXCEPT ![p].st[s] = "completed",
                                  ![p].effects = @ \cup EffectOf(s)]
      <4>1. mem' = [mem EXCEPT ![p] = [mem[p] EXCEPT
                       !.st[s] = "completed", !.effects = @ \cup EffectOf(s)]]
        BY <3>1
      <4> QED
        BY <4>1, CalledType
    <3>2. CASE SetStep(p, s, "blocked")
      BY <3>2, SetStepType, StatusNames
    <3> QED
      BY <1>4, <3>1, <3>2 DEF Call
  <2>2. ran' \in [Key -> SUBSET Step]
    BY <1>4, <1>k DEF Call
  <2> QED
    BY <1>4, <2>1, <2>2 DEF Call, Goto, RunnerStep, rowVars, opVars
<1>5. ASSUME NEW p \in Plan, NEW s \in Step, SkipDuplicate(p, s) PROVE TypeOK'
  <2>1. mem' \in [Plan -> Progress]
    BY <1>5, SetStepType, StatusNames DEF SkipDuplicate
  <2> QED
    BY <1>5, <2>1 DEF SkipDuplicate, Goto, RunnerStep, rowVars, opVars, history
<1>6. ASSUME NEW p \in Plan, NEW s \in Step, ReachAwait(p, s) PROVE TypeOK'
  <2>1. mem' \in [Plan -> Progress]
    <3>1. SetStep(p, s, "completed") \/ SetStep(p, s, "awaiting")
      BY <1>6 DEF ReachAwait
    <3> QED
      BY <3>1, SetStepType, StatusNames
  <2> QED
    BY <1>6, <2>1 DEF ReachAwait, Goto, RunnerStep, rowVars, opVars, history
<1>7. ASSUME NEW p \in Plan, LookUpInstance(p) PROVE TypeOK'
  <2>1. gate' \in [Plan -> Instance \cup {0}]
    BY <1>7 DEF LookUpInstance, Open
  <2>3. pc' \in [Plan -> RunnerStep]
    BY <1>7 DEF LookUpInstance, Goto, RunnerStep
  <2>2. \A q \in Plan : pc'[q] = "gate" => gate'[q] # 0
    BY <1>7 DEF LookUpInstance, Goto, Open
  <2> QED
    BY <1>7, <2>1, <2>2, <2>3 DEF LookUpInstance, rowVars, opVars, history
<1>8. ASSUME NEW p \in Plan, NEW s \in Step, ReachGate(p, s) PROVE TypeOK'
  <2>1. mem' = [mem EXCEPT ![p] = [mem[p] EXCEPT !.marks = @ \cup {s}]]
    BY <1>8 DEF ReachGate
  <2>2. mem' \in [Plan -> Progress]
    BY <2>1, MarkedType
  <2> QED
    BY <1>8, <2>2 DEF ReachGate, At, Goto, RunnerStep, rowVars, opVars, history
<1>9. ASSUME NEW p \in Plan, NEW s \in Step, SaveStep(p, s) PROVE TypeOK'
  <2>1. older' \subseteq Key \X Key
    BY <1>9, <1>k DEF SaveStep, Save, Touch
  <2>2. rowStatus' \in [Key -> {"absent", "running", "completed", "blocked"}]
        /\ prog' \in [Key -> Progress]
    BY <1>9, <1>k DEF SaveStep, Save
  <2> QED
    BY <1>9, <2>1, <2>2 DEF SaveStep, Goto, RunnerStep, opVars, history
<1>10. ASSUME NEW p \in Plan, Finish(p) PROVE TypeOK'
  <2>1. older' \subseteq Key \X Key
    BY <1>10, <1>k DEF Finish, Save, Touch
  <2>2. rowStatus' \in [Key -> {"absent", "running", "completed", "blocked"}]
        /\ prog' \in [Key -> Progress] /\ mem' \in [Plan -> Progress]
    BY <1>10, <1>k, FreshType DEF Finish, Save, FinalStatus
  <2> QED
    BY <1>10, <2>1, <2>2 DEF Finish, Goto, RunnerStep, opVars, history
<1>11. ASSUME NEW p \in Plan, Revise(p) PROVE TypeOK'
  BY <1>11 DEF Revise, Goto, RunnerStep, rowVars, opVars, history
<1>12. ASSUME NEW p \in Plan, Conclude(p) PROVE TypeOK'
  BY <1>12 DEF Conclude, Goto, RunnerStep, rowVars, opVars, history
<1>13. ASSUME NEW p \in Plan, Crash(p) PROVE TypeOK'
  BY <1>13, FreshType DEF Crash, Goto, RunnerStep, rowVars, opVars, history
<1>14. ASSUME NEW p \in Plan, Resume(p) PROVE TypeOK'
  BY <1>14 DEF Resume, Goto, RunnerStep, rowVars, opVars, history
<1>15. ASSUME NEW o \in Operator, NEW i \in Instance, NEW a \in Await,
              FindAwaiting(o, i, a)
       PROVE  TypeOK'
  <2>1. /\ oinst' \in [Operator -> Instance \cup {0}]
        /\ ostep' \in [Operator -> Await \cup {0}]
        /\ opc' \in [Operator -> {"idle", "signal", "activate"}]
    BY <1>15 DEF FindAwaiting, OpGoto
  <2>2. i # 0 /\ a # 0
    OBVIOUS
  <2>3. \A q \in Operator : opc'[q] # "idle" => oinst'[q] # 0 /\ ostep'[q] # 0
    <3>1. \A q \in Operator : q # o => opc'[q] = opc[q] /\ oinst'[q] = oinst[q] /\ ostep'[q] = ostep[q]
      BY <1>15 DEF FindAwaiting, OpGoto
    <3>2. oinst'[o] = i /\ ostep'[o] = a
      BY <1>15 DEF FindAwaiting
    <3> QED
      BY <2>2, <3>1, <3>2
  <2>4. /\ okey' \in [Operator -> Key \cup {<<>>}]
        /\ ocopy' \in [Operator -> Progress]
        /\ \A q \in Operator : opc'[q] = "signal" => okey'[q] \in Key
    <3>1. CASE Candidates(a) = {}
      BY <1>15, <3>1 DEF FindAwaiting, OpGoto
    <3>2. CASE Candidates(a) # {}
      <4>1. PICK k \in Candidates(a) : /\ okey' = [okey EXCEPT ![o] = k]
                                       /\ ocopy' = [ocopy EXCEPT ![o] = prog[k]]
        BY <1>15, <3>2 DEF FindAwaiting
      <4>2. k \in Key
        BY DEF Candidates
      <4>3. opc' = [opc EXCEPT ![o] = "signal"]
        BY <1>15, <3>2 DEF FindAwaiting, OpGoto
      <4> QED
        BY <4>1, <4>2, <4>3
    <3> QED
      BY <3>1, <3>2
  <2> QED
    BY <1>15, <2>1, <2>3, <2>4 DEF FindAwaiting, rowVars, runVars, history
<1>16. ASSUME NEW o \in Operator, Signal(o) PROVE TypeOK'
  <2> DEFINE k == okey[o]
             r == [ocopy[o] EXCEPT !.approved = @ \cup {ostep[o]}]
  <2>1. k \in Key /\ ostep[o] \in Await
    BY <1>16 DEF Signal
  <2>2. r \in Progress
    BY <2>1, SignalledType
  <2>3. PICK T \in SUBSET MayExpire(r) : prog' = [prog EXCEPT ![k] = Promoted(r, T)] /\ Expire(k, T)
    BY <1>16 DEF Signal
  <2>4. prog' \in [Key -> Progress]
    BY <2>2, <2>3, PromotedType
  <2>5. expired' \in [Key -> SUBSET Await] /\ granted' \in [Key -> SUBSET Await]
    BY <1>16, <2>1, <2>3 DEF Signal, Expire, MayExpire, Waiting
  <2>6. older' \subseteq Key \X Key
    BY <1>16, <2>1 DEF Signal, Touch
  <2>7. okey' \in [Operator -> Key \cup {<<>>}] /\ ocopy' \in [Operator -> Progress]
    BY <1>16, FreshType DEF Signal
  <2> QED
    BY <1>16, <2>4, <2>5, <2>6, <2>7 DEF Signal, OpGoto, runVars
<1>17. ASSUME NEW o \in Operator, Activate(o) PROVE TypeOK'
  BY <1>17 DEF Activate, OpGoto, rowVars, runVars, history
<1>18. ASSUME NEW i \in Instance, InstanceNext(i) PROVE TypeOK'
  BY <1>18 DEF InstanceNext, StartInstance, FlagDeviation, ReturnToActive,
               CompleteInstance, AbandonInstance, SetInstance,
               rowVars, runVars, opVars, history
<1>19. CASE UNCHANGED vars
  BY <1>19 DEF vars, rowVars, runVars, opVars, history
<1> QED
  BY <1>1, <1>2, <1>4, <1>5, <1>6, <1>7, <1>8, <1>9, <1>10, <1>11, <1>12,
     <1>13, <1>14, <1>15, <1>16, <1>17, <1>18, <1>19
     DEF Next, InterpreterNext, OperatorNext

\* The initial state has its types.
LEMMA TypeInit == Init => TypeOK
BY FreshType DEF Init, TypeOK, RunnerStep

\* Every state has its types.
THEOREM TypeCorrect == Spec => []TypeOK
BY TypeInit, TypeStep, PTL DEF Spec

-------------------------------------------------------------------------------
(* The inductive invariant *)

\* Grounded, with the history of the row as parameters.
RestsOn(r, G, E, R) ==
    /\ r.approved \subseteq G
    /\ \A s \in Step : r.st[s] = "completed" =>
          IF s \in Await THEN s \in G \cup E \/ (s \in DefaultEvent /\ G # {})
                         ELSE s \in R

\* Grounded is RestsOn with the history of the row.
LEMMA GroundedIs ==
    ASSUME NEW k, NEW r
    PROVE  Grounded(k, r) <=> RestsOn(r, granted[k], expired[k], ran[k])
BY DEF Grounded, RestsOn, Released

\* A record that rests on some history rests on any longer one.
LEMMA RestsMonotone ==
    ASSUME NEW r, NEW G, NEW E, NEW R, NEW G2, NEW E2, NEW R2,
           G \subseteq G2, E \subseteq E2, R \subseteq R2, RestsOn(r, G, E, R)
    PROVE  RestsOn(r, G2, E2, R2)
BY DEF RestsOn

\* Empty progress rests on nothing.
LEMMA FreshRests == ASSUME NEW G, NEW E, NEW R PROVE RestsOn(Fresh, G, E, R)
BY DEF RestsOn, Fresh

\* A promotion is justified by a signal or by a timer.
LEMMA PromotedRests ==
    ASSUME NEW r \in Progress, NEW T \in SUBSET MayExpire(r), NEW G, NEW E, NEW R,
           RestsOn(r, G, E, R)
    PROVE  RestsOn(Promoted(r, T), G, E \cup {a \in T : OnTimeout[a] = "completed"}, R)
<1> DEFINE E2 == E \cup {a \in T : OnTimeout[a] = "completed"}
<1>1. Promoted(r, T).approved = r.approved
  BY DEF Promoted, Progress
<1>2. ASSUME NEW s \in Step
      PROVE  Promoted(r, T).st[s] =
               IF s \in T THEN OnTimeout[s]
               ELSE IF s \in Waiting(r) /\ Satisfied(r, s) THEN "completed" ELSE r.st[s]
  BY DEF Promoted, Progress
<1>3. ASSUME NEW s \in Step, Promoted(r, T).st[s] = "completed"
      PROVE  IF s \in Await THEN s \in G \cup E2 \/ (s \in DefaultEvent /\ G # {})
                            ELSE s \in R
  <2>1. CASE s \in T
    BY <1>2, <1>3, <2>1 DEF MayExpire, Waiting
  <2>2. CASE s \notin T /\ s \in Waiting(r) /\ Satisfied(r, s)
    BY <2>2 DEF RestsOn, Satisfied, Waiting
  <2>3. CASE s \notin T /\ ~(s \in Waiting(r) /\ Satisfied(r, s))
    BY <1>2, <1>3, <2>3 DEF RestsOn
  <2> QED
    BY <2>1, <2>2, <2>3
<1> QED
  BY <1>1, <1>3 DEF RestsOn

\* What a step leaves alone stays grounded, because history only grows.
HistoryGrows ==
    \A k \in Key : /\ granted[k] \subseteq granted'[k]
                   /\ expired[k] \subseteq expired'[k]
                   /\ ran[k] \subseteq ran'[k]

\* The parts of GateInv' that speak of progress records.
RowsRest == \A k \in Key : RestsOn(prog[k], granted[k], expired[k], ran[k])
RunnersRest ==
    \A p \in Plan : RestsOn(mem[p], granted[KeyOf(p)], expired[KeyOf(p)], ran[KeyOf(p)])
CopiesRest ==
    \A o \in Operator : opc[o] = "signal" =>
        RestsOn(ocopy[o], granted[okey[o]], expired[okey[o]], ran[okey[o]])

DecidesFresh == \A p \in Plan : At(p, "decide") => mem[p] = Fresh

\* GateInv, in the parts that the steps are checked against.
LEMMA GateInvIs ==
    GateInv <=> RowsRest /\ RunnersRest /\ CopiesRest /\ DecidesFresh /\ TodoIsReady
                /\ EffectAfterRelease
BY GroundedIs DEF GateInv, RowsRest, RunnersRest, CopiesRest, DecidesFresh

\* An interpreter works on a row.
LEMMA KeyOfType == TypeOK => \A p \in Plan : KeyOf(p) \in Key
BY DEF TypeOK, KeyOf, Key

\* Rows nobody writes stay grounded,
LEMMA RowsKept == RowsRest /\ HistoryGrows /\ UNCHANGED prog => RowsRest'
BY RestsMonotone DEF RowsRest, HistoryGrows

\* so do memories nobody changes,
LEMMA RunnersKept == TypeOK /\ RunnersRest /\ HistoryGrows /\ UNCHANGED <<mem, rev>> => RunnersRest'
<1> SUFFICES ASSUME TypeOK, RunnersRest, HistoryGrows, UNCHANGED <<mem, rev>>,
                    NEW p \in Plan
             PROVE  RestsOn(mem'[p], granted'[KeyOf(p)], expired'[KeyOf(p)], ran'[KeyOf(p)])
  BY DEF RunnersRest, KeyOf
<1>1. KeyOf(p) \in Key
  BY KeyOfType
<1> QED
  BY <1>1, RestsMonotone DEF RunnersRest, HistoryGrows

\* and the copies that operators hold.
LEMMA CopiesKept == TypeOK /\ CopiesRest /\ HistoryGrows /\ UNCHANGED opVars => CopiesRest'
<1> SUFFICES ASSUME TypeOK, CopiesRest, HistoryGrows, UNCHANGED opVars,
                    NEW o \in Operator, opc[o] = "signal"
             PROVE  RestsOn(ocopy[o], granted'[okey[o]], expired'[okey[o]], ran'[okey[o]])
  BY DEF CopiesRest, opVars
<1>1. okey[o] \in Key
  BY DEF TypeOK
<1> QED
  BY <1>1, RestsMonotone DEF CopiesRest, HistoryGrows

\* Where no handler runs, nothing runs before its release.
LEMMA EffectKept == EffectAfterRelease /\ HistoryGrows /\ UNCHANGED ran => EffectAfterRelease'
<1> SUFFICES ASSUME EffectAfterRelease, HistoryGrows, UNCHANGED ran,
                    NEW k \in Key, NEW s \in ran[k], NEW d \in Deps[s]
             PROVE  IF d \in Await THEN Released(k, d)' ELSE d \in ran[k]
  BY DEF EffectAfterRelease
<1> QED
  BY DEF EffectAfterRelease, HistoryGrows, Released

\* A history left alone has not shrunk.
LEMMA HistoryKept == UNCHANGED history => HistoryGrows
BY DEF history, HistoryGrows

\* One runner's memory changed to a record that rests on the new history.
LEMMA RunnerSet ==
    ASSUME TypeOK, RunnersRest, HistoryGrows, UNCHANGED rev,
           NEW p \in Plan, NEW r, mem' = [mem EXCEPT ![p] = r],
           RestsOn(r, granted'[KeyOf(p)], expired'[KeyOf(p)], ran'[KeyOf(p)])
    PROVE  RunnersRest'
<1> SUFFICES ASSUME NEW q \in Plan
             PROVE  RestsOn(mem'[q], granted'[KeyOf(q)], expired'[KeyOf(q)], ran'[KeyOf(q)])
  BY DEF RunnersRest, KeyOf
<1>1. CASE q = p
  BY <1>1 DEF TypeOK
<1>2. CASE q # p
  <2>1. mem'[q] = mem[q] /\ KeyOf(q) \in Key
    BY <1>2, KeyOfType DEF TypeOK
  <2> QED
    BY <2>1, RestsMonotone DEF RunnersRest, HistoryGrows
<1> QED
  BY <1>1, <1>2

\* One row was overwritten by a record that rests on the new history.
LEMMA RowSet ==
    ASSUME TypeOK, RowsRest, HistoryGrows, NEW k \in Key, NEW r,
           prog' = [prog EXCEPT ![k] = r],
           RestsOn(r, granted'[k], expired'[k], ran'[k])
    PROVE  RowsRest'
<1> SUFFICES ASSUME NEW j \in Key
             PROVE  RestsOn(prog'[j], granted'[j], expired'[j], ran'[j])
  BY DEF RowsRest
<1>1. CASE j = k
  BY <1>1 DEF TypeOK
<1>2. CASE j # k
  <2>1. prog'[j] = prog[j]
    BY <1>2 DEF TypeOK
  <2> QED
    BY <2>1, RestsMonotone DEF RowsRest, HistoryGrows
<1> QED
  BY <1>1, <1>2

\* The list of runner p is not touched, nor what the list speaks of.
LEMMA TodoKept == TodoIsReady /\ UNCHANGED <<pc, mem, todo>> => TodoIsReady'
BY DEF TodoIsReady, At

\* A runner that is not inside a round moves outside the rounds.
LEMMA TodoOutside ==
    ASSUME TypeOK, TodoIsReady, NEW p \in Plan, NEW step \in RunnerStep,
           pc' = [pc EXCEPT ![p] = step], todo'[p] = {},
           \A q \in Plan : q # p => mem'[q] = mem[q] /\ todo'[q] = todo[q]
    PROVE  TodoIsReady'
<1> SUFFICES ASSUME NEW q \in Plan, NEW s \in todo'[q]
             PROVE  /\ pc'[q] \in {"step", "lookup", "gate", "save"}
                    /\ \A d \in Deps[s] : mem'[q].st[d] = "completed"
                    /\ pc'[q] = "step" \/ (\E u \in todo'[q] : u < s)
                          => mem'[q].st[s] = "pending"
  BY DEF TodoIsReady, At
<1>1. q # p
  OBVIOUS
<1>2. pc'[q] = pc[q] /\ mem'[q] = mem[q] /\ todo'[q] = todo[q]
  BY <1>1 DEF TypeOK
<1>3. /\ pc[q] \in {"step", "lookup", "gate", "save"}
      /\ \A d \in Deps[s] : mem[q].st[d] = "completed"
      /\ pc[q] = "step" \/ (\E u \in todo[q] : u < s) => mem[q].st[s] = "pending"
  BY <1>2 DEF TodoIsReady, At
<1> QED
  BY <1>2, <1>3

\* The step at hand gets its status: nothing else of the list is disturbed.
LEMMA TodoSetStep ==
    ASSUME TypeOK, TodoIsReady, NEW p \in Plan, NEW s \in Step, At(p, "step"),
           Current(p, s), NEW step \in {"lookup", "save"},
           pc' = [pc EXCEPT ![p] = step], UNCHANGED todo,
           \A q \in Plan : q # p => mem'[q] = mem[q],
           \A u \in Step : u # s => mem'[p].st[u] = mem[p].st[u]
    PROVE  TodoIsReady'
<1>0. todo' = todo
  OBVIOUS
<1> SUFFICES ASSUME NEW q \in Plan, NEW u \in todo'[q]
             PROVE  /\ pc'[q] \in {"step", "lookup", "gate", "save"}
                    /\ \A d \in Deps[u] : mem'[q].st[d] = "completed"
                    /\ pc'[q] = "step" \/ (\E v \in todo'[q] : v < u)
                          => mem'[q].st[u] = "pending"
  BY DEF TodoIsReady, At
<1>1. u \in todo[q]
  BY <1>0
<1>2. CASE q # p
  BY <1>0, <1>1, <1>2 DEF TodoIsReady, At, TypeOK
<1>3. CASE q = p
  <2>1. pc'[p] = step
    BY DEF TypeOK
  <2>2. mem[p].st[s] = "pending" /\ mem[p].st[u] = "pending"
    BY <1>1, <1>3 DEF TodoIsReady, Current
  <2>3. ASSUME NEW d \in Deps[u] PROVE mem'[p].st[d] = "completed"
    <3>1. mem[p].st[d] = "completed"
      BY <1>1, <1>3 DEF TodoIsReady
    <3>2. d \in Step
      BY <1>1, <1>3 DEF TypeOK
    <3> QED
      BY <2>2, <3>1, <3>2
  <2>4. ASSUME NEW v \in todo'[p], v < u PROVE mem'[p].st[u] = "pending"
    <3>1. u # s /\ u \in Step
      BY <1>0, <1>1, <1>3, <2>4 DEF Current, TypeOK
    <3> QED
      BY <2>2, <3>1
  <2> QED
    BY <1>3, <2>1, <2>3, <2>4
<1> QED
  BY <1>2, <1>3

-------------------------------------------------------------------------------
(* Every step preserves the invariant *)

\* Actions that leave progress, lists and history alone.
LEMMA QuietStep ==
    ASSUME TypeOK, GateInv, UNCHANGED <<prog, mem, rev, opVars, history>>,
           TodoIsReady', DecidesFresh'
    PROVE  GateInv'
<1>1. HistoryGrows /\ UNCHANGED ran
  BY HistoryKept DEF history
<1>2. RowsRest' /\ RunnersRest' /\ CopiesRest' /\ EffectAfterRelease'
  BY <1>1, GateInvIs, RowsKept, RunnersKept, CopiesKept, EffectKept
<1> QED
  BY <1>2, GateInvIs, PTL

\* An interpreter loads a grounded row, or starts afresh.
LEMMA BeginStep ==
    ASSUME TypeOK, GateInv, NEW p \in Plan, Begin(p) PROVE GateInv'
<1> DEFINE r == IF rowStatus[KeyOf(p)] = "running" THEN prog[KeyOf(p)] ELSE Fresh
<1>0. RowsRest /\ RunnersRest /\ CopiesRest /\ TodoIsReady /\ EffectAfterRelease
      /\ DecidesFresh
  BY GateInvIs
<1>1. HistoryGrows /\ UNCHANGED <<prog, ran, rev, opVars>>
  BY HistoryKept DEF Begin, history, rowVars
<1>2. RestsOn(r, granted[KeyOf(p)], expired[KeyOf(p)], ran[KeyOf(p)])
  BY <1>0, FreshRests, KeyOfType DEF RowsRest
<1>3. RunnersRest'
  <2>1. mem' = [mem EXCEPT ![p] = r] /\ UNCHANGED <<granted, expired, ran>>
    BY DEF Begin, history
  <2> QED
    BY <1>0, <1>1, <1>2, <2>1, RunnerSet
<1>4. TodoIsReady'
  <2>1. todo'[p] = {} /\ pc' = [pc EXCEPT ![p] = "round"]
    BY <1>0 DEF Begin, Goto, At, TodoIsReady
  <2>2. \A q \in Plan : q # p => mem'[q] = mem[q] /\ todo'[q] = todo[q]
    BY DEF Begin
  <2> QED
    BY <1>0, <2>1, <2>2, TodoOutside DEF RunnerStep
<1>5. RowsRest' /\ CopiesRest' /\ EffectAfterRelease'
  BY <1>0, <1>1, RowsKept, CopiesKept, EffectKept
<1>d. DecidesFresh'
  BY <1>0 DEF DecidesFresh, At, TypeOK, Begin, Goto
<1> QED
  BY <1>3, <1>4, <1>5, <1>d, GateInvIs, PTL

\* A round promotes what was signalled or timed out, and lists what is ready.
LEMMA RoundStep ==
    ASSUME TypeOK, GateInv, NEW p \in Plan, Round(p) PROVE GateInv'
<1>0. RowsRest /\ RunnersRest /\ CopiesRest /\ TodoIsReady /\ EffectAfterRelease
      /\ DecidesFresh
  BY GateInvIs
<1>k. KeyOf(p) \in Key
  BY KeyOfType
<1>1. PICK T \in SUBSET MayExpire(mem[p]) :
        /\ mem' = [mem EXCEPT ![p] = Promoted(mem[p], T)]
        /\ todo' = [todo EXCEPT ![p] = Ready(Promoted(mem[p], T))]
        /\ pc' = [pc EXCEPT ![p] = IF Ready(Promoted(mem[p], T)) = {} THEN "final" ELSE "step"]
        /\ expired' = [expired EXCEPT ![KeyOf(p)] = @ \cup {a \in T : OnTimeout[a] = "completed"}]
  BY DEF Round, Goto, Expire
<1> DEFINE r == Promoted(mem[p], T)
<1>2. UNCHANGED <<prog, ran, rev, granted, opVars>>
  BY DEF Round, rowVars
<1>3. HistoryGrows
  BY <1>1, <1>2, <1>k DEF HistoryGrows, TypeOK
<1>4. RunnersRest'
  <2>1. mem[p] \in Progress
    BY DEF TypeOK
  <2>2. RestsOn(mem[p], granted[KeyOf(p)], expired[KeyOf(p)], ran[KeyOf(p)])
    BY <1>0 DEF RunnersRest
  <2>3. expired'[KeyOf(p)] = expired[KeyOf(p)] \cup {a \in T : OnTimeout[a] = "completed"}
    BY <1>1, <1>k DEF TypeOK
  <2>4. RestsOn(r, granted'[KeyOf(p)], expired'[KeyOf(p)], ran'[KeyOf(p)])
    BY <1>2, <2>1, <2>2, <2>3, PromotedRests
  <2> QED
    BY <1>0, <1>1, <1>2, <1>3, <2>4, RunnerSet
<1>5. TodoIsReady'
  <2>1. \A q \in Plan : q # p => pc'[q] = pc[q] /\ mem'[q] = mem[q] /\ todo'[q] = todo[q]
    BY <1>1 DEF TypeOK
  <2>2. mem'[p] = r /\ todo'[p] = Ready(r) /\ (Ready(r) # {} => pc'[p] = "step")
    BY <1>1 DEF TypeOK
  <2>3. \A s \in Ready(r) : r.st[s] = "pending" /\ \A d \in Deps[s] : r.st[d] = "completed"
    BY DEF Ready
  <2> HIDE DEF r
  <2> SUFFICES ASSUME NEW q \in Plan
               PROVE  /\ todo'[q] # {} => pc'[q] \in {"step", "lookup", "gate", "save"}
                      /\ \A s \in todo'[q] :
                            /\ \A d \in Deps[s] : mem'[q].st[d] = "completed"
                            /\ pc'[q] = "step" \/ (\E u \in todo'[q] : u < s)
                                  => mem'[q].st[s] = "pending"
    BY DEF TodoIsReady, At
  <2>4. CASE q = p
    BY <2>2, <2>3, <2>4
  <2>5. CASE q # p
    BY <1>0, <2>1, <2>5 DEF TodoIsReady, At
  <2> QED
    BY <2>4, <2>5
<1>6. RowsRest' /\ CopiesRest' /\ EffectAfterRelease'
  BY <1>0, <1>2, <1>3, RowsKept, CopiesKept, EffectKept
<1>d. DecidesFresh'
  BY <1>0 DEF DecidesFresh, At, TypeOK, Round, Goto
<1> QED
  BY <1>4, <1>5, <1>6, <1>d, GateInvIs, PTL

\* The runs of the handlers: here EffectAfterRelease is at stake.
LEMMA CallStep ==
    ASSUME TypeOK, GateInv, NEW p \in Plan, NEW s \in Step, Call(p, s) PROVE GateInv'
<1>0. RowsRest /\ RunnersRest /\ CopiesRest /\ TodoIsReady /\ EffectAfterRelease
      /\ DecidesFresh
  BY GateInvIs
<1> DEFINE k == KeyOf(p)
<1>k. k \in Key
  BY KeyOfType
<1>1. UNCHANGED <<prog, todo, rev, granted, expired, opVars>>
  BY DEF Call, rowVars
<1>2. ran' = [ran EXCEPT ![k] = @ \cup {s}]
  BY DEF Call
<1>3. HistoryGrows
  BY <1>1, <1>2, <1>k DEF HistoryGrows, TypeOK
<1>4. s \in ran'[k]
  BY <1>2, <1>k DEF TypeOK
<1>5. PICK r : /\ mem' = [mem EXCEPT ![p] = r]
               /\ r.approved = mem[p].approved
               /\ \A u \in Step : u # s => r.st[u] = mem[p].st[u]
  <2>1. CASE mem' = [mem EXCEPT ![p].st[s] = "completed", ![p].effects = @ \cup EffectOf(s)]
    <3> DEFINE r == [mem[p] EXCEPT !.st[s] = "completed", !.effects = @ \cup EffectOf(s)]
    <3>1. mem' = [mem EXCEPT ![p] = r]
      BY <2>1
    <3>2. r.approved = mem[p].approved /\ \A u \in Step : u # s => r.st[u] = mem[p].st[u]
      BY DEF TypeOK, Progress
    <3> QED
      BY <3>1, <3>2
  <2>2. CASE SetStep(p, s, "blocked")
    <3> DEFINE r == [mem[p] EXCEPT !.st[s] = "blocked"]
    <3>1. mem' = [mem EXCEPT ![p] = r]
      BY <2>2, SetStepIs, StatusNames
    <3>2. r.approved = mem[p].approved /\ \A u \in Step : u # s => r.st[u] = mem[p].st[u]
      BY DEF TypeOK, Progress
    <3> QED
      BY <3>1, <3>2
  <2> QED
    BY <2>1, <2>2 DEF Call
<1>6. RunnersRest'
  <2>1. RestsOn(r, granted'[k], expired'[k], ran'[k])
    <3>1. RestsOn(mem[p], granted'[k], expired'[k], ran'[k])
      BY <1>0, <1>3, <1>k, RestsMonotone DEF RunnersRest, HistoryGrows
    <3>2. s \notin Await
      BY DEF Call
    <3> HIDE DEF k
    <3> QED
      BY <1>4, <1>5, <3>1, <3>2 DEF RestsOn
  <2> QED
    BY <1>0, <1>1, <1>3, <1>5, <2>1, RunnerSet
<1>7. TodoIsReady'
  <2>1. At(p, "step") /\ Current(p, s) /\ pc' = [pc EXCEPT ![p] = "save"]
    BY DEF Call, Goto
  <2>2. mem'[p] = r /\ \A q \in Plan : q # p => mem'[q] = mem[q]
    BY <1>5 DEF TypeOK
  <2>3. \A u \in Step : u # s => mem'[p].st[u] = mem[p].st[u]
    BY <1>5, <2>2
  <2> QED
    BY <1>0, <1>1, <2>1, <2>2, <2>3, TodoSetStep
<1>8. EffectAfterRelease'
  <2> SUFFICES ASSUME NEW j \in Key, NEW u \in ran'[j], NEW d \in Deps[u]
               PROVE  IF d \in Await THEN Released(j, d)' ELSE d \in ran'[j]
    BY DEF EffectAfterRelease
  <2>1. CASE u \in ran[j]
    BY <1>0, <1>1, <1>3, <2>1 DEF EffectAfterRelease, HistoryGrows, Released
  <2>2. CASE u \notin ran[j]
    <3>1. j = k /\ u = s
      BY <1>2, <2>2, <1>k DEF TypeOK
    <3>2. mem[p].st[d] = "completed" /\ d \in Step
      BY <1>0, <3>1 DEF Call, Current, TodoIsReady
    <3>3. RestsOn(mem[p], granted[k], expired[k], ran[k])
      BY <1>0 DEF RunnersRest
    <3>4. IF d \in Await THEN Released(k, d) ELSE d \in ran[k]
      BY <3>2, <3>3 DEF RestsOn, Released
    <3> HIDE DEF k
    <3> QED
      BY <1>1, <1>3, <1>k, <3>1, <3>4 DEF HistoryGrows, Released
  <2> QED
    BY <2>1, <2>2
<1>9. RowsRest' /\ CopiesRest'
  BY <1>0, <1>1, <1>3, RowsKept, CopiesKept
<1>d. DecidesFresh'
  BY <1>0 DEF DecidesFresh, At, TypeOK, Call, SetStep, Goto
<1> QED
  BY <1>6, <1>7, <1>8, <1>9, <1>d, GateInvIs, PTL

\* A step is skipped or an AWAIT is reached: no handler runs.
LEMMA SetStepStep ==
    ASSUME TypeOK, GateInv, NEW p \in Plan, NEW s \in Step,
           NEW v \in {"awaiting", "completed", "skipped"},
           SkipDuplicate(p, s) \/ ReachAwait(p, s), SetStep(p, s, v),
           v = "completed" => s \in Await /\ Satisfied(mem[p], s)
    PROVE  GateInv'
<1>0. RowsRest /\ RunnersRest /\ CopiesRest /\ TodoIsReady /\ EffectAfterRelease
      /\ DecidesFresh
  BY GateInvIs
<1> DEFINE r == [mem[p] EXCEPT !.st[s] = v]
           k == KeyOf(p)
<1>1. HistoryGrows /\ UNCHANGED <<prog, rev, opVars, granted, expired, ran, todo>>
  BY HistoryKept DEF SkipDuplicate, ReachAwait, rowVars, history
<1>2. mem' = [mem EXCEPT ![p] = r]
  BY SetStepIs, StatusNames
<1>3. /\ r.approved = mem[p].approved /\ r.st[s] = v
      /\ \A u \in Step : u # s => r.st[u] = mem[p].st[u]
  BY DEF TypeOK, Progress
<1>4. RunnersRest'
  <2>1. RestsOn(mem[p], granted[k], expired[k], ran[k])
    BY <1>0 DEF RunnersRest
  <2>2. RestsOn(r, granted[k], expired[k], ran[k])
    <3>1. v = "completed" => s \in granted[k] \/ (s \in DefaultEvent /\ granted[k] # {})
      BY <2>1 DEF Satisfied, RestsOn
    <3>2. v = "completed" => s \in Await
      OBVIOUS
    <3> HIDE DEF r, k
    <3> QED
      BY <1>3, <2>1, <3>1, <3>2 DEF RestsOn
  <2> QED
    BY <1>0, <1>1, <1>2, <2>2, RunnerSet
<1>5. TodoIsReady'
  <2>1. At(p, "step") /\ Current(p, s)
    BY DEF SkipDuplicate, ReachAwait
  <2>2. PICK step \in {"lookup", "save"} : pc' = [pc EXCEPT ![p] = step]
    BY DEF SkipDuplicate, ReachAwait, Goto
  <2>3. mem'[p] = r /\ \A q \in Plan : q # p => mem'[q] = mem[q]
    BY <1>2 DEF TypeOK
  <2>4. \A u \in Step : u # s => mem'[p].st[u] = mem[p].st[u]
    BY <1>3, <2>3
  <2> QED
    BY <1>0, <1>1, <2>1, <2>2, <2>3, <2>4, TodoSetStep
<1>6. RowsRest' /\ CopiesRest' /\ EffectAfterRelease'
  BY <1>0, <1>1, RowsKept, CopiesKept, EffectKept
<1>d. DecidesFresh'
  BY <1>0 DEF DecidesFresh, At, TypeOK, SkipDuplicate, ReachAwait, SetStep, Goto
<1> QED
  BY <1>4, <1>5, <1>6, <1>d, GateInvIs, PTL

\* The gate adds a marker only.
LEMMA ReachGateStep ==
    ASSUME TypeOK, GateInv, NEW p \in Plan, NEW s \in Step, ReachGate(p, s) PROVE GateInv'
<1>0. RowsRest /\ RunnersRest /\ CopiesRest /\ TodoIsReady /\ EffectAfterRelease
      /\ DecidesFresh
  BY GateInvIs
<1> DEFINE r == [mem[p] EXCEPT !.marks = @ \cup {s}]
<1>1. HistoryGrows /\ UNCHANGED <<prog, rev, opVars, granted, expired, ran, todo>>
  BY HistoryKept DEF ReachGate, rowVars, history
<1>2. mem' = [mem EXCEPT ![p] = r]
  BY DEF ReachGate
<1>3. r.approved = mem[p].approved /\ r.st = mem[p].st
  BY DEF TypeOK, Progress
<1>4. RunnersRest'
  <2>1. RestsOn(mem[p], granted[KeyOf(p)], expired[KeyOf(p)], ran[KeyOf(p)])
    BY <1>0 DEF RunnersRest
  <2>2. RestsOn(r, granted[KeyOf(p)], expired[KeyOf(p)], ran[KeyOf(p)])
    BY <1>3, <2>1 DEF RestsOn
  <2> QED
    BY <1>0, <1>1, <1>2, <2>2, RunnerSet
<1>5. TodoIsReady'
  <2>1. /\ pc' = [pc EXCEPT ![p] = "save"] /\ pc[p] = "gate"
        /\ \A q \in Plan : mem'[q].st = mem[q].st
    BY <1>2, <1>3 DEF ReachGate, Goto, At, TypeOK
  <2> SUFFICES ASSUME NEW q \in Plan, NEW u \in todo[q]
               PROVE  /\ pc'[q] \in {"step", "lookup", "gate", "save"}
                      /\ \A d \in Deps[u] : mem'[q].st[d] = "completed"
                      /\ pc'[q] = "step" \/ (\E v \in todo[q] : v < u)
                            => mem'[q].st[u] = "pending"
    BY <1>1 DEF TodoIsReady, At
  <2>2. pc'[q] = pc[q] \/ (q = p /\ pc'[q] = "save")
    BY <2>1 DEF TypeOK
  <2> QED
    BY <1>0, <2>1, <2>2 DEF TodoIsReady, At
<1>6. RowsRest' /\ CopiesRest' /\ EffectAfterRelease'
  BY <1>0, <1>1, RowsKept, CopiesKept, EffectKept
<1>d. DecidesFresh'
  BY <1>0 DEF DecidesFresh, At, TypeOK, ReachGate, Goto
<1> QED
  BY <1>4, <1>5, <1>6, <1>d, GateInvIs, PTL

\* The row takes over the grounded progress of its interpreter,
LEMMA SaveStepStep ==
    ASSUME TypeOK, GateInv, NEW p \in Plan, NEW s \in Step, SaveStep(p, s) PROVE GateInv'
<1>0. RowsRest /\ RunnersRest /\ CopiesRest /\ TodoIsReady /\ EffectAfterRelease
      /\ DecidesFresh
  BY GateInvIs
<1>1. HistoryGrows /\ UNCHANGED <<mem, rev, opVars, granted, expired, ran>>
  BY HistoryKept DEF SaveStep, history
<1>2. RowsRest'
  <2>1. RestsOn(mem[p], granted'[KeyOf(p)], expired'[KeyOf(p)], ran'[KeyOf(p)])
    BY <1>0, <1>1 DEF RunnersRest
  <2>2. prog' = [prog EXCEPT ![KeyOf(p)] = mem[p]]
    BY DEF SaveStep, Save
  <2> QED
    BY <1>0, <1>1, <2>1, <2>2, KeyOfType, RowSet
<1>3. TodoIsReady'
  <2>1. /\ todo' = [todo EXCEPT ![p] = @ \ {s}]
        /\ pc' = [pc EXCEPT ![p] = IF todo[p] # {s} THEN "step"
                                   ELSE IF rounds[p] < MaxRounds THEN "round" ELSE "final"]
        /\ s \in todo[p] /\ \A u \in todo[p] : s <= u
    BY DEF SaveStep, Goto, Current
  <2> SUFFICES ASSUME NEW q \in Plan
               PROVE  /\ todo'[q] # {} => pc'[q] \in {"step", "lookup", "gate", "save"}
                      /\ \A u \in todo'[q] :
                            /\ \A d \in Deps[u] : mem[q].st[d] = "completed"
                            /\ pc'[q] = "step" \/ (\E v \in todo'[q] : v < u)
                                  => mem[q].st[u] = "pending"
    BY <1>1 DEF TodoIsReady, At
  <2>2. CASE q # p
    BY <1>0, <2>1, <2>2 DEF TodoIsReady, At, TypeOK
  <2>3. CASE q = p
    <3>1. todo'[p] = todo[p] \ {s} /\ (todo'[p] # {} => pc'[p] = "step")
      BY <2>1 DEF TypeOK
    <3>2. \A u \in todo'[p] : u \in todo[p] /\ s < u
      BY <2>1, <3>1 DEF TypeOK
    <3> QED
      BY <1>0, <2>1, <2>3, <3>1, <3>2 DEF TodoIsReady
  <2> QED
    BY <2>2, <2>3
<1>4. RunnersRest' /\ CopiesRest' /\ EffectAfterRelease'
  BY <1>0, <1>1, RunnersKept, CopiesKept, EffectKept
<1>d. DecidesFresh'
  BY <1>0 DEF DecidesFresh, At, TypeOK, SaveStep, Goto
<1> QED
  BY <1>2, <1>3, <1>4, <1>d, GateInvIs, PTL

\* also at the end, when the memory is dropped.
LEMMA FinishStep ==
    ASSUME TypeOK, GateInv, NEW p \in Plan, Finish(p) PROVE GateInv'
<1>0. RowsRest /\ RunnersRest /\ CopiesRest /\ TodoIsReady /\ EffectAfterRelease
      /\ DecidesFresh
  BY GateInvIs
<1>1. HistoryGrows /\ UNCHANGED <<todo, rev, opVars, granted, expired, ran>>
  BY HistoryKept DEF Finish, history
<1>2. prog' = [prog EXCEPT ![KeyOf(p)] = mem[p]] /\ mem' = [mem EXCEPT ![p] = Fresh]
  BY DEF Finish, Save
<1>3. RowsRest'
  <2>1. RestsOn(mem[p], granted'[KeyOf(p)], expired'[KeyOf(p)], ran'[KeyOf(p)])
    BY <1>0, <1>1 DEF RunnersRest
  <2> QED
    BY <1>0, <1>1, <1>2, <2>1, KeyOfType, RowSet
<1>4. RunnersRest'
  BY <1>0, <1>1, <1>2, FreshRests, RunnerSet
<1>5. TodoIsReady'
  <2>1. todo'[p] = {} /\ pc' = [pc EXCEPT ![p] = "decide"]
    BY <1>0, <1>1 DEF Finish, Goto, At, TodoIsReady
  <2>2. \A q \in Plan : q # p => mem'[q] = mem[q] /\ todo'[q] = todo[q]
    BY <1>1, <1>2
  <2> QED
    BY <1>0, <2>1, <2>2, TodoOutside DEF RunnerStep
<1>6. CopiesRest' /\ EffectAfterRelease'
  BY <1>0, <1>1, CopiesKept, EffectKept
<1>d. DecidesFresh'
  BY <1>0 DEF DecidesFresh, At, TypeOK, Finish, Goto
<1> QED
  BY <1>3, <1>4, <1>5, <1>6, <1>d, GateInvIs, PTL

\* A crash drops the memory.
LEMMA CrashStep ==
    ASSUME TypeOK, GateInv, NEW p \in Plan, Crash(p) PROVE GateInv'
<1>0. RowsRest /\ RunnersRest /\ CopiesRest /\ TodoIsReady /\ EffectAfterRelease
      /\ DecidesFresh
  BY GateInvIs
<1>1. HistoryGrows /\ UNCHANGED <<prog, rev, opVars, granted, expired, ran>>
  BY HistoryKept DEF Crash, history, rowVars
<1>2. mem' = [mem EXCEPT ![p] = Fresh] /\ todo' = [todo EXCEPT ![p] = {}]
      /\ pc' = [pc EXCEPT ![p] = "ended"]
  BY DEF Crash, Goto
<1>3. RunnersRest'
  BY <1>0, <1>1, <1>2, FreshRests, RunnerSet
<1>4. TodoIsReady'
  <2>1. todo'[p] = {} /\ \A q \in Plan : q # p => mem'[q] = mem[q] /\ todo'[q] = todo[q]
    BY <1>2 DEF TypeOK
  <2> QED
    BY <1>0, <1>2, <2>1, TodoOutside DEF RunnerStep
<1>5. RowsRest' /\ CopiesRest' /\ EffectAfterRelease'
  BY <1>0, <1>1, RowsKept, CopiesKept, EffectKept
<1>d. DecidesFresh'
  BY <1>0 DEF DecidesFresh, At, TypeOK, Crash, Goto
<1> QED
  BY <1>3, <1>4, <1>5, <1>d, GateInvIs, PTL

\* Revise asks for the row of the next revision, with nothing in memory yet.
LEMMA ReviseStep ==
    ASSUME TypeOK, GateInv, NEW p \in Plan, Revise(p), mem[p] = Fresh PROVE GateInv'
<1>0. RowsRest /\ RunnersRest /\ CopiesRest /\ TodoIsReady /\ EffectAfterRelease
      /\ DecidesFresh
  BY GateInvIs
<1>1. HistoryGrows /\ UNCHANGED <<prog, mem, todo, opVars, granted, expired, ran>>
  BY HistoryKept DEF Revise, history, rowVars
<1>2. RunnersRest'
  <2> SUFFICES ASSUME NEW q \in Plan
               PROVE  RestsOn(mem[q], granted[KeyOf(q)'], expired[KeyOf(q)'], ran[KeyOf(q)'])
    BY <1>1 DEF RunnersRest
  <2>1. CASE q = p
    BY <2>1, FreshRests
  <2>2. CASE q # p
    <3>1. KeyOf(q)' = KeyOf(q)
      BY <2>2 DEF Revise, KeyOf, TypeOK
    <3> QED
      BY <1>0, <3>1 DEF RunnersRest
  <2> QED
    BY <2>1, <2>2
<1>3. TodoIsReady'
  <2>1. todo'[p] = {} /\ pc' = [pc EXCEPT ![p] = "idle"]
    BY <1>0, <1>1 DEF Revise, Goto, At, TodoIsReady
  <2> QED
    BY <1>0, <1>1, <2>1, TodoOutside DEF RunnerStep
<1>4. RowsRest' /\ CopiesRest' /\ EffectAfterRelease'
  BY <1>0, <1>1, RowsKept, CopiesKept, EffectKept
<1>d. DecidesFresh'
  BY <1>0 DEF DecidesFresh, At, TypeOK, Revise, Goto
<1> QED
  BY <1>2, <1>3, <1>4, <1>d, GateInvIs, PTL

\* An operator copies a grounded row.
LEMMA FindAwaitingStep ==
    ASSUME TypeOK, GateInv, NEW o \in Operator, NEW i \in Instance, NEW a \in Await,
           FindAwaiting(o, i, a)
    PROVE  GateInv'
<1>0. RowsRest /\ RunnersRest /\ CopiesRest /\ TodoIsReady /\ EffectAfterRelease
      /\ DecidesFresh
  BY GateInvIs
<1>1. HistoryGrows /\ UNCHANGED <<prog, mem, rev, pc, todo, granted, expired, ran>>
  BY HistoryKept DEF FindAwaiting, history, rowVars, runVars
<1>2. CopiesRest'
  <2> SUFFICES ASSUME NEW q \in Operator, opc'[q] = "signal"
               PROVE  RestsOn(ocopy'[q], granted[okey'[q]], expired[okey'[q]], ran[okey'[q]])
    BY <1>1 DEF CopiesRest
  <2>1. CASE q # o
    <3>1. opc'[q] = opc[q] /\ okey'[q] = okey[q] /\ ocopy'[q] = ocopy[q]
      BY <2>1 DEF FindAwaiting, OpGoto, TypeOK
    <3> QED
      BY <1>0, <3>1 DEF CopiesRest
  <2>2. CASE q = o
    <3>1. Candidates(a) # {}
      BY <2>2 DEF FindAwaiting, OpGoto, TypeOK
    <3>2. PICK k \in Candidates(a) : /\ okey' = [okey EXCEPT ![o] = k]
                                     /\ ocopy' = [ocopy EXCEPT ![o] = prog[k]]
      BY <3>1 DEF FindAwaiting
    <3>3. okey'[q] = k /\ ocopy'[q] = prog[k] /\ k \in Key
      BY <2>2, <3>2 DEF TypeOK, Candidates
    <3> QED
      BY <1>0, <3>3 DEF RowsRest
  <2> QED
    BY <2>1, <2>2
<1>3. RowsRest' /\ RunnersRest' /\ EffectAfterRelease' /\ TodoIsReady' /\ DecidesFresh'
  BY <1>0, <1>1, RowsKept, RunnersKept, EffectKept, TodoKept DEF DecidesFresh, At
<1> QED
  BY <1>2, <1>3, GateInvIs, PTL

\* The operator's copy may be stale: it still rests on what was granted.
LEMMA SignalStep ==
    ASSUME TypeOK, GateInv, NEW o \in Operator, Signal(o) PROVE GateInv'
<1>0. RowsRest /\ RunnersRest /\ CopiesRest /\ TodoIsReady /\ EffectAfterRelease
      /\ DecidesFresh
  BY GateInvIs
<1> DEFINE k == okey[o]
           r == [ocopy[o] EXCEPT !.approved = @ \cup {ostep[o]}]
<1>1. k \in Key /\ ostep[o] \in Await /\ ocopy[o] \in Progress
  BY DEF Signal, TypeOK
<1>2. PICK T \in SUBSET MayExpire(r) :
        /\ prog' = [prog EXCEPT ![k] = Promoted(r, T)]
        /\ expired' = [expired EXCEPT ![k] = @ \cup {a \in T : OnTimeout[a] = "completed"}]
  BY DEF Signal, Expire
<1>3. granted' = [granted EXCEPT ![k] = @ \cup {ostep[o]}] /\ UNCHANGED <<ran, mem, rev, pc, todo>>
  BY DEF Signal, runVars
<1>4. HistoryGrows
  BY <1>1, <1>2, <1>3 DEF HistoryGrows, TypeOK
<1>5. RowsRest'
  <2>1. RestsOn(ocopy[o], granted[k], expired[k], ran[k])
    BY <1>0 DEF Signal, CopiesRest
  <2>2. /\ granted'[k] = granted[k] \cup {ostep[o]}
        /\ expired'[k] = expired[k] \cup {a \in T : OnTimeout[a] = "completed"}
    BY <1>1, <1>2, <1>3 DEF TypeOK
  <2>3. r \in Progress
    BY <1>1, SignalledType
  <2>4. r.st = ocopy[o].st /\ r.approved = ocopy[o].approved \cup {ostep[o]}
    BY <1>1 DEF Progress
  <2>5. RestsOn(ocopy[o], granted'[k], expired[k], ran[k])
    BY <2>1, <2>2, RestsMonotone
  <2> HIDE DEF k
  <2>6. RestsOn(r, granted'[k], expired[k], ran[k])
    <3> HIDE DEF r
    <3> QED
      BY <2>2, <2>4, <2>5 DEF RestsOn
  <2>7. RestsOn(Promoted(r, T), granted'[k],
                expired[k] \cup {a \in T : OnTimeout[a] = "completed"}, ran[k])
    <3> HIDE DEF r
    <3> QED
      BY <2>3, <2>6, PromotedRests
  <2>8. RestsOn(Promoted(r, T), granted'[k], expired'[k], ran'[k])
    BY <1>3, <2>2, <2>7
  <2> QED
    BY <1>0, <1>1, <1>2, <1>4, <2>8, RowSet
<1>6. CopiesRest'
  <2> SUFFICES ASSUME NEW q \in Operator, opc'[q] = "signal"
               PROVE  RestsOn(ocopy'[q], granted'[okey'[q]], expired'[okey'[q]], ran'[okey'[q]])
    BY DEF CopiesRest
  <2>1. q # o
    BY DEF Signal, OpGoto, TypeOK
  <2>2. opc[q] = "signal" /\ okey'[q] = okey[q] /\ ocopy'[q] = ocopy[q]
    BY <2>1 DEF Signal, OpGoto, TypeOK
  <2>3. okey[q] \in Key
    BY <2>2 DEF TypeOK
  <2> QED
    BY <1>0, <1>4, <2>2, <2>3, RestsMonotone DEF CopiesRest, HistoryGrows
<1>7. RunnersRest' /\ EffectAfterRelease' /\ TodoIsReady' /\ DecidesFresh'
  BY <1>0, <1>3, <1>4, RunnersKept, EffectKept, TodoKept DEF DecidesFresh, At
<1> QED
  BY <1>5, <1>6, <1>7, GateInvIs, PTL

\* The instance is set to active; no progress changes.
LEMMA ActivateStep ==
    ASSUME TypeOK, GateInv, NEW o \in Operator, Activate(o) PROVE GateInv'
<1>0. RowsRest /\ RunnersRest /\ CopiesRest /\ TodoIsReady /\ EffectAfterRelease
      /\ DecidesFresh
  BY GateInvIs
<1>1. HistoryGrows /\ UNCHANGED <<prog, mem, rev, pc, todo, ran, granted, expired, okey, ocopy>>
  BY HistoryKept DEF Activate, history, rowVars, runVars
<1>2. CopiesRest'
  BY <1>0, <1>1 DEF Activate, OpGoto, TypeOK, CopiesRest
<1>3. RowsRest' /\ RunnersRest' /\ EffectAfterRelease' /\ TodoIsReady' /\ DecidesFresh'
  BY <1>0, <1>1, RowsKept, RunnersKept, EffectKept, TodoKept DEF DecidesFresh, At
<1> QED
  BY <1>2, <1>3, GateInvIs, PTL

\* A runner outside the rounds takes a step that moves only its counter.
LEMMA MoveStep ==
    ASSUME TypeOK, GateInv, NEW p \in Plan, NEW step \in {"idle", "ended", "final"},
           pc[p] \in {"round", "decide", "ended"},
           pc' = [pc EXCEPT ![p] = step], UNCHANGED <<prog, mem, todo, rev, opVars, history>>
    PROVE  GateInv'
<1>0. TodoIsReady /\ DecidesFresh
  BY GateInvIs
<1>1. TodoIsReady'
  <2>1. todo'[p] = {}
    BY <1>0 DEF TodoIsReady
  <2> QED
    BY <1>0, <2>1, TodoOutside DEF RunnerStep
<1>2. DecidesFresh'
  BY <1>0 DEF DecidesFresh, At, TypeOK
<1> QED
  BY <1>1, <1>2, QuietStep

\* Looking up the instance changes no progress.
LEMMA LookUpStep ==
    ASSUME TypeOK, GateInv, NEW p \in Plan, LookUpInstance(p) PROVE GateInv'
<1>0. TodoIsReady /\ DecidesFresh
  BY GateInvIs
<1>1. PICK step \in {"save", "gate"} : pc' = [pc EXCEPT ![p] = step]
  BY DEF LookUpInstance, Goto
<1>2. UNCHANGED <<prog, mem, todo, rev, opVars, history>> /\ pc[p] = "lookup"
  BY DEF LookUpInstance, At, rowVars
<1>3. TodoIsReady'
  <2> SUFFICES ASSUME NEW q \in Plan, NEW u \in todo[q]
               PROVE  /\ pc'[q] \in {"step", "lookup", "gate", "save"}
                      /\ \A d \in Deps[u] : mem[q].st[d] = "completed"
                      /\ pc'[q] = "step" \/ (\E v \in todo[q] : v < u)
                            => mem[q].st[u] = "pending"
    BY <1>2 DEF TodoIsReady, At
  <2>1. pc'[q] = pc[q] \/ (q = p /\ pc'[q] \in {"save", "gate"})
    BY <1>1 DEF TypeOK
  <2> QED
    BY <1>0, <2>1 DEF TodoIsReady, At
<1>4. DecidesFresh'
  BY <1>0, <1>1, <1>2 DEF DecidesFresh, At, TypeOK
<1> QED
  BY <1>2, <1>3, <1>4, QuietStep

\* Every step keeps GateInv.
LEMMA GateStep == TypeOK /\ GateInv /\ [Next]_vars => GateInv'
<1> SUFFICES ASSUME TypeOK, GateInv, [Next]_vars PROVE GateInv'
  OBVIOUS
<1>1. ASSUME NEW p \in Plan, NEW s \in Step, SkipDuplicate(p, s) \/ ReachAwait(p, s)
      PROVE  GateInv'
  <2>1. CASE SkipDuplicate(p, s)
    BY <2>1, SetStepStep DEF SkipDuplicate
  <2>2. CASE ReachAwait(p, s)
    <3>1. CASE Satisfied(mem[p], s)
      <4>1. SetStep(p, s, "completed") /\ s \in Await
        BY <2>2, <3>1 DEF ReachAwait
      <4> QED
        BY <2>2, <3>1, <4>1, SetStepStep
    <3>2. CASE ~Satisfied(mem[p], s)
      <4>1. SetStep(p, s, "awaiting")
        BY <2>2, <3>2 DEF ReachAwait
      <4> QED
        BY <2>2, <4>1, SetStepStep
    <3> QED
      BY <3>1, <3>2
  <2> QED
    BY <1>1, <2>1, <2>2
<1>3. ASSUME NEW p \in Plan, Conclude(p) PROVE GateInv'
  BY <1>3, MoveStep DEF Conclude, At, Goto, rowVars
<1>4. ASSUME NEW p \in Plan, Resume(p) PROVE GateInv'
  BY <1>4, MoveStep DEF Resume, At, Goto, rowVars
<1>5. ASSUME NEW p \in Plan, Revise(p) PROVE GateInv'
  <2>1. mem[p] = Fresh
    BY <1>5, GateInvIs DEF Revise, DecidesFresh
  <2> QED
    BY <1>5, <2>1, ReviseStep
<1>6. ASSUME NEW i \in Instance, InstanceNext(i) PROVE GateInv'
  <2>1. UNCHANGED <<rowVars, runVars, opVars, history>>
    BY <1>6 DEF InstanceNext, StartInstance, FlagDeviation, ReturnToActive,
                CompleteInstance, AbandonInstance, SetInstance
  <2>2. UNCHANGED <<prog, mem, rev, pc, todo>>
    BY <2>1 DEF rowVars, runVars
  <2>3. TodoIsReady' /\ DecidesFresh'
    BY <2>2, GateInvIs, TodoKept DEF DecidesFresh, At
  <2> QED
    BY <2>1, <2>2, <2>3, QuietStep
<1>7. CASE UNCHANGED vars
  <2>1. UNCHANGED <<prog, mem, rev, pc, todo, opVars, history>>
    BY <1>7 DEF vars, rowVars, runVars
  <2>2. TodoIsReady' /\ DecidesFresh'
    BY <2>1, GateInvIs, TodoKept DEF DecidesFresh, At
  <2> QED
    BY <2>1, <2>2, QuietStep
<1> QED
  BY <1>1, <1>3, <1>4, <1>5, <1>6, <1>7, BeginStep, RoundStep, CallStep,
     ReachGateStep, SaveStepStep, FinishStep, CrashStep, LookUpStep,
     FindAwaitingStep, SignalStep, ActivateStep
     DEF Next, InterpreterNext, OperatorNext

\* GateInv holds at the start.
LEMMA GateInit == Init => GateInv
<1> SUFFICES ASSUME Init PROVE GateInv
  OBVIOUS
<1>1. RowsRest /\ RunnersRest /\ CopiesRest
  BY FreshRests, TypeInit, KeyOfType DEF Init, RowsRest, RunnersRest, CopiesRest
<1>2. DecidesFresh /\ TodoIsReady /\ EffectAfterRelease
  BY DEF Init, DecidesFresh, TodoIsReady, EffectAfterRelease, At
<1> QED
  BY <1>1, <1>2, GateInvIs

\* GateInv holds in every state.
THEOREM GatesAreGrounded == Spec => []GateInv
<1>1. Init => TypeOK /\ GateInv
  BY TypeInit, GateInit
<1>2. TypeOK /\ GateInv /\ [Next]_vars => (TypeOK /\ GateInv)'
  BY TypeStep, GateStep
<1> QED
  BY <1>1, <1>2, PTL DEF Spec

\* No handler runs before the gates and calls its step depends on, whatever the
\* interpreters, operators, crashes and resumptions do.
THEOREM NoEffectBeforeRelease == Spec => []EffectAfterRelease
<1>1. GateInv => EffectAfterRelease
  BY DEF GateInv
<1> QED
  BY <1>1, GatesAreGrounded, PTL

(***************************************************************************)
(* Constructs: PlanInterpreter                                             *)
(***************************************************************************)
Bundles ==
    [matches : {None, "empty", "found"}, compiled : BOOLEAN, url : BOOLEAN, some : BOOLEAN]

Runners == {"plain", "iterate"}

Kinds == {"ITERATE", "RETRY", "ERROR", "QUEUE", "SERVICE", "DECISION", "PARALLEL",
          "CONCURRENT", "FALLBACK"}

\* A construct at work is a step of the plan, and so is what it has still to run.
Frames ==
    [kind : Kinds, id : Ids, runner : Runners, body : SUBSET Ids, left : SUBSET Ids, n : Nat,
     hurt : BOOLEAN, failed : BOOLEAN, moved : BOOLEAN, rest : SUBSET Ids,
     saved : Bundles, gain : Bundles]

PlanPart ==
    /\ first \in Requested /\ plan \in PlanName /\ listed \in PlanName
    /\ steps = StepIn[plan]
    /\ round \in 0 .. RoundLimit
    /\ ready \subseteq Id

StatusPart ==
    /\ status \in [Id -> Status] /\ completed \subseteq Id /\ calls \in [Id -> Nat]

ArtifactPart ==
    /\ bundle \in Bundles /\ effects \subseteq {"tirzah_retrieval"} /\ answered \in BOOLEAN
    /\ ticks \in [Id -> Nat] /\ waited \subseteq Id /\ stored \in [Id -> SUBSET Bundles]

\* Who walks has a construct at work, and who runs or returns is a step of the plan.
ControlPart ==
    /\ phase \in {"round", "batch", "run", "walk", "return", "ended", "raised"}
    /\ phase \in {"run", "return"} => call.id \in Ids /\ call.runner \in Runners
    /\ phase = "return" => out.status \in Status
    /\ phase \in {"round", "batch", "ended"} => stack = <<>>
    /\ phase = "walk" => stack # <<>>
    /\ stack \in Seq(Frames)

InterpretInv == PlanPart /\ StatusPart /\ ArtifactPart /\ ControlPart

\* A set of naturals that is not empty has a least member,
LEMMA LeastExists ==
    ASSUME NEW T \in SUBSET Nat, T # {}
    PROVE  \E m \in T : \A n \in T : m <= n
<1> DEFINE Less == OpToRel(<, Nat)
<1>1. IsWellFoundedOn(Less, Nat)
  BY NatLessThanWellFounded
<1>2. \A x, y \in Nat : y < x => <<y, x>> \in Less
  BY DEF OpToRel
<1> HIDE DEF Less
<1>3. PICK m \in T : \A n \in T : <<n, m>> \notin Less
  BY <1>1, WFMin
<1>4. \A n \in T : m \in Nat /\ n \in Nat /\ ~(n < m)
  BY <1>2, <1>3
<1> QED
  BY <1>4

\* a finite set that is not empty has a member with the greatest number,
LEMMA GreatestNumbered ==
    ASSUME NEW S, IsFiniteSet(S), S # {}, NEW num \in [S -> Int]
    PROVE  \E s \in S : \A x \in S : num[x] <= num[s]
<1> DEFINE Without(X) == ~ \E s \in X : \A x \in X : num[x] <= num[s]
           Bad == {X \in SUBSET S : X # {} /\ Without(X)}
           Sizes == {Cardinality(X) : X \in Bad}
<1>1. \A X \in SUBSET S : IsFiniteSet(X) /\ Cardinality(X) \in Nat
  BY FS_Subset, FS_CardinalityType
<1>2. SUFFICES ASSUME Bad # {} PROVE FALSE
  <2> HIDE DEF Without
  <2>1. S \notin Bad
    BY <1>2
  <2>2. ~Without(S)
    BY <2>1
  <2> QED
    BY <2>2 DEF Without
<1>3. Sizes \subseteq Nat /\ Sizes # {}
  BY <1>1, <1>2
<1>4. PICK n \in Sizes : \A m \in Sizes : n <= m
  <2> HIDE DEF Sizes
  <2> QED
    BY <1>3, LeastExists
<1>5. PICK X \in Bad : Cardinality(X) = n
  OBVIOUS
<1>6. PICK x \in X : TRUE
  BY <1>5
<1>7. /\ X \in SUBSET S /\ X \ {x} \in SUBSET S
      /\ Cardinality(X \ {x}) = Cardinality(X) - 1
  <2>1. X \in SUBSET S /\ X \ {x} \in SUBSET S
    BY <1>5
  <2>2. Cardinality(X \ {x}) = Cardinality(X) - 1
    BY <1>1, <1>6, <2>1, FS_RemoveElement
  <2> QED
    BY <2>1, <2>2
<1>8. X \ {x} \notin Bad
  <2> SUFFICES ASSUME X \ {x} \in Bad PROVE FALSE
    OBVIOUS
  <2>1. Cardinality(X \ {x}) \in Sizes
    OBVIOUS
  <2>2. n <= Cardinality(X \ {x})
    BY <1>4, <2>1
  <2>3. Cardinality(X) \in Nat /\ Cardinality(X \ {x}) \in Nat
    BY <1>1, <1>7
  <2> QED
    BY <1>5, <1>7, <2>2, <2>3
<1>9. CASE X \ {x} = {}
  <2>1. X = {x}
    BY <1>6, <1>9
  <2>2. num[x] <= num[x]
    BY <1>6, <1>7
  <2>3. ~Without(X)
    BY <2>1, <2>2
  <2> QED
    BY <1>5, <2>3
<1>10. CASE X \ {x} # {}
  <2>1. ~Without(X \ {x})
    <3> HIDE DEF Without
    <3> QED
      BY <1>7, <1>8, <1>10
  <2>2. PICK s \in X \ {x} : \A y \in X \ {x} : num[y] <= num[s]
    BY <2>1
  <2>3. \A y \in X : num[y] \in Int
    BY <1>7
  <2>4. CASE num[x] <= num[s]
    <3>1. \A y \in X : num[y] <= num[s]
      BY <2>2, <2>4
    <3> QED
      BY <1>5, <2>2, <3>1
  <2>5. CASE ~(num[x] <= num[s])
    <3>1. \A y \in X : y = x \/ num[y] <= num[s]
      BY <2>2
    <3>2. num[x] \in Int /\ num[s] \in Int /\ num[s] <= num[x]
      BY <1>6, <2>2, <2>3, <2>5
    <3>3. ASSUME NEW y \in X
          PROVE  num[y] <= num[x]
      <4>1. num[y] \in Int /\ (y = x \/ num[y] <= num[s])
        BY <2>3, <3>1
      <4> HIDE DEF Without, Bad, Sizes
      <4> QED
        BY <3>2, <4>1
    <3> QED
      BY <1>5, <1>6, <3>3
  <2> QED
    BY <2>4, <2>5
<1> QED
  BY <1>9, <1>10

\* so the first and the last of some steps of the list are among them.
LEMMA FirstLast ==
    ASSUME PlanPart, NEW S \in SUBSET Ids, S # {}
    PROVE  First(S) \in S /\ Last(S) \in S
<1>1. plan \in PlanName /\ Ids = DOMAIN StepIn[plan]
  BY DEF PlanPart, Ids
<1>2. IsFiniteSet(S)
  BY <1>1, StepAssumption, FS_Subset
<1>3. \A s \in S : StepOf(s).at \in Nat
  BY <1>1, StepAssumption DEF StepOf, PlanPart
<1> DEFINE up == [s \in S |-> StepOf(s).at]
           down == [s \in S |-> 0 - StepOf(s).at]
<1>4. up \in [S -> Int] /\ down \in [S -> Int]
  BY <1>3
<1>5. \E s \in S : \A x \in S : StepOf(x).at <= StepOf(s).at
  <2>1. \E s \in S : \A x \in S : up[x] <= up[s]
    <3> HIDE DEF up
    <3> QED
      BY <1>2, <1>4, GreatestNumbered
  <2> QED
    BY <2>1
<1>6. \E s \in S : \A x \in S : StepOf(s).at <= StepOf(x).at
  <2>1. \E s \in S : \A x \in S : down[x] <= down[s]
    <3> HIDE DEF down
    <3> QED
      BY <1>2, <1>4, GreatestNumbered
  <2>2. PICK s \in S : \A x \in S : down[x] <= down[s]
    BY <2>1
  <2>3. \A x \in S : StepOf(s).at <= StepOf(x).at
    BY <1>3, <2>2
  <2> QED
    BY <2>3
<1> QED
  BY <1>5, <1>6 DEF First, Last

-------------------------------------------------------------------------------
(* Pieces *)

\* Handlers and joins leave bundles.
LEMMA HandledType ==
    ASSUME NEW b \in Bundles, NEW tool
    PROVE  Handled(tool, b) \subseteq Bundles
<1>1. Appended(b) \in Bundles
  BY DEF Appended, Bundles
<1>2. \A c \in Bundles : [c EXCEPT !.compiled = TRUE] \in Bundles
  BY DEF Bundles
<1>3. \A c \in Bundles, x \in {"found", "empty"} : [c EXCEPT !.matches = x] \in Bundles
  BY DEF Bundles
<1>4. \A c \in Bundles, x \in BOOLEAN : [c EXCEPT !.url = x] \in Bundles
  BY DEF Bundles
<1> DEFINE more == Appended(b)
<1> HIDE DEF more
<1>5. SearchNodes(b) \subseteq Bundles
  BY <1>1, <1>3 DEF SearchNodes
<1>6. CompileContext(b) \subseteq Bundles
  BY <1>1, <1>2 DEF CompileContext
<1>7. WebSearch(b) \subseteq Bundles
  BY <1>1, <1>4 DEF WebSearch
<1> QED
  BY <1>1, <1>5, <1>6, <1>7 DEF Handled, ExpandFocus, AroundFocus, ListDocuments, GetDocument, WebFetch,
     AnswerAdapter

LEMMA JoinedType ==
    ASSUME NEW b \in Bundles, NEW more \in Bundles
    PROVE  Joined(b, more) \in Bundles
<1>1. /\ (b.compiled \/ more.compiled) \in BOOLEAN
      /\ (b.url \/ more.url) \in BOOLEAN
      /\ (b.some \/ more.some) \in BOOLEAN
  OBVIOUS
<1>2. (IF more.matches = None THEN b.matches ELSE more.matches) \in {None, "empty", "found"}
  BY DEF Bundles
<1> QED
  BY <1>1, <1>2 DEF Joined, Bundles

\* A new construct is a frame,
LEMMA FrameType ==
    ASSUME InterpretInv, phase = "run", NEW kind \in Kinds, NEW body \in SUBSET Ids
    PROVE  Frame(kind, body) \in Frames
<1>1. Empty \in Bundles
  BY DEF Empty, Bundles, None
<1> QED
  BY <1>1 DEF Frame, Frames, InterpretInv, ControlPart, ArtifactPart

\* and so is the next branch of a fan-out.
LEMMA NextBranchType ==
    ASSUME InterpretInv, NEW f \in Frames, NEW heads \in SUBSET Ids, heads # {}
    PROVE  NextBranch(f, heads) \in Frames
<1>1. First(heads) \in heads
  BY FirstLast DEF InterpretInv
<1>2. BranchSubtree(f.id, {First(heads)}) \subseteq Ids
  BY <1>1 DEF BranchSubtree
<1> DEFINE b == First(heads)
           sub == BranchSubtree(f.id, {b})
<1>3. sub \in SUBSET Ids /\ heads \ {b} \in SUBSET Ids
  BY <1>2
<1>4. NextBranch(f, heads) =
        [f EXCEPT !.body = sub, !.left = sub, !.rest = heads \ {b}, !.moved = FALSE]
  BY DEF NextBranch
<1> HIDE DEF sub, b
<1> QED
  BY <1>3, <1>4 DEF Frames

\* Changes of a frame that a walk makes.
LEMMA ChangedFrame ==
    ASSUME NEW f \in Frames
    PROVE  /\ \A s : Passed(f, s) \in Frames
           /\ [f EXCEPT !.left = {}] \in Frames
           /\ [f EXCEPT !.left = f.body, !.n = @ + 1, !.hurt = FALSE] \in Frames
           /\ [f EXCEPT !.left = f.body, !.moved = FALSE] \in Frames
           /\ [f EXCEPT !.moved = TRUE] \in Frames
           /\ [f EXCEPT !.kind = "FALLBACK"] \in Frames
           /\ \A h, g \in BOOLEAN : [f EXCEPT !.hurt = h, !.failed = g] \in Frames
           /\ \A g \in Bundles : [f EXCEPT !.gain = g] \in Frames
           /\ \A n \in Nat : [f EXCEPT !.n = n] \in Frames
           /\ f.body \in SUBSET Ids /\ f.left \in SUBSET Ids /\ f.rest \in SUBSET Ids
           /\ f.id \in Ids /\ f.runner \in Runners /\ f.n \in Nat /\ f.kind \in Kinds
           /\ f.saved \in Bundles /\ f.gain \in Bundles
           /\ BodyRunner(f) \in Runners
<1>1. /\ f.body \in SUBSET Ids /\ f.left \in SUBSET Ids /\ f.rest \in SUBSET Ids
      /\ f.id \in Ids /\ f.runner \in Runners /\ f.n \in Nat /\ f.kind \in Kinds
      /\ f.saved \in Bundles /\ f.gain \in Bundles
  BY DEF Frames
<1>2. \A s : Passed(f, s) \in Frames
  BY DEF Passed, Frames
<1>3. [f EXCEPT !.left = f.body, !.n = @ + 1, !.hurt = FALSE] \in Frames
  <2> DEFINE body == f.body
             more == f.n + 1
  <2>1. body \in SUBSET Ids /\ more \in Nat
    BY <1>1
  <2>2. [f EXCEPT !.left = f.body, !.n = @ + 1, !.hurt = FALSE]
          = [f EXCEPT !.left = body, !.n = more, !.hurt = FALSE]
    OBVIOUS
  <2> HIDE DEF body, more
  <2> QED
    BY <2>1, <2>2 DEF Frames
<1>4. [f EXCEPT !.kind = "FALLBACK"] \in Frames
  BY DEF Frames, Kinds
<1>5. /\ [f EXCEPT !.left = f.body, !.moved = FALSE] \in Frames
      /\ [f EXCEPT !.moved = TRUE] \in Frames
      /\ [f EXCEPT !.left = {}] \in Frames
  BY DEF Frames
<1>6. ASSUME NEW h \in BOOLEAN, NEW g \in BOOLEAN
      PROVE  [f EXCEPT !.hurt = h, !.failed = g] \in Frames
  <2>1. [f EXCEPT !.hurt = TRUE] \in Frames /\ [f EXCEPT !.hurt = FALSE] \in Frames
    BY DEF Frames
  <2>2. \A c \in Frames :
          [c EXCEPT !.failed = TRUE] \in Frames /\ [c EXCEPT !.failed = FALSE] \in Frames
    BY DEF Frames
  <2>3. [f EXCEPT !.hurt = h, !.failed = g] = [[f EXCEPT !.hurt = h] EXCEPT !.failed = g]
    OBVIOUS
  <2> QED
    BY <2>1, <2>2, <2>3
<1>8. ASSUME NEW g \in Bundles
      PROVE  [f EXCEPT !.gain = g] \in Frames
  BY DEF Frames
<1>9. ASSUME NEW n \in Nat
      PROVE  [f EXCEPT !.n = n] \in Frames
  BY DEF Frames
<1>7. BodyRunner(f) \in Runners
  BY <1>1 DEF BodyRunner, Runners
<1> QED
  BY <1>1, <1>2, <1>3, <1>4, <1>5, <1>6, <1>7, <1>8, <1>9

\* The construct that works is a frame, and so are those below it.
LEMMA TopType ==
    ASSUME ControlPart, stack # <<>>
    PROVE  Top \in Frames /\ Under \in Seq(Frames)
BY DEF ControlPart, Top, Under

-------------------------------------------------------------------------------
(* Ways to move on: the control part after each of them *)

LEMMA FramesStay ==
    ASSUME steps' = steps
    PROVE  Ids' = Ids /\ Frames' = Frames
<1>1. Ids' = Ids
  BY DEF Ids
<1> QED
  BY <1>1 DEF Frames, Bundles, Kinds, Runners

LEMMA ReturnControl ==
    ASSUME steps' = steps, stack' \in Seq(Frames), NEW s \in Ids, NEW runner \in Runners,
           NEW st \in Status, NEW reason, Return(s, runner, st, reason)
    PROVE  ControlPart'
<1>1. call'.id = s /\ call'.runner = runner /\ out'.status = st /\ phase' = "return"
  BY DEF Return
<1> QED
  BY <1>1, FramesStay DEF ControlPart, Runners, Status

LEMMA AnswerControl ==
    ASSUME InterpretInv, steps' = steps, phase = "run",
           NEW st \in Status, NEW reason, Answer(st, reason)
    PROVE  ControlPart'
BY ReturnControl DEF Answer, InterpretInv, ControlPart

LEMMA EnterControl ==
    ASSUME InterpretInv, steps' = steps, NEW f \in Frames, Enter(f)
    PROVE  ControlPart'
<1>1. stack' \in Seq(Frames) /\ stack' # <<>>
  BY DEF Enter, InterpretInv, ControlPart
<1> QED
  BY <1>1, FramesStay DEF Enter, ControlPart

LEMMA LeaveControl ==
    ASSUME InterpretInv, steps' = steps, stack # <<>>,
           NEW st \in Status, NEW reason, Leave(st, reason)
    PROVE  ControlPart'
<1>1. Top \in Frames /\ Under \in Seq(Frames)
  BY TopType DEF InterpretInv
<1>2. Top.id \in Ids /\ Top.runner \in Runners
  BY <1>1, ChangedFrame
<1> QED
  BY <1>1, <1>2, ReturnControl DEF Leave

LEMMA StayControl ==
    ASSUME InterpretInv, steps' = steps, stack # <<>>, NEW f \in Frames, Stay(f)
    PROVE  ControlPart'
<1>1. Under \in Seq(Frames)
  BY TopType DEF InterpretInv
<1>2. stack' \in Seq(Frames) /\ stack' # <<>>
  BY <1>1 DEF Stay
<1> QED
  BY <1>2, FramesStay DEF Stay, ControlPart

\* What an action leaves alone keeps its part.
LEMMA PlanStays ==
    ASSUME InterpretInv, UNCHANGED walkVars
    PROVE  PlanPart' /\ steps' = steps /\ Ids' = Ids /\ Ids \subseteq Id
<1>1. Ids \subseteq Id
  BY StepAssumption DEF InterpretInv, PlanPart, Ids
<1> QED
  BY <1>1, FramesStay DEF walkVars, InterpretInv, PlanPart, RoundLimit

LEMMA StatusStays ==
    ASSUME InterpretInv, UNCHANGED stepVars
    PROVE  StatusPart'
BY DEF stepVars, InterpretInv, StatusPart

LEMMA ArtifactsStay ==
    ASSUME InterpretInv, UNCHANGED artVars
    PROVE  ArtifactPart'
BY DEF artVars, InterpretInv, ArtifactPart, Bundles

-------------------------------------------------------------------------------
(* The actions *)

LEMMA RoundsType ==
    ASSUME InterpretInv
    PROVE  RoundLimit \in Nat
<1>1. IsFiniteSet(DOMAIN StepIn[first])
  BY PlanAssumption, StepAssumption DEF InterpretInv, PlanPart
<1> QED
  BY <1>1, FS_CardinalityType DEF RoundLimit

LEMMA BeginRoundType ==
    ASSUME InterpretInv, BeginRound
    PROVE  InterpretInv'
<1>1. PICK T \in SUBSET Timers :
        /\ status' = Resumed(T)
        /\ completed' = completed \cup {s \in Ids : status[s] # Resumed(T)[s] /\ Resumed(T)[s] = "completed"}
        /\ ready' = ReadySteps(Resumed(T),
             completed \cup {s \in Ids : status[s] # Resumed(T)[s] /\ Resumed(T)[s] = "completed"})
        /\ phase' = IF ready' = {} THEN "ended" ELSE "batch"
  BY DEF BeginRound
<1>2. /\ phase = "round" /\ round < RoundLimit /\ round' = round + 1 /\ listed' = plan
      /\ UNCHANGED <<first, plan, steps, artVars, calls, call, out, stack>>
  BY DEF BeginRound
<1>3. Ids \subseteq Id
  BY StepAssumption DEF InterpretInv, PlanPart, Ids
<1>4. Resumed(T) \in [Id -> Status]
  BY DEF Resumed, Status, InterpretInv, StatusPart
<1>5. ready' \subseteq Id
  BY <1>1, <1>3 DEF ReadySteps
<1>6. StatusPart'
  BY <1>1, <1>2, <1>3, <1>4 DEF InterpretInv, StatusPart
<1>7. PlanPart'
  BY <1>2, <1>5, RoundsType DEF InterpretInv, PlanPart, RoundLimit
<1>8. ArtifactPart'
  BY <1>2, ArtifactsStay
<1>9. ControlPart'
  BY <1>1, <1>2, FramesStay DEF InterpretInv, ControlPart
<1> QED
  BY <1>6, <1>7, <1>8, <1>9 DEF InterpretInv

\* The interpreter turns to another round, or stops.
LEMMA TurnType ==
    ASSUME InterpretInv, LastRound \/ BatchDone
    PROVE  InterpretInv'
<1>1. /\ UNCHANGED <<walkVars, stepVars, artVars, call, out, stack>>
      /\ phase \in {"round", "batch"} /\ phase' \in {"round", "ended"}
  BY DEF LastRound, BatchDone
<1>2. ControlPart'
  BY <1>1, PlanStays, FramesStay DEF InterpretInv, ControlPart
<1> QED
  BY <1>1, <1>2, PlanStays, StatusStays, ArtifactsStay DEF InterpretInv

LEMMA TakeReadyType ==
    ASSUME InterpretInv, TakeReady
    PROVE  InterpretInv'
<1>1. PICK s \in ready :
        /\ ready' = ready \ {s}
        /\ IF s \in Ids
           THEN /\ status' = [status EXCEPT ![s] = "active"]
                /\ call' = [id |-> s, runner |-> "plain"]
                /\ phase' = "run"
           ELSE UNCHANGED <<status, call, phase>>
  BY DEF TakeReady
<1>2. /\ phase = "batch"
      /\ UNCHANGED <<first, plan, steps, round, listed, completed, calls, artVars, out, stack>>
  BY DEF TakeReady
<1>3. PlanPart'
  BY <1>1, <1>2 DEF InterpretInv, PlanPart, RoundLimit
<1>4. s \in Id
  BY DEF InterpretInv, PlanPart
<1>5. StatusPart'
  BY <1>1, <1>2, <1>4 DEF InterpretInv, StatusPart, Status
<1>6. ArtifactPart'
  BY <1>2, ArtifactsStay
<1>7. ControlPart'
  <2>1. CASE s \in Ids
    <3>1. call'.id \in Ids /\ call'.runner \in Runners /\ phase' = "run" /\ stack' = stack
      BY <1>1, <1>2, <2>1 DEF Runners
    <3> QED
      BY <1>2, <3>1, FramesStay DEF InterpretInv, ControlPart, Runners
  <2>2. CASE s \notin Ids
    BY <1>1, <1>2, <2>2, FramesStay DEF InterpretInv, ControlPart
  <2> QED
    BY <2>1, <2>2
<1> QED
  BY <1>3, <1>5, <1>6, <1>7 DEF InterpretInv

\* The stack is empty when a revised plan is taken, so its frames are of no plan.
LEMMA RecordType ==
    ASSUME InterpretInv, Record
    PROVE  InterpretInv'
<1> DEFINE st == [status EXCEPT ![call.id] = out.status]
           finished == completed \cup (IF out.status = "completed" THEN {call.id} ELSE {})
<1>1. /\ phase = "return" /\ stack = <<>> /\ phase' = "batch" /\ completed' = finished
      /\ UNCHANGED <<first, round, ready, listed, calls, artVars, stack>>
  BY DEF Record
<1>2. \/ plan' = plan /\ steps' = steps /\ status' = st
      \/ \E q \in RevisedBy[plan] :
           plan' = q /\ steps' = StepIn[q] /\ status' = Swapped(q, st, finished)
  BY DEF Record
<1>3. call.id \in Ids /\ out.status \in Status /\ Ids \subseteq Id
  BY <1>1, StepAssumption DEF InterpretInv, ControlPart, PlanPart, Ids
<1>4. st \in [Id -> Status] /\ finished \subseteq Id
  BY <1>3 DEF InterpretInv, StatusPart
<1> HIDE DEF st, finished
<1>5. \A q : Swapped(q, st, finished) \in [Id -> Status]
  BY <1>4 DEF Swapped, Status
<1>6. StatusPart'
  BY <1>1, <1>2, <1>4, <1>5 DEF InterpretInv, StatusPart
<1>7. plan' \in PlanName /\ steps' = StepIn[plan']
  BY <1>2, PlanAssumption DEF InterpretInv, PlanPart
<1>8. PlanPart'
  BY <1>1, <1>7 DEF InterpretInv, PlanPart, RoundLimit
<1>9. ArtifactPart'
  BY <1>1, ArtifactsStay
<1>10. stack' = <<>> /\ stack' \in Seq(Frames')
  BY <1>1
<1>11. ControlPart'
  BY <1>1, <1>10 DEF ControlPart
<1> QED
  BY <1>6, <1>8, <1>9, <1>11 DEF InterpretInv

-------------------------------------------------------------------------------
(* Running a step *)

LEMMA RunPlainType ==
    ASSUME InterpretInv, RunPlain
    PROVE  InterpretInv'
<1>1. UNCHANGED <<walkVars, stepVars, artVars>> /\ phase = "run"
  BY DEF RunPlain
<1>2. \E st \in Status, reason \in {None, "revision_loop_owns_recursion", "unknown_construct"} :
         Answer(st, reason)
  BY DEF RunPlain, Status
<1>3. ControlPart'
  BY <1>1, <1>2, PlanStays, AnswerControl
<1> QED
  BY <1>1, <1>3, PlanStays, StatusStays, ArtifactsStay DEF InterpretInv

LEMMA RunCallType ==
    ASSUME InterpretInv, RunCall
    PROVE  InterpretInv'
<1> DEFINE tool == StepOf(call.id).tool
<1>1. UNCHANGED <<walkVars, status, completed, ticks, waited, stored>> /\ phase = "run"
  BY DEF RunCall, Running
<1>2. /\ PlanPart' /\ steps' = steps /\ Ids \subseteq Id
      /\ call.id \in Id
  BY <1>1, PlanStays DEF InterpretInv, ControlPart
<1>3. \/ Answer("blocked", "no_handler") /\ UNCHANGED <<bundle, effects, answered, calls>>
      \/ Answer("skipped", "duplicate_effect") /\ UNCHANGED <<bundle, effects, answered, calls>>
      \/ /\ calls' = [calls EXCEPT ![call.id] = @ + 1]
         /\ \/ /\ bundle' \in Handled(tool, bundle)
               /\ effects' = effects \cup ({tool} \cap {"tirzah_retrieval"})
               /\ answered' = (answered \/ tool = "answer_adapter")
               /\ Answer("completed", None)
            \/ /\ \E r \in {"handler_failed", "not_ok"} : Answer("blocked", r)
               /\ UNCHANGED <<bundle, effects, answered>>
  BY DEF RunCall
<1>4. \E st \in Status, reason \in {None, "no_handler", "duplicate_effect", "handler_failed", "not_ok"} :
         Answer(st, reason)
  BY <1>3 DEF Status
<1>5. ControlPart'
  BY <1>1, <1>2, <1>4, AnswerControl
<1>6. calls' \in [Id -> Nat]
  BY <1>2, <1>3 DEF InterpretInv, StatusPart
<1>7. StatusPart'
  BY <1>1, <1>6 DEF InterpretInv, StatusPart
<1>8. bundle' \in Bundles
  BY <1>3, HandledType DEF InterpretInv, ArtifactPart
<1>9. effects' \subseteq {"tirzah_retrieval"} /\ answered' \in BOOLEAN
  BY <1>3 DEF InterpretInv, ArtifactPart
<1>10. ArtifactPart'
  BY <1>1, <1>8, <1>9 DEF InterpretInv, ArtifactPart, Bundles
<1> QED
  BY <1>2, <1>5, <1>7, <1>10 DEF InterpretInv

LEMMA RunAwaitType ==
    ASSUME InterpretInv, RunAwait
    PROVE  InterpretInv'
<1>1. UNCHANGED <<walkVars, stepVars, bundle, effects, answered, ticks, stored>> /\ phase = "run"
  BY DEF RunAwait, Running
<1>2. PlanPart' /\ steps' = steps /\ call.id \in Id
  BY <1>1, PlanStays DEF InterpretInv, ControlPart
<1>3. \E st \in Status, reason \in {None, "await_timeout"} : Answer(st, reason)
  BY DEF RunAwait, Status
<1>4. waited' \subseteq Id
  BY <1>2 DEF RunAwait, InterpretInv, ArtifactPart
<1>5. ControlPart'
  BY <1>1, <1>2, <1>3, AnswerControl
<1>6. ArtifactPart'
  BY <1>1, <1>4 DEF InterpretInv, ArtifactPart, Bundles
<1> QED
  BY <1>1, <1>2, <1>5, <1>6, StatusStays DEF InterpretInv

LEMMA RunMergeType ==
    ASSUME InterpretInv, RunMerge
    PROVE  InterpretInv'
<1>1. UNCHANGED <<walkVars, stepVars, effects, answered, ticks, waited, stored>> /\ phase = "run"
  BY DEF RunMerge, Running
<1>2. PlanPart' /\ steps' = steps /\ Ids \subseteq Id
  BY <1>1, PlanStays
<1>3. ParallelParents(call.id) \subseteq Id
  <2>1. call.id \in DOMAIN StepIn[plan] /\ plan \in PlanName /\ steps = StepIn[plan]
    BY <1>1 DEF InterpretInv, ControlPart, PlanPart, Ids
  <2>2. \A s \in DOMAIN StepIn[plan] : DependsOn(s) \subseteq DOMAIN StepIn[plan]
    BY <2>1, StepAssumption DEF DependsOn, StepOf
  <2> QED
    BY <1>2, <2>1, <2>2 DEF ParallelParents, Ids
<1>4. \/ bundle' = bundle /\ Answer("completed", None)
      \/ phase' = "raised" /\ UNCHANGED <<bundle, call, out, stack>>
      \/ \E p \in ParallelParents(call.id) : \E b \in stored[p] :
           /\ bundle' = IF StepOf(p).mode = "isolated" THEN Joined(bundle, b) ELSE bundle
           /\ Answer("completed", None)
  BY DEF RunMerge
<1>5. bundle' \in Bundles
  <2>1. \A p \in ParallelParents(call.id) : \A b \in stored[p] : Joined(bundle, b) \in Bundles
    BY <1>3, JoinedType DEF InterpretInv, ArtifactPart
  <2> QED
    BY <1>4, <2>1 DEF InterpretInv, ArtifactPart
<1>6. ArtifactPart'
  BY <1>1, <1>5 DEF InterpretInv, ArtifactPart, Bundles
<1>7. ControlPart'
  <2>1. CASE Answer("completed", None)
    BY <1>1, <1>2, <2>1, AnswerControl DEF Status
  <2>2. CASE phase' = "raised" /\ UNCHANGED <<bundle, call, out, stack>>
    BY <1>2, <2>2, FramesStay DEF InterpretInv, ControlPart
  <2> QED
    BY <1>4, <2>1, <2>2
<1> QED
  BY <1>1, <1>2, <1>6, <1>7, StatusStays DEF InterpretInv

\* What a step owns are steps.
LEMMA BodyType ==
    ASSUME NEW s
    PROVE  Body(s) \in SUBSET Ids
BY DEF Body

LEMMA RunLoopType ==
    ASSUME InterpretInv, RunLoop
    PROVE  InterpretInv'
<1> DEFINE f == Frame(StepOf(call.id).construct, Body(call.id))
<1>1. UNCHANGED <<walkVars, stepVars, artVars>> /\ phase = "run"
  BY DEF RunLoop
<1>2. f \in Frames
  BY <1>1, FrameType, BodyType DEF RunLoop, Kinds
<1>3. Answer("completed", None) \/ Enter(f)
  BY DEF RunLoop
<1> HIDE DEF f
<1>4. ControlPart'
  BY <1>1, <1>2, <1>3, PlanStays, AnswerControl, EnterControl DEF Status
<1> QED
  BY <1>1, <1>4, PlanStays, StatusStays, ArtifactsStay DEF InterpretInv

LEMMA RunServiceType ==
    ASSUME InterpretInv, RunService
    PROVE  InterpretInv'
<1> DEFINE f == Frame("SERVICE", Body(call.id))
           g == [f EXCEPT !.n = ticks[call.id] + 1]
<1>1. /\ UNCHANGED <<walkVars, stepVars, bundle, effects, answered, waited, stored>>
      /\ phase = "run"
  BY DEF RunService, Running
<1>2. PlanPart' /\ steps' = steps /\ call.id \in Id
  BY <1>1, PlanStays DEF InterpretInv, ControlPart
<1>3. ticks[call.id] + 1 \in Nat /\ [ticks EXCEPT ![call.id] = @ + 1] \in [Id -> Nat]
  BY <1>2 DEF InterpretInv, ArtifactPart
<1>4. g \in Frames
  <2>1. f \in Frames
    BY <1>1, FrameType, BodyType DEF Kinds
  <2> HIDE DEF f
  <2> QED
    BY <1>3, <2>1, ChangedFrame
<1>5. \/ Answer("completed", None) /\ ticks' = ticks
      \/ Enter(g) /\ ticks' = [ticks EXCEPT ![call.id] = @ + 1]
  BY DEF RunService
<1> HIDE DEF g
<1>6. ControlPart'
  BY <1>1, <1>2, <1>4, <1>5, AnswerControl, EnterControl DEF Status
<1>7. ArtifactPart'
  BY <1>1, <1>3, <1>5 DEF InterpretInv, ArtifactPart, Bundles
<1> QED
  BY <1>1, <1>2, <1>6, <1>7, StatusStays DEF InterpretInv

\* The branches a decision takes are steps it owns.
LEMMA SelectedType ==
    ASSUME InterpretInv, NEW s
    PROVE  Selected(s) \subseteq Ids
<1> DEFINE match == {b \in Body(s) : StepOf(b).label = DecisionBranch(StepOf(s).on)}
           default == {b \in Body(s) : StepOf(b).label = "default"}
<1>1. match \subseteq Ids /\ default \in SUBSET Ids /\ Body(s) \in SUBSET Ids
  BY BodyType
<1>2. default # {} => Last(default) \in Ids
  BY <1>1, FirstLast DEF InterpretInv
<1>3. Body(s) # {} => First(Body(s)) \in Ids
  BY <1>1, FirstLast DEF InterpretInv
<1>4. Selected(s) = IF match # {} \/ Body(s) = {} THEN match
                    ELSE IF default # {} THEN {Last(default)} ELSE {First(Body(s))}
  BY DEF Selected
<1> HIDE DEF match, default
<1> QED
  BY <1>1, <1>2, <1>3, <1>4

LEMMA RunDecisionType ==
    ASSUME InterpretInv, RunDecision
    PROVE  InterpretInv'
<1> DEFINE heads == Selected(call.id)
           gone == SkippedBy(Body(call.id) \ heads)
           f == Frame("DECISION", BranchSubtree(call.id, heads))
<1>1. UNCHANGED <<walkVars, calls, artVars>> /\ phase = "run"
  BY DEF RunDecision, Running
<1>2. PlanPart' /\ steps' = steps /\ Ids \subseteq Id
  BY <1>1, PlanStays
<1>3. /\ status' = [x \in Id |-> IF x \in gone THEN "skipped" ELSE status[x]]
      /\ completed' = completed \cup gone
      /\ Answer("completed", None) \/ Enter(f)
  BY DEF RunDecision
<1>4. gone \subseteq Id
  BY <1>2, BodyType DEF SkippedBy, CascadeSkipped
<1>5. f \in Frames
  <2>1. BranchSubtree(call.id, heads) \in SUBSET Ids
    BY SelectedType DEF BranchSubtree
  <2> QED
    BY <1>1, <2>1, FrameType DEF Kinds
<1> HIDE DEF gone, f
<1>6. StatusPart'
  BY <1>1, <1>3, <1>4 DEF InterpretInv, StatusPart, Status
<1>7. ControlPart'
  BY <1>1, <1>2, <1>3, <1>5, AnswerControl, EnterControl DEF Status
<1> QED
  BY <1>1, <1>2, <1>6, <1>7, ArtifactsStay DEF InterpretInv

LEMMA RunFanOutType ==
    ASSUME InterpretInv, RunFanOut
    PROVE  InterpretInv'
<1> DEFINE heads == Body(call.id)
           f == Frame(StepOf(call.id).construct, {})
<1>1. UNCHANGED <<walkVars, stepVars, effects, answered, ticks, waited, stored>> /\ phase = "run"
  BY DEF RunFanOut
<1>2. PlanPart' /\ steps' = steps
  BY <1>1, PlanStays
<1>3. f \in Frames
  BY <1>1, FrameType DEF RunFanOut, Kinds
<1>4. \/ Answer("completed", None) /\ bundle' = bundle
      \/ /\ heads # {} /\ Enter(NextBranch(f, heads))
         /\ bundle' = IF Isolated(f) THEN Empty ELSE bundle
  BY DEF RunFanOut
<1>5. heads # {} => NextBranch(f, heads) \in Frames
  <2> HIDE DEF f
  <2> QED
    BY <1>3, NextBranchType, BodyType
<1>6. Empty \in Bundles
  BY DEF Empty, Bundles, None
<1> HIDE DEF heads, f
<1>7. ControlPart'
  BY <1>1, <1>2, <1>4, <1>5, AnswerControl, EnterControl DEF Status
<1>8. ArtifactPart'
  BY <1>1, <1>4, <1>6 DEF InterpretInv, ArtifactPart, Bundles
<1> QED
  BY <1>1, <1>2, <1>7, <1>8, StatusStays DEF InterpretInv

-------------------------------------------------------------------------------
(* Walking *)

\* While a construct walks, or an outcome reaches it, it is on the stack.
LEMMA AtWork ==
    ASSUME InterpretInv, phase = "walk" \/ stack # <<>>
    PROVE  stack # <<>> /\ Top \in Frames /\ Under \in Seq(Frames)
BY TopType DEF InterpretInv, ControlPart

LEMMA VisitType ==
    ASSUME InterpretInv, Visit
    PROVE  InterpretInv'
<1>1. UNCHANGED <<walkVars, artVars>> /\ phase = "walk"
  BY DEF Visit
<1>2. PlanPart' /\ steps' = steps /\ Ids \subseteq Id
  BY <1>1, PlanStays
<1>3. stack # <<>> /\ Top \in Frames /\ Under \in Seq(Frames)
  BY <1>1, AtWork
<1>4. PICK s \in Ids : \E back \in {Rewound(Top, s)} :
        /\ status' = Reset(back) /\ completed' = Remaining(back)
        /\ calls' = [x \in Id |-> IF x \in back THEN 0 ELSE calls[x]]
        /\ \/ /\ call' = [id |-> s, runner |-> BodyRunner(Top)] /\ phase' = "run"
              /\ stack' = Append(Under, Passed(Top, s)) /\ out' = out
           \/ Stay(Passed(Top, s))
  BY DEF Visit
<1>5. StatusPart'
  BY <1>4 DEF InterpretInv, StatusPart, Reset, Remaining, Status
<1>6. Passed(Top, s) \in Frames /\ BodyRunner(Top) \in Runners
  BY <1>3, ChangedFrame
<1>7. ControlPart'
  <2>1. CASE Stay(Passed(Top, s))
    BY <1>2, <1>3, <1>6, <2>1, StayControl
  <2>2. CASE /\ call' = [id |-> s, runner |-> BodyRunner(Top)] /\ phase' = "run"
             /\ stack' = Append(Under, Passed(Top, s)) /\ out' = out
    <3>1. stack' \in Seq(Frames) /\ call'.id = s /\ call'.runner = BodyRunner(Top)
      BY <1>3, <1>6, <2>2
    <3> QED
      BY <1>2, <1>4, <1>6, <2>2, <3>1, FramesStay DEF ControlPart, Runners
  <2> QED
    BY <1>4, <2>1, <2>2
<1> QED
  BY <1>1, <1>2, <1>5, <1>7, ArtifactsStay DEF InterpretInv

LEMMA VisitControlType ==
    ASSUME InterpretInv, VisitControl
    PROVE  InterpretInv'
<1>1. UNCHANGED <<walkVars, calls, artVars>> /\ phase = "walk"
  BY DEF VisitControl
<1>2. PlanPart' /\ steps' = steps /\ Ids \subseteq Id
  BY <1>1, PlanStays
<1>3. stack # <<>> /\ Top \in Frames
  BY <1>1, AtWork
<1>4. PICK s \in Ids : \E hit \in {LoopControl(StepOf(s).on, Top)} :
        /\ status' = [status EXCEPT ![s] = IF hit THEN "completed" ELSE "skipped"]
        /\ completed' = completed \cup {s}
        /\ \/ IterateOutcome(Top)
           \/ Stay(IF hit THEN [Top EXCEPT !.left = {}] ELSE Passed(Top, s))
  BY DEF VisitControl
<1>5. StatusPart'
  <2>1. \A v \in {"completed", "skipped"} : [status EXCEPT ![s] = v] \in [Id -> Status]
    BY DEF InterpretInv, StatusPart, Status
  <2> QED
    BY <1>1, <1>2, <1>4, <2>1 DEF InterpretInv, StatusPart
<1>6. [Top EXCEPT !.left = {}] \in Frames /\ Passed(Top, s) \in Frames
  BY <1>3, ChangedFrame
<1> DEFINE ended == [Top EXCEPT !.left = {}]
           passed == Passed(Top, s)
<1>7. IterateOutcome(Top) \/ Stay(ended) \/ Stay(passed)
  <2> HIDE DEF ended, passed
  <2>1. PICK hit \in {LoopControl(StepOf(s).on, Top)} :
          IterateOutcome(Top) \/ Stay(IF hit THEN ended ELSE passed)
    BY <1>4 DEF ended, passed
  <2>2. CASE hit
    <3>1. (IF hit THEN ended ELSE passed) = ended
      BY <2>2
    <3> QED
      BY <2>1, <3>1
  <2>3. CASE ~hit
    <3>1. (IF hit THEN ended ELSE passed) = passed
      BY <2>3
    <3> QED
      BY <2>1, <3>1
  <2> QED
    BY <2>2, <2>3
<1> HIDE DEF ended, passed
<1>8. ControlPart'
  <2>1. CASE IterateOutcome(Top)
    <3>1. Leave("blocked", "iterate_body_blocked") \/ Leave("completed", None)
      BY <2>1 DEF IterateOutcome
    <3> QED
      BY <1>2, <1>3, <3>1, LeaveControl DEF Status
  <2>2. ended \in Frames /\ passed \in Frames
    BY <1>6 DEF ended, passed
  <2> QED
    BY <1>2, <1>3, <1>7, <2>1, <2>2, StayControl
<1> QED
  BY <1>1, <1>2, <1>5, <1>8, ArtifactsStay DEF InterpretInv

\* Another pass over the body, or the end of the construct.
LEMMA PassType ==
    ASSUME InterpretInv, IteratePass \/ RetryPass \/ QueuePass \/ SinglePass
    PROVE  InterpretInv'
<1>1. UNCHANGED <<walkVars, stepVars, artVars>> /\ phase = "walk"
  BY DEF IteratePass, RetryPass, QueuePass, SinglePass, PassDone
<1>2. PlanPart' /\ steps' = steps
  BY <1>1, PlanStays
<1>3. stack # <<>> /\ Top \in Frames
  BY <1>1, AtWork
<1> DEFINE again == [Top EXCEPT !.left = Top.body, !.n = @ + 1, !.hurt = FALSE]
<1>4. \/ Stay(again)
      \/ \E st \in Status, reason \in {None, "iterate_body_blocked", "retry_exhausted",
                                        "queue_turn_blocked", "service_tick_blocked"} :
           Leave(st, reason)
  BY DEF IteratePass, RetryPass, QueuePass, SinglePass, Again, IterateOutcome, Status
<1>5. again \in Frames
  BY <1>3, ChangedFrame
<1> HIDE DEF again
<1>6. ControlPart'
  BY <1>2, <1>3, <1>4, <1>5, StayControl, LeaveControl
<1> QED
  BY <1>1, <1>2, <1>6, StatusStays, ArtifactsStay DEF InterpretInv

LEMMA BranchPassType ==
    ASSUME InterpretInv, BranchPass
    PROVE  InterpretInv'
<1> DEFINE f == [Top EXCEPT !.gain = IF Isolated(Top) THEN Joined(@, bundle) ELSE @]
           calm == IF Isolated(f) THEN f.saved ELSE bundle
           again == [Top EXCEPT !.left = f.body, !.moved = FALSE]
<1>1. UNCHANGED <<walkVars, stepVars, effects, answered, ticks, waited>> /\ phase = "walk"
  BY DEF BranchPass, PassDone
<1>2. PlanPart' /\ steps' = steps /\ Ids \subseteq Id
  BY <1>1, PlanStays
<1>3. stack # <<>> /\ Top \in Frames
  BY <1>1, AtWork
<1>4. \/ Stay(again) /\ UNCHANGED <<bundle, stored>>
      \/ /\ f.rest # {} /\ Stay(NextBranch(f, f.rest))
         /\ bundle' = IF Isolated(f) THEN Empty ELSE bundle
         /\ stored' = stored
      \/ /\ Leave("completed", None)
         /\ bundle' = calm
         /\ stored' = IF f.kind = "PARALLEL" THEN [stored EXCEPT ![f.id] = {f.gain}]
                      ELSE stored
  BY DEF BranchPass
<1>5. f \in Frames
  <2>1. Joined(Top.gain, bundle) \in Bundles /\ Top.gain \in Bundles
    BY <1>3, ChangedFrame, JoinedType DEF InterpretInv, ArtifactPart
  <2> DEFINE gained == IF Isolated(Top) THEN Joined(Top.gain, bundle) ELSE Top.gain
  <2>2. gained \in Bundles
    BY <2>1
  <2>3. f = [Top EXCEPT !.gain = gained]
    OBVIOUS
  <2> HIDE DEF gained, f
  <2> QED
    BY <1>3, <2>2, <2>3, ChangedFrame
<1>6. again \in Frames
  <2>1. f.body = Top.body
    BY <1>3 DEF Frames
  <2> HIDE DEF f
  <2> QED
    BY <1>3, <2>1, ChangedFrame
<1> HIDE DEF f, again
<1>7. /\ f.rest \in SUBSET Ids /\ f.saved \in Bundles /\ f.gain \in Bundles
      /\ Empty \in Bundles /\ bundle \in Bundles /\ stored \in [Id -> SUBSET Bundles]
  BY <1>5, ChangedFrame DEF Empty, Bundles, None, InterpretInv, ArtifactPart
<1>8. f.rest # {} => NextBranch(f, f.rest) \in Frames
  BY <1>5, <1>7, NextBranchType
<1>9. ControlPart'
  BY <1>2, <1>3, <1>4, <1>6, <1>8, StayControl, LeaveControl DEF Status
<1>10. bundle' \in Bundles /\ stored' \in [Id -> SUBSET Bundles]
  <2>1. [stored EXCEPT ![f.id] = {f.gain}] \in [Id -> SUBSET Bundles]
    BY <1>7
  <2> QED
    BY <1>4, <1>7, <2>1
<1>11. ArtifactPart'
  BY <1>1, <1>10 DEF InterpretInv, ArtifactPart, Bundles
<1> QED
  BY <1>1, <1>2, <1>9, <1>11, StatusStays DEF InterpretInv

-------------------------------------------------------------------------------
(* Noting outcomes *)

\* An outcome that a construct notes is a status of a step.
LEMMA NotedType ==
    ASSUME InterpretInv, phase = "return", Noted(call.id), UNCHANGED calls
    PROVE  StatusPart'
<1>1. call.id \in Id /\ out.status \in Status
  BY StepAssumption DEF InterpretInv, ControlPart, PlanPart, Ids
<1> QED
  BY <1>1 DEF Noted, InterpretInv, StatusPart

LEMMA LoopNotesType ==
    ASSUME InterpretInv, LoopNotes
    PROVE  InterpretInv'
<1> DEFINE g == [Top EXCEPT !.hurt = @ \/ Failed, !.failed = @ \/ Failed]
           hurt == Top.hurt \/ Failed
           failed == Top.failed \/ Failed
<1>1. /\ UNCHANGED <<walkVars, calls, artVars>> /\ phase = "return" /\ stack # <<>>
      /\ Noted(call.id) /\ Stay(g)
  BY DEF LoopNotes, Got
<1>2. PlanPart' /\ steps' = steps
  BY <1>1, PlanStays
<1>3. g \in Frames
  <2>1. hurt \in BOOLEAN /\ failed \in BOOLEAN
    OBVIOUS
  <2>2. g = [Top EXCEPT !.hurt = hurt, !.failed = failed]
    OBVIOUS
  <2>3. Top \in Frames
    BY <1>1, AtWork
  <2> HIDE DEF g, hurt, failed
  <2> QED
    BY <2>1, <2>2, <2>3, ChangedFrame
<1> HIDE DEF g
<1>4. ControlPart'
  BY <1>1, <1>2, <1>3, StayControl
<1> QED
  BY <1>1, <1>2, <1>4, NotedType, ArtifactsStay DEF InterpretInv

LEMMA BranchNotesType ==
    ASSUME InterpretInv, BranchNotes
    PROVE  InterpretInv'
<1> DEFINE g == [Top EXCEPT !.moved = TRUE]
<1>1. /\ UNCHANGED <<walkVars, calls, effects, answered, ticks, waited, stored>>
      /\ phase = "return" /\ stack # <<>> /\ Noted(call.id)
      /\ \/ /\ Leave("blocked", out.reason)
            /\ bundle' = IF Isolated(Top) THEN Top.saved ELSE bundle
         \/ Stay(g) /\ bundle' = bundle
  BY DEF BranchNotes, Got
<1>2. PlanPart' /\ steps' = steps
  BY <1>1, PlanStays
<1>3. Top \in Frames
  BY <1>1, AtWork
<1>4. g \in Frames /\ Top.saved \in Bundles
  BY <1>3, ChangedFrame
<1> HIDE DEF g
<1>5. ControlPart'
  BY <1>1, <1>2, <1>4, StayControl, LeaveControl DEF Status
<1>6. ArtifactPart'
  BY <1>1, <1>4 DEF InterpretInv, ArtifactPart, Bundles
<1> QED
  BY <1>1, <1>2, <1>5, <1>6, NotedType DEF InterpretInv

LEMMA GuardNotesType ==
    ASSUME InterpretInv, GuardNotes \/ FallbackNotes
    PROVE  InterpretInv'
<1>1. /\ UNCHANGED <<walkVars, calls, artVars>> /\ phase = "return" /\ stack # <<>>
      /\ Noted(call.id) /\ (Stay(Top) \/ Leave(out.status, out.reason))
  BY DEF GuardNotes, FallbackNotes, Got
<1>2. PlanPart' /\ steps' = steps
  BY <1>1, PlanStays
<1>3. Top \in Frames /\ out.status \in Status
  BY <1>1, AtWork DEF InterpretInv, ControlPart
<1>4. ControlPart'
  BY <1>1, <1>2, <1>3, StayControl, LeaveControl
<1> QED
  BY <1>1, <1>2, <1>4, NotedType, ArtifactsStay DEF InterpretInv

LEMMA GuardFailsType ==
    ASSUME InterpretInv, GuardFails
    PROVE  InterpretInv'
<1> DEFINE st == [status EXCEPT ![call.id] = out.status]
           bad == {s \in Body(Top.id) : st[s] = "blocked"}
           g == [Top EXCEPT !.kind = "FALLBACK"]
<1>1. /\ UNCHANGED <<walkVars, calls, artVars>> /\ phase = "return" /\ stack # <<>>
      /\ \/ status' = st /\ completed' = completed
         \/ /\ status' = [s \in Id |-> IF s \in bad THEN "skipped" ELSE st[s]]
            /\ completed' = completed \cup bad
      /\ \/ Leave("blocked", out.reason) \/ Leave("completed", None)
         \/ Leave("blocked", "error_fallback_missing")
         \/ /\ StepOf(Top.id).fallback \in Ids /\ stack' = Append(Under, g)
            /\ call' = [id |-> StepOf(Top.id).fallback, runner |-> BodyRunner(Top)]
            /\ phase' = "run" /\ out' = out
  BY DEF GuardFails, Got
<1>2. PlanPart' /\ steps' = steps /\ Ids \subseteq Id
  BY <1>1, PlanStays
<1>3. Top \in Frames /\ Under \in Seq(Frames) /\ call.id \in Ids /\ out.status \in Status
  BY <1>1, AtWork DEF InterpretInv, ControlPart
<1>4. st \in [Id -> Status]
  BY <1>2, <1>3 DEF InterpretInv, StatusPart
<1>5. bad \subseteq Id
  BY <1>2, BodyType
<1>6. g \in Frames /\ BodyRunner(Top) \in Runners
  BY <1>3, ChangedFrame
<1> HIDE DEF st, bad, g
<1>7. StatusPart'
  <2>1. [s \in Id |-> IF s \in bad THEN "skipped" ELSE st[s]] \in [Id -> Status]
    BY <1>4 DEF Status
  <2> QED
    BY <1>1, <1>4, <1>5, <2>1 DEF InterpretInv, StatusPart
<1>8. ControlPart'
  <2>1. CASE \/ Leave("blocked", out.reason) \/ Leave("completed", None)
             \/ Leave("blocked", "error_fallback_missing")
    BY <1>1, <1>2, <2>1, LeaveControl DEF Status
  <2>2. CASE /\ StepOf(Top.id).fallback \in Ids /\ stack' = Append(Under, g)
             /\ call' = [id |-> StepOf(Top.id).fallback, runner |-> BodyRunner(Top)]
             /\ phase' = "run" /\ out' = out
    <3>1. stack' \in Seq(Frames) /\ call'.id \in Ids /\ call'.runner \in Runners
      BY <1>3, <1>6, <2>2
    <3> QED
      BY <1>2, <2>2, <3>1, FramesStay DEF ControlPart, Runners
  <2> QED
    BY <1>1, <2>1, <2>2
<1> QED
  BY <1>1, <1>2, <1>7, <1>8, ArtifactsStay DEF InterpretInv

-------------------------------------------------------------------------------
(* The theorem *)

LEMMA InterpretStart == InterpretInit => InterpretInv
<1> SUFFICES ASSUME InterpretInit PROVE InterpretInv
  OBVIOUS
<1>1. IsFiniteSet(DOMAIN StepIn[first])
  BY PlanAssumption, StepAssumption DEF InterpretInit
<1>2. RoundLimit \in Nat /\ 0 \in 0 .. RoundLimit
  BY <1>1, FS_CardinalityType DEF RoundLimit
<1>3. PlanPart
  BY <1>2, PlanAssumption DEF InterpretInit, PlanPart
<1>4. StatusPart
  BY DEF InterpretInit, StatusPart, Status
<1>5. ArtifactPart
  BY DEF InterpretInit, ArtifactPart, Empty, Bundles, None
<1>6. ControlPart
  BY DEF InterpretInit, ControlPart
<1> QED
  BY <1>3, <1>4, <1>5, <1>6 DEF InterpretInv

LEMMA InterpretStep ==
    ASSUME InterpretInv, [InterpretNext]_interpretVars
    PROVE  InterpretInv'
<1>1. CASE UNCHANGED interpretVars
  <2>1. UNCHANGED walkVars /\ UNCHANGED stepVars /\ UNCHANGED artVars
        /\ UNCHANGED <<phase, call, out, stack>>
    BY <1>1 DEF interpretVars
  <2>2. PlanPart' /\ StatusPart' /\ ArtifactPart' /\ steps' = steps
    BY <2>1, PlanStays, StatusStays, ArtifactsStay
  <2>3. ControlPart'
    BY <2>1, <2>2, FramesStay DEF InterpretInv, ControlPart
  <2> QED
    BY <2>2, <2>3 DEF InterpretInv
<1>2. CASE InterpretNext
  BY <1>2, BeginRoundType, TurnType, TakeReadyType, RecordType, RunPlainType, RunCallType,
     RunAwaitType, RunMergeType, RunLoopType, RunServiceType, RunDecisionType, RunFanOutType,
     VisitType, VisitControlType, PassType, BranchPassType, LoopNotesType, BranchNotesType,
     GuardNotesType, GuardFailsType
  DEF InterpretNext, RunStep, Walk, Note
<1> QED
  BY <1>1, <1>2

\* Whatever the plans and their revisions, and however their constructs nest: the
\* state stays one of interpret_plan and its constructs.  What is run, walked or
\* returned is a step of the plan in force, a construct is at work whenever one is
\* walked, and none is left when a round begins, ends or takes its next step, so no
\* revision finds one.
THEOREM InterpretTypeCorrect == InterpretSpec => []InterpretTypeOK
<1>1. InterpretInv => InterpretTypeOK
  <2> SUFFICES ASSUME InterpretInv PROVE InterpretTypeOK
    OBVIOUS
  <2>1. /\ bundle.matches \in {None, "empty", "found"}
        /\ {bundle.compiled, bundle.url, bundle.some, answered} \subseteq BOOLEAN
    BY DEF InterpretInv, ArtifactPart, Bundles
  <2>2. phase \in {"run", "return"} => call.id \in Id /\ call.runner \in {"plain", "iterate"}
    BY StepAssumption DEF InterpretInv, ControlPart, PlanPart, Ids, Runners
  <2> QED
    BY <2>1, <2>2
    DEF InterpretInv, PlanPart, StatusPart, ArtifactPart, ControlPart, InterpretTypeOK
<1> QED
  BY <1>1, InterpretStart, InterpretStep, PTL DEF InterpretSpec

-------------------------------------------------------------------------------
(* What is left when nothing is ready *)

Outcomes == {"completed", "blocked", "skipped", "awaiting"}

\* The step of the ready list that is being interpreted.
Root == IF stack = <<>> THEN call.id ELSE stack[1].id

\* A step with status completed is one of completed_step_ids,
CompletedCounts == \A s \in Id : status[s] = "completed" => s \in completed

\* only the step taken from the ready list is active,
ActiveIsRoot ==
    \A s \in Id : status[s] = "active" =>
        phase = "raised" \/ (phase \in {"run", "walk", "return"} /\ s = Root)

\* and what is returned is an outcome.
ReturnsOutcome == phase = "return" => out.status \in Outcomes

LeftInv == CompletedCounts /\ ActiveIsRoot /\ ReturnsOutcome

\* What the moves leave to Root, and what they return.
MoveOk ==
    /\ Root' = Root /\ phase' \in {"run", "walk", "return"}
    /\ phase' = "return" => out'.status \in Outcomes

LEMMA AnswerMove ==
    ASSUME NEW st \in Outcomes, NEW reason, Answer(st, reason)
    PROVE  MoveOk
<1>1. call'.id = call.id /\ stack' = stack /\ phase' = "return" /\ out'.status = st
  BY DEF Answer, Return
<1> QED
  BY <1>1 DEF MoveOk, Root, Outcomes

LEMMA EnterMove ==
    ASSUME InterpretInv, NEW f \in Frames, f.id = call.id, Enter(f)
    PROVE  MoveOk
<1>1. stack \in Seq(Frames) /\ stack' = Append(stack, f) /\ phase' = "walk" /\ call' = call
  BY DEF Enter, InterpretInv, ControlPart
<1>2. stack' # <<>>
  BY <1>1
<1>3. CASE stack = <<>>
  <2>1. stack'[1] = f
    BY <1>1, <1>3
  <2> QED
    BY <1>1, <1>2, <1>3, <2>1 DEF MoveOk, Root
<1>4. CASE stack # <<>>
  <2>1. stack'[1] = stack[1]
    BY <1>1, <1>4
  <2> QED
    BY <1>1, <1>2, <1>4, <2>1 DEF MoveOk, Root
<1> QED
  BY <1>3, <1>4

\* What is under the top keeps the construct at the bottom.
LEMMA UnderKeeps ==
    ASSUME InterpretInv, stack # <<>>, Len(stack) # 1
    PROVE  Under # <<>> /\ Under[1] = stack[1]
<1>1. stack \in Seq(Frames)
  BY DEF InterpretInv, ControlPart
<1>2. Len(stack) \in Nat /\ Len(stack) # 0
  BY <1>1, EmptySeq
<1> DEFINE n == Len(stack) - 1
<1>3. n \in Nat \ {0} /\ n = Len(stack) - 1
  BY <1>2
<1> HIDE DEF n
<1>4. Len(Under) = n /\ Under[1] = stack[1]
  <2>1. Under = SubSeq(stack, 1, n)
    BY <1>3 DEF Under
  <2>2. \A i \in 1 .. n : stack[i] \in Frames
    BY <1>1, <1>2, <1>3
  <2>3. Len(SubSeq(stack, 1, n)) = n /\ SubSeq(stack, 1, n)[1] = stack[1]
    BY <1>3, <2>2, SubSeqProperties
  <2> QED
    BY <2>1, <2>3
<1>5. Under # <<>>
  BY <1>3, <1>4
<1> QED
  BY <1>4, <1>5

LEMMA LeaveMove ==
    ASSUME InterpretInv, stack # <<>>, NEW st \in Outcomes, NEW reason, Leave(st, reason)
    PROVE  MoveOk
<1>1. /\ stack \in Seq(Frames) /\ stack' = Under /\ phase' = "return"
      /\ call'.id = Top.id /\ out'.status = st
  BY DEF Leave, Return, InterpretInv, ControlPart
<1>2. Root' = Root
  <2>1. CASE Len(stack) = 1
    <3>1. stack' = <<>> /\ Top = stack[1]
      BY <1>1, <2>1 DEF Under, Top
    <3> QED
      BY <1>1, <3>1 DEF Root
  <2>2. CASE Len(stack) # 1
    <3>1. stack' # <<>> /\ stack'[1] = stack[1]
      BY <1>1, <2>2, UnderKeeps
    <3> QED
      BY <3>1 DEF Root
  <2> QED
    BY <2>1, <2>2
<1> QED
  BY <1>1, <1>2 DEF MoveOk, Outcomes

\* Staying, and going down to a step with the frame kept.
LEMMA KeptMove ==
    ASSUME InterpretInv, stack # <<>>, NEW f \in Frames, f.id = Top.id,
           stack' = Append(Under, f), phase' \in {"run", "walk"}
    PROVE  MoveOk
<1>1. stack \in Seq(Frames) /\ Under \in Seq(Frames)
  BY TopType DEF InterpretInv, ControlPart
<1>2. stack' # <<>>
  BY <1>1
<1>3. CASE Len(stack) = 1
  <2>1. Under = <<>> /\ Top = stack[1]
    BY <1>1, <1>3 DEF Under, Top
  <2>2. stack'[1] = f
    BY <2>1
  <2> QED
    BY <1>2, <2>1, <2>2 DEF MoveOk, Root
<1>4. CASE Len(stack) # 1
  <2>1. Under # <<>> /\ Under[1] = stack[1]
    BY <1>4, UnderKeeps
  <2>2. stack'[1] = Under[1]
    BY <1>1, <2>1
  <2> QED
    BY <1>2, <1>4, <2>1, <2>2 DEF MoveOk, Root
<1> QED
  BY <1>3, <1>4

\* Changes of a frame keep its step.
LEMMA SameStep ==
    ASSUME NEW f \in Frames
    PROVE  /\ \A s : Passed(f, s).id = f.id
           /\ [f EXCEPT !.left = {}].id = f.id
           /\ [f EXCEPT !.left = f.body, !.n = @ + 1, !.hurt = FALSE].id = f.id
           /\ [f EXCEPT !.moved = TRUE].id = f.id
           /\ [f EXCEPT !.kind = "FALLBACK"].id = f.id
           /\ \A h, g \in BOOLEAN : [f EXCEPT !.hurt = h, !.failed = g].id = f.id
           /\ \A g \in Bundles : [f EXCEPT !.gain = g].id = f.id
           /\ \A n \in Nat : [f EXCEPT !.n = n].id = f.id
           /\ \A heads \in SUBSET Ids : NextBranch(f, heads).id = f.id
           /\ \A body : [f EXCEPT !.left = body, !.moved = FALSE].id = f.id
BY DEF Frames, Passed, NextBranch

\* No step gets active, and none is completed without being counted.
StatusOk ==
    /\ \A s \in Id : status'[s] = "active" => status[s] = "active"
    /\ \A s \in Id : status'[s] = "completed" => s \in completed'

LEMMA LeftKept ==
    ASSUME LeftInv, MoveOk, StatusOk, phase \in {"run", "walk", "return"}
    PROVE  LeftInv'
<1>1. CompletedCounts'
  BY DEF StatusOk, CompletedCounts
<1>2. ActiveIsRoot'
  BY DEF StatusOk, MoveOk, ActiveIsRoot, LeftInv
<1>3. ReturnsOutcome'
  BY DEF MoveOk, ReturnsOutcome, Outcomes
<1> QED
  BY <1>1, <1>2, <1>3 DEF LeftInv

LEMMA SameStatus ==
    ASSUME LeftInv, UNCHANGED <<status, completed>>
    PROVE  StatusOk
BY DEF LeftInv, CompletedCounts, StatusOk

\* An outcome is noted, of an active step too.
LEMMA NotedStatus ==
    ASSUME InterpretInv, LeftInv, phase = "return", Noted(call.id)
    PROVE  StatusOk
<1>1. status \in [Id -> Status] /\ out.status \in Outcomes
  BY DEF InterpretInv, StatusPart, LeftInv, ReturnsOutcome
<1> QED
  BY <1>1 DEF Noted, StatusOk, LeftInv, CompletedCounts, Outcomes

LEMMA RunPlainLeft ==
    ASSUME InterpretInv, LeftInv, RunPlain
    PROVE  LeftInv'
<1>1. UNCHANGED <<status, completed>> /\ phase = "run"
  BY DEF RunPlain, stepVars
<1>2. \E st \in Outcomes, reason \in {None, "revision_loop_owns_recursion", "unknown_construct"} :
         Answer(st, reason)
  BY DEF RunPlain, Outcomes
<1> QED
  BY <1>1, <1>2, AnswerMove, SameStatus, LeftKept

LEMMA RunCallLeft ==
    ASSUME InterpretInv, LeftInv, RunCall
    PROVE  LeftInv'
<1>1. UNCHANGED <<status, completed>> /\ phase = "run"
  BY DEF RunCall, Running
<1>2. \E st \in Outcomes, reason \in {None, "no_handler", "duplicate_effect", "handler_failed", "not_ok"} :
         Answer(st, reason)
  <2>1. \/ Answer("blocked", "no_handler") \/ Answer("skipped", "duplicate_effect")
        \/ Answer("completed", None) \/ \E r \in {"handler_failed", "not_ok"} : Answer("blocked", r)
    BY DEF RunCall
  <2> QED
    BY <2>1 DEF Outcomes
<1> QED
  BY <1>1, <1>2, AnswerMove, SameStatus, LeftKept

LEMMA RunAwaitLeft ==
    ASSUME InterpretInv, LeftInv, RunAwait
    PROVE  LeftInv'
<1>1. UNCHANGED <<status, completed>> /\ phase = "run"
  BY DEF RunAwait, Running, stepVars
<1>2. \E st \in Outcomes, reason \in {None, "await_timeout"} : Answer(st, reason)
  BY DEF RunAwait, Outcomes
<1> QED
  BY <1>1, <1>2, AnswerMove, SameStatus, LeftKept

LEMMA RunMergeLeft ==
    ASSUME InterpretInv, LeftInv, RunMerge
    PROVE  LeftInv'
<1>1. UNCHANGED <<status, completed>> /\ phase = "run"
  BY DEF RunMerge, Running, stepVars
<1>2. Answer("completed", None) \/ phase' = "raised"
  BY DEF RunMerge
<1>3. CASE Answer("completed", None)
  BY <1>1, <1>3, AnswerMove, SameStatus, LeftKept DEF Outcomes
<1>4. CASE phase' = "raised"
  BY <1>1, <1>4 DEF LeftInv, CompletedCounts, ActiveIsRoot, ReturnsOutcome
<1> QED
  BY <1>2, <1>3, <1>4

LEMMA RunLoopLeft ==
    ASSUME InterpretInv, LeftInv, RunLoop
    PROVE  LeftInv'
<1> DEFINE f == Frame(StepOf(call.id).construct, Body(call.id))
<1>1. UNCHANGED <<status, completed>> /\ phase = "run"
  BY DEF RunLoop, stepVars
<1>2. f \in Frames /\ f.id = call.id
  BY <1>1, FrameType, BodyType DEF RunLoop, Kinds, Frame
<1>3. Answer("completed", None) \/ Enter(f)
  BY DEF RunLoop
<1> HIDE DEF f
<1>4. MoveOk
  BY <1>2, <1>3, AnswerMove, EnterMove DEF Outcomes
<1> QED
  BY <1>1, <1>4, SameStatus, LeftKept

LEMMA RunServiceLeft ==
    ASSUME InterpretInv, LeftInv, RunService
    PROVE  LeftInv'
<1> DEFINE f == Frame("SERVICE", Body(call.id))
           g == [f EXCEPT !.n = ticks[call.id] + 1]
<1>1. UNCHANGED <<status, completed>> /\ phase = "run"
  BY DEF RunService, Running, stepVars
<1>2. f \in Frames /\ f.id = call.id
  BY <1>1, FrameType, BodyType DEF Kinds, Frame
<1>3. ticks[call.id] + 1 \in Nat
  BY <1>1, StepAssumption DEF InterpretInv, ArtifactPart, ControlPart, PlanPart, Ids
<1>4. g \in Frames /\ g.id = call.id
  <2> HIDE DEF f
  <2> QED
    BY <1>2, <1>3, ChangedFrame, SameStep
<1>5. Answer("completed", None) \/ Enter(g)
  BY DEF RunService
<1> HIDE DEF g
<1>6. MoveOk
  BY <1>4, <1>5, AnswerMove, EnterMove DEF Outcomes
<1> QED
  BY <1>1, <1>6, SameStatus, LeftKept

LEMMA RunDecisionLeft ==
    ASSUME InterpretInv, LeftInv, RunDecision
    PROVE  LeftInv'
<1> DEFINE heads == Selected(call.id)
           gone == SkippedBy(Body(call.id) \ heads)
           f == Frame("DECISION", BranchSubtree(call.id, heads))
<1>1. phase = "run"
  BY DEF RunDecision, Running
<1>2. /\ status' = [x \in Id |-> IF x \in gone THEN "skipped" ELSE status[x]]
      /\ completed' = completed \cup gone
      /\ Answer("completed", None) \/ Enter(f)
  BY DEF RunDecision
<1>3. f \in Frames /\ f.id = call.id
  <2>1. BranchSubtree(call.id, heads) \in SUBSET Ids
    BY SelectedType DEF BranchSubtree
  <2> QED
    BY <1>1, <2>1, FrameType DEF Kinds, Frame
<1> HIDE DEF gone, f
<1>4. MoveOk
  BY <1>2, <1>3, AnswerMove, EnterMove DEF Outcomes
<1>5. StatusOk
  BY <1>2 DEF StatusOk, LeftInv, CompletedCounts
<1> QED
  BY <1>1, <1>4, <1>5, LeftKept

LEMMA RunFanOutLeft ==
    ASSUME InterpretInv, LeftInv, RunFanOut
    PROVE  LeftInv'
<1> DEFINE heads == Body(call.id)
           f == Frame(StepOf(call.id).construct, {})
<1>1. UNCHANGED <<status, completed>> /\ phase = "run"
  BY DEF RunFanOut, stepVars
<1>2. f \in Frames /\ f.id = call.id
  BY <1>1, FrameType DEF RunFanOut, Kinds, Frame
<1>3. Answer("completed", None) \/ (heads # {} /\ Enter(NextBranch(f, heads)))
  BY DEF RunFanOut
<1>4. heads # {} => NextBranch(f, heads) \in Frames /\ NextBranch(f, heads).id = call.id
  <2> HIDE DEF f
  <2> QED
    BY <1>2, NextBranchType, BodyType, SameStep
<1> HIDE DEF heads, f
<1>5. MoveOk
  BY <1>3, <1>4, AnswerMove, EnterMove DEF Outcomes
<1> QED
  BY <1>1, <1>5, SameStatus, LeftKept

-------------------------------------------------------------------------------
(* ... while a construct walks, *)

LEMMA VisitLeft ==
    ASSUME InterpretInv, LeftInv, Visit
    PROVE  LeftInv'
<1>1. phase = "walk" /\ stack # <<>> /\ Top \in Frames
  BY AtWork DEF Visit
<1>2. PICK s \in Ids : \E back \in {Rewound(Top, s)} :
        /\ status' = Reset(back) /\ completed' = Remaining(back)
        /\ \/ phase' = "run" /\ stack' = Append(Under, Passed(Top, s))
           \/ Stay(Passed(Top, s))
  BY DEF Visit
<1>3. Passed(Top, s) \in Frames /\ Passed(Top, s).id = Top.id
  BY <1>1, ChangedFrame, SameStep
<1>4. stack' = Append(Under, Passed(Top, s)) /\ phase' \in {"run", "walk"}
  BY <1>2 DEF Stay
<1>5. MoveOk
  BY <1>1, <1>3, <1>4, KeptMove
<1>6. StatusOk
  BY <1>2 DEF StatusOk, Reset, Remaining, LeftInv, CompletedCounts
<1> QED
  BY <1>1, <1>5, <1>6, LeftKept

LEMMA StayMove ==
    ASSUME InterpretInv, stack # <<>>, NEW f \in Frames, f.id = Top.id, Stay(f)
    PROVE  MoveOk
BY KeptMove DEF Stay

LEMMA VisitControlLeft ==
    ASSUME InterpretInv, LeftInv, VisitControl
    PROVE  LeftInv'
<1>1. phase = "walk" /\ stack # <<>> /\ Top \in Frames
  BY AtWork DEF VisitControl
<1>2. PICK s \in Ids : \E hit \in {LoopControl(StepOf(s).on, Top)} :
        /\ status' = [status EXCEPT ![s] = IF hit THEN "completed" ELSE "skipped"]
        /\ completed' = completed \cup {s}
        /\ \/ IterateOutcome(Top)
           \/ Stay(IF hit THEN [Top EXCEPT !.left = {}] ELSE Passed(Top, s))
  BY DEF VisitControl
<1> DEFINE ended == [Top EXCEPT !.left = {}]
           passed == Passed(Top, s)
<1>3. /\ ended \in Frames /\ passed \in Frames
      /\ ended.id = Top.id /\ passed.id = Top.id
  BY <1>1, ChangedFrame, SameStep
<1>4. \/ Leave("blocked", "iterate_body_blocked") \/ Leave("completed", None)
      \/ Stay(ended) \/ Stay(passed)
  <2> HIDE DEF ended, passed
  <2>1. PICK hit \in {LoopControl(StepOf(s).on, Top)} :
          IterateOutcome(Top) \/ Stay(IF hit THEN ended ELSE passed)
    BY <1>2 DEF ended, passed
  <2>2. (IF hit THEN ended ELSE passed) = ended \/ (IF hit THEN ended ELSE passed) = passed
    OBVIOUS
  <2> QED
    BY <2>1, <2>2 DEF IterateOutcome
<1> HIDE DEF ended, passed
<1>5. MoveOk
  BY <1>1, <1>3, <1>4, StayMove, LeaveMove DEF Outcomes
<1>6. StatusOk
  <2>1. status \in [Id -> Status]
    BY DEF InterpretInv, StatusPart
  <2>2. PICK v \in {"completed", "skipped"} : status' = [status EXCEPT ![s] = v]
    BY <1>2
  <2> QED
    BY <1>2, <2>1, <2>2 DEF StatusOk, LeftInv, CompletedCounts
<1> QED
  BY <1>1, <1>5, <1>6, LeftKept

LEMMA PassLeft ==
    ASSUME InterpretInv, LeftInv, IteratePass \/ RetryPass \/ QueuePass \/ SinglePass
    PROVE  LeftInv'
<1>1. UNCHANGED <<status, completed>> /\ phase = "walk"
  BY DEF IteratePass, RetryPass, QueuePass, SinglePass, PassDone, stepVars
<1>2. stack # <<>> /\ Top \in Frames
  BY <1>1, AtWork
<1> DEFINE again == [Top EXCEPT !.left = Top.body, !.n = @ + 1, !.hurt = FALSE]
<1>3. \/ Stay(again)
      \/ \E st \in Outcomes, reason \in {None, "iterate_body_blocked", "retry_exhausted",
                                          "queue_turn_blocked", "service_tick_blocked"} :
           Leave(st, reason)
  BY DEF IteratePass, RetryPass, QueuePass, SinglePass, Again, IterateOutcome, Outcomes
<1>4. again \in Frames /\ again.id = Top.id
  BY <1>2, ChangedFrame, SameStep
<1> HIDE DEF again
<1>5. MoveOk
  BY <1>2, <1>3, <1>4, StayMove, LeaveMove
<1> QED
  BY <1>1, <1>5, SameStatus, LeftKept

LEMMA BranchPassLeft ==
    ASSUME InterpretInv, LeftInv, BranchPass
    PROVE  LeftInv'
<1> DEFINE f == [Top EXCEPT !.gain = IF Isolated(Top) THEN Joined(@, bundle) ELSE @]
           again == [Top EXCEPT !.left = f.body, !.moved = FALSE]
<1>1. UNCHANGED <<status, completed>> /\ phase = "walk"
  BY DEF BranchPass, PassDone, stepVars
<1>2. stack # <<>> /\ Top \in Frames
  BY <1>1, AtWork
<1>3. \/ Stay(again) \/ Leave("completed", None)
      \/ f.rest # {} /\ Stay(NextBranch(f, f.rest))
  BY DEF BranchPass
<1>4. f \in Frames /\ f.id = Top.id
  <2>1. Joined(Top.gain, bundle) \in Bundles /\ Top.gain \in Bundles
    BY <1>2, ChangedFrame, JoinedType DEF InterpretInv, ArtifactPart
  <2> DEFINE gained == IF Isolated(Top) THEN Joined(Top.gain, bundle) ELSE Top.gain
  <2>2. gained \in Bundles
    BY <2>1
  <2>3. f = [Top EXCEPT !.gain = gained]
    OBVIOUS
  <2> HIDE DEF gained, f
  <2> QED
    BY <1>2, <2>2, <2>3, ChangedFrame, SameStep
<1>5. again \in Frames /\ again.id = Top.id
  <2>1. f.body = Top.body
    BY <1>2 DEF Frames
  <2> HIDE DEF f
  <2> QED
    BY <1>2, <2>1, ChangedFrame, SameStep
<1> HIDE DEF f, again
<1>6. f.rest # {} => NextBranch(f, f.rest) \in Frames /\ NextBranch(f, f.rest).id = Top.id
  BY <1>4, ChangedFrame, NextBranchType, SameStep
<1>7. MoveOk
  BY <1>2, <1>3, <1>5, <1>6, StayMove, LeaveMove DEF Outcomes
<1> QED
  BY <1>1, <1>7, SameStatus, LeftKept

-------------------------------------------------------------------------------
(* ... notes an outcome, *)

LEMMA LoopNotesLeft ==
    ASSUME InterpretInv, LeftInv, LoopNotes
    PROVE  LeftInv'
<1> DEFINE g == [Top EXCEPT !.hurt = @ \/ Failed, !.failed = @ \/ Failed]
           hurt == Top.hurt \/ Failed
           failed == Top.failed \/ Failed
<1>1. phase = "return" /\ stack # <<>> /\ Noted(call.id) /\ Stay(g)
  BY DEF LoopNotes, Got
<1>2. g \in Frames /\ g.id = Top.id
  <2>1. hurt \in BOOLEAN /\ failed \in BOOLEAN
    OBVIOUS
  <2>2. g = [Top EXCEPT !.hurt = hurt, !.failed = failed]
    OBVIOUS
  <2>3. Top \in Frames
    BY <1>1, AtWork
  <2> HIDE DEF g, hurt, failed
  <2> QED
    BY <2>1, <2>2, <2>3, ChangedFrame, SameStep
<1> HIDE DEF g
<1>3. MoveOk
  BY <1>1, <1>2, StayMove
<1> QED
  BY <1>1, <1>3, NotedStatus, LeftKept

LEMMA BranchNotesLeft ==
    ASSUME InterpretInv, LeftInv, BranchNotes
    PROVE  LeftInv'
<1> DEFINE g == [Top EXCEPT !.moved = TRUE]
<1>1. /\ phase = "return" /\ stack # <<>> /\ Noted(call.id)
      /\ Leave("blocked", out.reason) \/ Stay(g)
  BY DEF BranchNotes, Got
<1>2. g \in Frames /\ g.id = Top.id
  BY <1>1, AtWork, ChangedFrame, SameStep
<1> HIDE DEF g
<1>3. MoveOk
  BY <1>1, <1>2, StayMove, LeaveMove DEF Outcomes
<1> QED
  BY <1>1, <1>3, NotedStatus, LeftKept

LEMMA GuardNotesLeft ==
    ASSUME InterpretInv, LeftInv, GuardNotes \/ FallbackNotes
    PROVE  LeftInv'
<1>1. /\ phase = "return" /\ stack # <<>> /\ Noted(call.id)
      /\ Stay(Top) \/ Leave(out.status, out.reason)
  BY DEF GuardNotes, FallbackNotes, Got
<1>2. Top \in Frames /\ out.status \in Outcomes
  BY <1>1, AtWork DEF LeftInv, ReturnsOutcome
<1>3. MoveOk
  BY <1>1, <1>2, StayMove, LeaveMove
<1> QED
  BY <1>1, <1>3, NotedStatus, LeftKept

LEMMA GuardFailsLeft ==
    ASSUME InterpretInv, LeftInv, GuardFails
    PROVE  LeftInv'
<1> DEFINE st == [status EXCEPT ![call.id] = out.status]
           bad == {s \in Body(Top.id) : st[s] = "blocked"}
           g == [Top EXCEPT !.kind = "FALLBACK"]
<1>1. /\ phase = "return" /\ stack # <<>> /\ out.status = "blocked"
      /\ \/ status' = st /\ completed' = completed
         \/ /\ status' = [s \in Id |-> IF s \in bad THEN "skipped" ELSE st[s]]
            /\ completed' = completed \cup bad
      /\ \/ Leave("blocked", out.reason) \/ Leave("completed", None)
         \/ Leave("blocked", "error_fallback_missing")
         \/ stack' = Append(Under, g) /\ phase' = "run"
  BY DEF GuardFails, Got, Failed
<1>2. g \in Frames /\ g.id = Top.id
  BY <1>1, AtWork, ChangedFrame, SameStep
<1>3. \A s \in Id : st[s] = "blocked" \/ st[s] = status[s]
  BY <1>1 DEF InterpretInv, StatusPart
<1> HIDE DEF st, bad, g
<1>4. MoveOk
  BY <1>1, <1>2, KeptMove, LeaveMove DEF Outcomes
<1>5. StatusOk
  BY <1>1, <1>3 DEF StatusOk, LeftInv, CompletedCounts
<1> QED
  BY <1>1, <1>4, <1>5, LeftKept

-------------------------------------------------------------------------------
(* ... and between the steps of a round. *)

LEMMA BeginRoundLeft ==
    ASSUME InterpretInv, LeftInv, BeginRound
    PROVE  LeftInv'
<1>1. PICK T \in SUBSET Timers :
        /\ status' = Resumed(T)
        /\ completed' = completed \cup {s \in Ids : status[s] # Resumed(T)[s] /\ Resumed(T)[s] = "completed"}
  BY DEF BeginRound
<1>2. phase = "round" /\ phase' \in {"ended", "batch"}
  BY DEF BeginRound
<1>3. \A s \in Id : Resumed(T)[s] = status[s] \/ (s \in Ids /\ Resumed(T)[s] \in {"completed", "blocked"})
  BY DEF Resumed
<1> DEFINE st == Resumed(T)
<1> HIDE DEF st
<1>4. CompletedCounts'
  BY <1>1, <1>3 DEF st, LeftInv, CompletedCounts
<1>5. \A s \in Id : status'[s] # "active"
  BY <1>1, <1>2, <1>3 DEF LeftInv, ActiveIsRoot
<1> QED
  BY <1>2, <1>4, <1>5 DEF LeftInv, ActiveIsRoot, ReturnsOutcome

LEMMA TurnLeft ==
    ASSUME InterpretInv, LeftInv, LastRound \/ BatchDone
    PROVE  LeftInv'
<1>1. /\ UNCHANGED <<status, completed>> /\ phase \in {"round", "batch"}
      /\ phase' \in {"ended", "round"}
  BY DEF LastRound, BatchDone, stepVars
<1> QED
  BY <1>1 DEF LeftInv, CompletedCounts, ActiveIsRoot, ReturnsOutcome

LEMMA TakeReadyLeft ==
    ASSUME InterpretInv, LeftInv, TakeReady
    PROVE  LeftInv'
<1>1. phase = "batch" /\ UNCHANGED <<completed, stack>>
  BY DEF TakeReady
<1>2. \A x \in Id : status[x] # "active"
  BY <1>1 DEF LeftInv, ActiveIsRoot
<1>3. CASE UNCHANGED <<status, call, phase>>
  BY <1>1, <1>2, <1>3 DEF LeftInv, CompletedCounts, ActiveIsRoot, ReturnsOutcome
<1>4. CASE \E s \in ready : /\ status' = [status EXCEPT ![s] = "active"]
                            /\ call' = [id |-> s, runner |-> "plain"] /\ phase' = "run"
  <2>1. PICK s \in ready : /\ status' = [status EXCEPT ![s] = "active"]
                           /\ call' = [id |-> s, runner |-> "plain"] /\ phase' = "run"
    BY <1>4
  <2>2. status \in [Id -> Status]
    BY DEF InterpretInv, StatusPart
  <2>3. \A x \in Id : status'[x] = status[x] \/ (x = s /\ status'[x] = "active")
    BY <2>1, <2>2
  <2>4. Root' = s
    <3>1. stack' = <<>> /\ call'.id = s
      BY <1>1, <2>1 DEF InterpretInv, ControlPart
    <3> QED
      BY <3>1 DEF Root
  <2>5. CompletedCounts'
    BY <1>1, <2>3 DEF LeftInv, CompletedCounts
  <2>6. ActiveIsRoot'
    BY <1>2, <2>1, <2>3, <2>4 DEF ActiveIsRoot
  <2> QED
    BY <2>1, <2>5, <2>6 DEF LeftInv, ReturnsOutcome
<1> QED
  BY <1>3, <1>4 DEF TakeReady

LEMMA RecordLeft ==
    ASSUME InterpretInv, LeftInv, Record
    PROVE  LeftInv'
<1> DEFINE st == [status EXCEPT ![call.id] = out.status]
           got == completed \cup (IF out.status = "completed" THEN {call.id} ELSE {})
<1>1. /\ phase = "return" /\ stack = <<>> /\ completed' = got /\ phase' = "batch"
      /\ status' = st \/ \E q \in PlanName : status' = Swapped(q, st, got)
  BY PlanAssumption DEF Record, InterpretInv, PlanPart
<1>2. out.status \in Outcomes /\ status \in [Id -> Status]
  BY <1>1 DEF LeftInv, ReturnsOutcome, InterpretInv, StatusPart
<1>3. Root = call.id
  BY <1>1 DEF Root
<1>4. \A s \in Id : st[s] # "active" /\ (st[s] = "completed" => s \in got)
  <2>1. ASSUME NEW s \in Id, s = call.id
        PROVE  st[s] # "active" /\ (st[s] = "completed" => s \in got)
    BY <1>2, <2>1 DEF Outcomes
  <2>2. ASSUME NEW s \in Id, s # call.id
        PROVE  st[s] # "active" /\ (st[s] = "completed" => s \in got)
    <3>1. st[s] = status[s]
      BY <1>2, <2>2
    <3> QED
      BY <1>1, <1>3, <2>2, <3>1 DEF LeftInv, CompletedCounts, ActiveIsRoot
  <2> QED
    BY <2>1, <2>2
<1> HIDE DEF st, got
<1>5. \A s \in Id : status'[s] # "active" /\ (status'[s] = "completed" => s \in got)
  <2>1. ASSUME NEW q \in PlanName, NEW s \in Id
        PROVE  /\ Swapped(q, st, got)[s] # "active"
               /\ Swapped(q, st, got)[s] = "completed" => s \in got
    BY <1>4 DEF Swapped
  <2> QED
    BY <1>1, <1>4, <2>1
<1> QED
  BY <1>1, <1>5 DEF LeftInv, CompletedCounts, ActiveIsRoot, ReturnsOutcome

LEMMA LeftStart == InterpretInit => LeftInv
BY DEF InterpretInit, LeftInv, CompletedCounts, ActiveIsRoot, ReturnsOutcome

LEMMA LeftStep ==
    ASSUME InterpretInv, LeftInv, [InterpretNext]_interpretVars
    PROVE  LeftInv'
<1>1. CASE UNCHANGED interpretVars
  BY <1>1 DEF interpretVars, stepVars, LeftInv, CompletedCounts, ActiveIsRoot, ReturnsOutcome, Root
<1>2. CASE InterpretNext
  BY <1>2, BeginRoundLeft, TurnLeft, TakeReadyLeft, RecordLeft, RunPlainLeft, RunCallLeft,
     RunAwaitLeft, RunMergeLeft, RunLoopLeft, RunServiceLeft, RunDecisionLeft, RunFanOutLeft,
     VisitLeft, VisitControlLeft, PassLeft, BranchPassLeft, LoopNotesLeft, BranchNotesLeft,
     GuardNotesLeft, GuardFailsLeft
  DEF InterpretNext, RunStep, Walk, Note
<1> QED
  BY <1>1, <1>2

-------------------------------------------------------------------------------
\* The steps of a plan can be numbered so that each comes after what it depends on.
NoCycles ==
    \A p \in PlanName : \E rank \in [DOMAIN StepIn[p] -> Nat] :
        \A s \in DOMAIN StepIn[p] : \A d \in StepIn[p][s].deps : rank[d] < rank[s]

\* Whoever waits for a barren step, or for one behind it, is behind it.
LEMMA Behind ==
    ASSUME PlanPart, NEW s \in Ids, NEW d \in DependsOn(s), NEW r \in Ids, s # r,
           d = r \/ d \in TransitiveDependents(r)
    PROVE  s \in TransitiveDependents(r)
<1> DEFINE rest == Ids \ {r}
<1>1. s \in rest
  OBVIOUS
<1>2. ASSUME NEW C \in SUBSET rest,
             \A x \in rest \ C : DependsOn(x) \cap (C \cup {r}) = {}
      PROVE  s \in C
  <2>1. d = r \/ d \in C
    BY <1>2 DEF TransitiveDependents
  <2> QED
    BY <1>1, <1>2, <2>1
<1> QED
  BY <1>1, <1>2 DEF TransitiveDependents

\* When nothing is ready, what is left lies behind a barren step.
LEMMA LeftIsBehind ==
    ASSUME NoCycles, InterpretInv, LeftInv, Ok, ReadySteps(status, completed) = {}
    PROVE  {s \in Ids : status[s] \in {"pending", "active"}} \subseteq BehindBarren
<1>1. plan \in PlanName /\ steps = StepIn[plan] /\ Ids = DOMAIN StepIn[plan] /\ Ids \subseteq Id
  BY StepAssumption DEF InterpretInv, PlanPart, Ids
<1>2. PICK rank \in [Ids -> Nat] : \A s \in Ids : \A d \in DependsOn(s) : rank[d] < rank[s]
  BY <1>1 DEF NoCycles, DependsOn, StepOf
<1>3. \A s \in Ids : DependsOn(s) \subseteq Ids
  BY <1>1, StepAssumption DEF DependsOn, StepOf
<1>4. \A s \in Ids : status[s] \in {"pending", "completed", "skipped"}
  BY <1>1 DEF Ok, InterpretInv, StatusPart, Status, LeftInv, ActiveIsRoot
<1> DEFINE lost == {s \in Ids : status[s] = "pending" /\ s \notin BehindBarren}
           ranks == {rank[s] : s \in lost}
<1>5. SUFFICES ASSUME lost # {} PROVE FALSE
  BY <1>4
<1>6. ranks \subseteq Nat /\ ranks # {}
  BY <1>2, <1>5
<1>7. PICK m \in ranks : \A n \in ranks : m <= n
  <2> HIDE DEF ranks
  <2> QED
    BY <1>6, LeastExists
<1>8. PICK s \in lost : rank[s] = m
  OBVIOUS
<1>9. s \in Ids /\ status[s] = "pending" /\ s \notin BehindBarren
  BY <1>8
<1>10. PICK d \in DependsOn(s) : d \notin completed
  BY <1>9 DEF ReadySteps, Owned
<1>11. d \in Ids /\ rank[d] < rank[s] /\ d # s
  BY <1>2, <1>3, <1>9
<1>12. d \notin lost
  <2> SUFFICES ASSUME d \in lost PROVE FALSE
    OBVIOUS
  <2>1. rank[d] \in ranks
    OBVIOUS
  <2>2. m <= rank[d]
    BY <1>7, <2>1
  <2> QED
    BY <1>2, <1>8, <1>9, <1>11, <2>2
<1>13. CASE status[d] = "completed"
  BY <1>1, <1>10, <1>11, <1>13 DEF LeftInv, CompletedCounts
<1>14. CASE status[d] = "skipped"
  <2>1. d \in Barren
    BY <1>10, <1>11, <1>14 DEF Barren
  <2>2. s \in TransitiveDependents(d)
    BY <1>9, <1>11, Behind DEF InterpretInv
  <2> QED
    BY <1>9, <2>1, <2>2 DEF BehindBarren
<1>15. CASE status[d] = "pending"
  <2>1. PICK r \in Barren : d \in TransitiveDependents(r)
    BY <1>11, <1>12, <1>15 DEF BehindBarren
  <2>2. r \in Ids /\ s # r
    BY <1>9, <2>1 DEF Barren
  <2>3. s \in TransitiveDependents(r)
    BY <1>9, <2>1, <2>2, Behind DEF InterpretInv
  <2> QED
    BY <1>9, <2>1, <2>3 DEF BehindBarren
<1> QED
  BY <1>4, <1>11, <1>13, <1>14, <1>15

\* Of plans without cycles, whatever their constructs and revisions: an interpretation
\* that ends because no step is ready and is reported ok leaves no step that could have
\* run.  What is still pending lies behind a skipped step that counts as not done: no
\* status falls out of completed_step_ids, and no step stays active when its construct
\* returns.  (The other end, by the limit on rounds, is for the model checker.)
THEOREM NothingReadyNothingLeft ==
    NoCycles /\ InterpretSpec => [](ReadySteps(status, completed) = {} => OkMeansNothingLeft)
<1> SUFFICES ASSUME NoCycles
             PROVE  InterpretSpec => [](ReadySteps(status, completed) = {} => OkMeansNothingLeft)
  OBVIOUS
<1>1. InterpretInv /\ LeftInv => (ReadySteps(status, completed) = {} => OkMeansNothingLeft)
  BY LeftIsBehind DEF OkMeansNothingLeft
<1> QED
  BY <1>1, InterpretStart, InterpretStep, LeftStart, LeftStep, PTL DEF InterpretSpec

(***************************************************************************)
(* The threads of one PARALLEL step: ParallelBranches                      *)
(***************************************************************************)
\* A branch in a call has a call left to do.
CallsLeft == \A b \in Branch : branchPc[b] \in {"swap", "inner", "call"} => done[b] < NumCalls

\* What the outcome of a branch says about its calls, and the verdict about the
\* outcomes.
OutcomeInv ==
    /\ \A b \in Branch : outcome[b] = "completed" => done[b] = NumCalls /\ BranchAt(b, "over")
    /\ main # "join" => \A b \in Branch : BranchAt(b, "over")
    /\ verdict = "completed" => \A b \in Branch : outcome[b] = "completed"
    /\ main = "merged" => verdict = "completed"

\* The results of the first n calls of branch b.
ResultsOf(b, n) == {<<b, i>> : i \in 1 .. n}

\* In shared state the holder of the lock is the one in a call, and all results
\* are in the bundle of the plan.
SharedInv ==
    /\ current = PlanScope
    /\ \A b \in Branch : branchPc[b] # "swap"
    /\ \A b \in Branch : InCall(b) => lock = b
    /\ \A b \in Branch : ResultsOf(b, done[b]) \subseteq bundles[PlanScope]

\* In isolated state, until two calls overlap: one branch is in a call, between
\* calls the field points at the plan, and the results are where they belong.
SerialInv ==
    /\ \A b, c \in Branch : InCall(b) /\ InCall(c) => b = c
    /\ (\A b \in Branch : ~InCall(b)) => current = PlanScope
    /\ \A b \in Branch : InCall(b) => saved[b] = PlanScope
    /\ \A b \in Branch : branchPc[b] \in {"call", "leave"} => current = b
    /\ \A b \in Branch : branchPc[b] = "swap" => current = PlanScope
    /\ \A b \in Branch : \A r \in bundles[b] : r[1] = b
    /\ \A b \in Branch : ResultsOf(b, done[b]) \subseteq bundles[b]
    /\ \A b \in Branch : outcome[b] = "completed" => bundles[b] \subseteq payload[b]
    /\ main = "merged" => \A b \in Branch : payload[b] \subseteq bundles[PlanScope]

ParallelTypeInv == ParallelTypeOK /\ CallsLeft /\ OutcomeInv

USE DEF Scope, Result, BranchAt, BranchGoto, InCall, threadVars

-------------------------------------------------------------------------------

\* The initial state has the types.
LEMMA ParallelTypeInit == ParallelInit => ParallelTypeInv
  <1> SUFFICES ASSUME ParallelInit PROVE ParallelTypeInv
    OBVIOUS
  <1>1. ParallelTypeOK
    <2>1. /\ current \in Scope /\ lock \in Branch \cup {Nobody}
          /\ bundles \in [Scope -> SUBSET Result]
          /\ saved \in [Branch -> Scope]
          /\ payload \in [Branch -> SUBSET Result]
      BY DEF ParallelInit
    <2>2. done \in [Branch -> 0 .. NumCalls]
      BY ParallelAssumption DEF ParallelInit
    <2>3. /\ branchPc \in [Branch -> {"ready", "swap", "inner", "call", "leave", "over"}]
          /\ outcome \in [Branch -> {"none", "completed", "blocked", "crashed"}]
      BY DEF ParallelInit
    <2>4. /\ main \in {"join", "walk", "merged", "raised", "over"}
          /\ verdict \in {"none", "completed", "blocked"}
      BY DEF ParallelInit
    <2>5. overlap \in BOOLEAN
      BY DEF ParallelInit
    <2>6. state \in {"isolated", "shared"}
      BY DEF ParallelInit
    <2>7. QED
      BY <2>1, <2>2, <2>3, <2>4, <2>5, <2>6 DEF ParallelTypeOK
  <1>2. CallsLeft /\ OutcomeInv
    BY DEF ParallelInit, CallsLeft, OutcomeInv
  <1>3. QED
    BY <1>1, <1>2 DEF ParallelTypeInv

\* Each step keeps the types, and what outcomes and verdicts stand for.
LEMMA ParallelTypeStep == ParallelTypeInv /\ [ParallelNext]_parallelVars => ParallelTypeInv'
  <1> SUFFICES ASSUME ParallelTypeInv, [ParallelNext]_parallelVars PROVE ParallelTypeInv'
    OBVIOUS
  <1> USE ParallelAssumption DEF ParallelTypeInv, ParallelTypeOK, CallsLeft
  <1>1. ASSUME NEW b \in Branch, SaveArtifacts(b) PROVE ParallelTypeInv'
    BY <1>1 DEF SaveArtifacts, OutcomeInv
  <1>2. ASSUME NEW b \in Branch, Swap(b) PROVE ParallelTypeInv'
    BY <1>2 DEF Swap, OutcomeInv
  <1>3. ASSUME NEW b \in Branch, Acquire(b) PROVE ParallelTypeInv'
    BY <1>3 DEF Acquire, WantsLock, OutcomeInv
  <1>4. ASSUME NEW b \in Branch, RecordResult(b) PROVE ParallelTypeInv'
    <2>1. done[b] + 1 \in 1 .. NumCalls
      BY <1>4 DEF RecordResult
    <2>2. ParallelTypeOK' /\ CallsLeft'
      BY <1>4, <2>1 DEF RecordResult
    <2>3. OutcomeInv'
      BY <1>4 DEF RecordResult, OutcomeInv
    <2>4. QED
      BY <2>2, <2>3
  <1>5. ASSUME NEW b \in Branch, Fail(b) PROVE ParallelTypeInv'
    BY <1>5 DEF Fail, OutcomeInv
  <1>6. ASSUME NEW b \in Branch, LeaveCall(b) PROVE ParallelTypeInv'
    BY <1>6 DEF LeaveCall, AfterCall, OutcomeInv
  <1>7. ASSUME NEW b \in Branch, Complete(b) PROVE ParallelTypeInv'
    BY <1>7 DEF Complete, OutcomeInv
  <1>8. CASE Join
    BY <1>8 DEF Join, Verdict, OutcomeInv
  <1>9. CASE Merge
    <2>1. UNION {payload[b] : b \in Branch} \subseteq Result
      OBVIOUS
    <2>2. ParallelTypeOK' /\ CallsLeft'
      BY <1>9, <2>1 DEF Merge
    <2>3. OutcomeInv'
      BY <1>9 DEF Merge, OutcomeInv
    <2>4. QED
      BY <2>2, <2>3
  <1>10. CASE ReturnUnmerged
    BY <1>10 DEF ReturnUnmerged, OutcomeInv
  <1>11. CASE UNCHANGED parallelVars
    BY <1>11 DEF parallelVars, OutcomeInv
  <1>12. QED
    BY <1>1, <1>2, <1>3, <1>4, <1>5, <1>6, <1>7, <1>8, <1>9, <1>10, <1>11
    DEF ParallelNext, BranchNext

\* TypeInv holds of every state.
LEMMA ParallelTypeHolds == ParallelSpec => []ParallelTypeInv
  BY ParallelTypeInit, ParallelTypeStep, PTL DEF ParallelSpec

\* TypeOK holds of every state of the threads and the interpreter.
THEOREM ParallelTypeCorrect == ParallelSpec => []ParallelTypeOK
  <1>1. ParallelTypeInv => ParallelTypeOK
    BY DEF ParallelTypeInv
  <1>2. QED
    BY <1>1, ParallelTypeHolds, PTL

\* No step changes the kind of branches.
LEMMA StateStays == [ParallelNext]_parallelVars => state' = state
  BY DEF ParallelNext, BranchNext, SaveArtifacts, Swap, Acquire, RecordResult, Fail, LeaveCall, Complete,
     Join, Merge, ReturnUnmerged, parallelVars

\* One more result.
LEMMA ResultsGrow ==
  ASSUME NEW b, NEW n \in Nat
  PROVE  ResultsOf(b, n + 1) = ResultsOf(b, n) \cup {<<b, n + 1>>}
  BY DEF ResultsOf

-------------------------------------------------------------------------------
(* Shared branches *)

\* The initial state has a free lock and no results yet.
LEMMA SharedInit == ParallelInit => SharedInv
  BY ParallelAssumption DEF ParallelInit, SharedInv, ResultsOf

\* Each step of shared branches keeps the lock with the branch in a call, and
\* the results in the bundle of the plan.
LEMMA SharedStep ==
  ASSUME state = "shared", ParallelTypeInv, SharedInv, [ParallelNext]_parallelVars
  PROVE  SharedInv'
  <1> USE ParallelAssumption DEF ParallelTypeInv, ParallelTypeOK, SharedInv
  <1>1. ASSUME NEW b \in Branch, SaveArtifacts(b) \/ Swap(b) PROVE SharedInv'
    BY <1>1 DEF SaveArtifacts, Swap
  <1>2. ASSUME NEW b \in Branch, Acquire(b) PROVE SharedInv'
    BY <1>2 DEF Acquire, WantsLock
  <1>3. ASSUME NEW b \in Branch, RecordResult(b) PROVE SharedInv'
    <2>1. ResultsOf(b, done[b] + 1) = ResultsOf(b, done[b]) \cup {<<b, done[b] + 1>>}
      BY ResultsGrow
    <2>2. bundles'[PlanScope] = bundles[PlanScope] \cup {<<b, done[b] + 1>>}
      BY <1>3 DEF RecordResult
    <2>3. QED
      BY <1>3, <2>1, <2>2 DEF RecordResult
  <1>4. ASSUME NEW b \in Branch, Fail(b) PROVE SharedInv'
    BY <1>4 DEF Fail
  <1>5. ASSUME NEW b \in Branch, LeaveCall(b) PROVE SharedInv'
    BY <1>5 DEF LeaveCall, AfterCall
  <1>6. ASSUME NEW b \in Branch, Complete(b) PROVE SharedInv'
    BY <1>6 DEF Complete
  <1>7. CASE Join \/ ReturnUnmerged \/ UNCHANGED parallelVars
    BY <1>7 DEF Join, ReturnUnmerged, parallelVars
  <1>8. CASE Merge
    BY <1>8 DEF Merge
  <1>9. QED
    BY <1>1, <1>2, <1>3, <1>4, <1>5, <1>6, <1>7, <1>8 DEF ParallelNext, BranchNext

\* SharedInv holds of every state when the branches are shared.
LEMMA SharedHolds == ParallelSpec => [](state = "shared" => SharedInv)
  <1>1. ParallelInit => (state = "shared" => SharedInv)
    BY SharedInit
  <1>2. ParallelTypeInv /\ (state = "shared" => SharedInv) /\ [ParallelNext]_parallelVars
            => (state = "shared" => SharedInv)'
    BY SharedStep, StateStays
  <1>3. QED
    BY <1>1, <1>2, ParallelTypeHolds, PTL DEF ParallelSpec

\* The lock makes the calls of shared branches serial, whatever fails.
THEOREM SharedCallsAreSerial == ParallelSpec => []CallsAreSerial
  <1>1. (state = "shared" => SharedInv) => CallsAreSerial
    BY DEF SharedInv, CallsAreSerial
  <1>2. QED
    BY <1>1, SharedHolds, PTL

\* A MERGE of shared branches that gets through finds the result of every call.
THEOREM SharedBranchesJoin == ParallelSpec => []JoinedAtMerge
  <1>1. ParallelTypeInv /\ (state = "shared" => SharedInv) => JoinedAtMerge
    <2> SUFFICES ASSUME ParallelTypeInv, SharedInv, main = "merged", NEW b \in Branch,
                        NEW i \in 1 .. NumCalls
                 PROVE  <<b, i>> \in bundles[PlanScope]
      BY DEF JoinedAtMerge
    <2>1. done[b] = NumCalls
      BY DEF ParallelTypeInv, OutcomeInv
    <2>2. <<b, i>> \in ResultsOf(b, done[b])
      BY <2>1 DEF ResultsOf
    <2>3. QED
      BY <2>2 DEF SharedInv
  <1>2. QED
    BY <1>1, SharedHolds, ParallelTypeHolds, PTL

-------------------------------------------------------------------------------
(* Isolated branches *)

\* The initial state has the interpreter's field at the plan and no call begun.
LEMMA SerialInit == ParallelInit => SerialInv
  BY ParallelAssumption DEF ParallelInit, SerialInv, ResultsOf

\* As long as no two calls overlap, each step of isolated branches keeps the
\* shared field and the results in their places.
LEMMA SerialStep ==
  ASSUME state = "isolated", ParallelTypeInv, SerialInv, [ParallelNext]_parallelVars, ~overlap'
  PROVE  SerialInv'
  <1> USE ParallelAssumption DEF ParallelTypeInv, ParallelTypeOK
  <1>1. ASSUME NEW b \in Branch, SaveArtifacts(b) PROVE SerialInv'
    <2>1. \A c \in Branch : ~InCall(c)
      BY <1>1 DEF SaveArtifacts
    <2>2. QED
      BY <1>1, <2>1 DEF SaveArtifacts, SerialInv
  <1>2. ASSUME NEW b \in Branch, Swap(b) PROVE SerialInv'
    BY <1>2 DEF Swap, SerialInv
  <1>3. ASSUME NEW b \in Branch, Acquire(b) PROVE SerialInv'
    BY <1>3 DEF Acquire
  <1>4. ASSUME NEW b \in Branch, RecordResult(b) PROVE SerialInv'
    <2>1. ResultsOf(b, done[b] + 1) = ResultsOf(b, done[b]) \cup {<<b, done[b] + 1>>}
      BY ResultsGrow
    <2>2. current = b
      BY <1>4 DEF RecordResult, SerialInv
    <2>3. /\ bundles'[b] = bundles[b] \cup {<<b, done[b] + 1>>}
          /\ done'[b] = done[b] + 1
          /\ \A c \in Scope \ {b} : bundles'[c] = bundles[c]
          /\ \A c \in Branch \ {b} : done'[c] = done[c]
      BY <1>4, <2>2 DEF RecordResult
    <2>4. \A c \in Branch : ResultsOf(c, done'[c]) \subseteq bundles'[c]
      BY <2>1, <2>3 DEF SerialInv
    <2>5. outcome[b] # "completed" /\ outcome' = outcome
      BY <1>4 DEF RecordResult, OutcomeInv
    <2>6. QED
      BY <1>4, <2>2, <2>3, <2>4, <2>5 DEF RecordResult, SerialInv
  <1>5. ASSUME NEW b \in Branch, Fail(b) PROVE SerialInv'
    BY <1>5 DEF Fail, SerialInv
  <1>6. ASSUME NEW b \in Branch, LeaveCall(b) PROVE SerialInv'
    BY <1>6 DEF LeaveCall, AfterCall, SerialInv
  <1>7. ASSUME NEW b \in Branch, Complete(b) PROVE SerialInv'
    <2>1. main = "join"
      BY <1>7 DEF Complete, OutcomeInv
    <2>2. QED
      BY <1>7, <2>1 DEF Complete, SerialInv
  <1>8. CASE Join \/ ReturnUnmerged \/ UNCHANGED parallelVars
    BY <1>8 DEF Join, ReturnUnmerged, parallelVars, SerialInv
  <1>9. CASE Merge
    <2>1. \A b \in Branch : bundles'[b] = bundles[b]
      BY <1>9 DEF Merge
    <2>2. main' = "merged" => \A b \in Branch : payload[b] \subseteq bundles'[PlanScope]
      BY <1>9 DEF Merge
    <2>3. QED
      BY <1>9, <2>1, <2>2 DEF Merge, SerialInv
  <1>10. QED
    BY <1>1, <1>2, <1>3, <1>4, <1>5, <1>6, <1>7, <1>8, <1>9 DEF ParallelNext, BranchNext

\* Isolated branches are isolated, and join, as long as no two calls overlap.
THEOREM SerialBranchesJoin == ParallelSpec => []SerialIsIsolated
  <1> DEFINE Serial == state = "isolated" /\ ~overlap => SerialInv
  <1>1. ParallelInit => Serial
    BY SerialInit
  <1>2. ParallelTypeInv /\ Serial /\ [ParallelNext]_parallelVars => Serial'
    <2> SUFFICES ASSUME ParallelTypeInv, Serial, [ParallelNext]_parallelVars, state' = "isolated", ~overlap'
                 PROVE  SerialInv'
      OBVIOUS
    <2>1. ~overlap
      BY DEF ParallelNext, BranchNext, SaveArtifacts, Swap, Acquire, RecordResult, Fail, LeaveCall, Complete,
         Join, Merge, ReturnUnmerged, parallelVars
    <2>2. state = "isolated"
      BY StateStays
    <2>3. QED
      BY <2>1, <2>2, SerialStep
  <1>3. ParallelTypeInv /\ Serial => SerialIsIsolated
    <2> SUFFICES ASSUME ParallelTypeInv, SerialInv
                 PROVE  /\ \A b \in Branch : \A r \in bundles[b] : r[1] = b
                        /\ main # "join" => current = PlanScope
                        /\ main = "merged" => Result \subseteq bundles[PlanScope]
      BY DEF SerialIsIsolated
    <2>1. main # "join" => current = PlanScope
      BY DEF ParallelTypeInv, OutcomeInv, SerialInv
    <2>2. ASSUME main = "merged", NEW b \in Branch, NEW i \in 1 .. NumCalls
          PROVE  <<b, i>> \in bundles[PlanScope]
      <3>1. outcome[b] = "completed" /\ done[b] = NumCalls
        BY <2>2 DEF ParallelTypeInv, OutcomeInv
      <3>2. <<b, i>> \in ResultsOf(b, done[b])
        BY <3>1 DEF ResultsOf
      <3>3. QED
        BY <2>2, <3>1, <3>2 DEF SerialInv
    <2>3. QED
      BY <2>1, <2>2 DEF SerialInv
  <1> HIDE DEF Serial
  <1>4. QED
    BY <1>1, <1>2, <1>3, ParallelTypeHolds, PTL DEF ParallelSpec

================================================================================

-------------------------- MODULE SessionMemoryProofs --------------------------
(***************************************************************************)
(* What SessionMemory promises, for any number of turns, sessions,         *)
(* processors and threads, with failures and restarts anywhere.  The types *)
(* need StoredFirst, for embedded and chunked are sets of stored turns.    *)
(* The output jobs need JobsFollow, JobsAreHeld and DocsAreHeld; the       *)
(* prompt iterations need OneAtATime.                                      *)
(***************************************************************************)
EXTENDS SessionMemory, FiniteSetTheorems, WellFoundedInduction, TLAPS

\* Whatever works on a turn works on one that is stored.
StoredFirst ==
    /\ \A e \in Exchange :
           pc[e] \in {"score", "queue", "clear", "iterate", "schedule", "done"} => e \in stored
    /\ \A t \in tasks : t.turn \in stored
    /\ \A a \in Backfill : backlog[a] \subseteq stored
    /\ \A a \in Actor : turn[a] # None => turn[a] \in stored
    /\ \A a \in Actor : stage[a] \in {"embed", "store", "mark"} => turn[a] # None

MemoryInv == TypeOK /\ StoredFirst

\* A job is inserted by the save of its exchange, for a text that is not blank.
JobsFollow ==
    /\ \A e \in Exchange :
           pc[e] \in {"idle", "insert", "score", "queue"} => jobStatus[e] = "absent"
    /\ \A e \in Exchange : jobStatus[e] # "absent" => Text[e] # Blank
    /\ \A e \in Exchange : jobStatus[e] \in {"absent", "pending"} => attempts[e] = 0

\* A processor holds one job, alone, whose status its step tells.
JobsAreHeld ==
    \A p \in Processor :
        /\ at[p] # "idle" => job[p] \in Exchange
        /\ at[p] \in {"find", "insert", "tree", "rollback", "reject", "fail", "complete"} =>
               jobStatus[job[p]] = "processing"
        /\ at[p] \in {"link", "activate"} => jobStatus[job[p]] = "completed"
        /\ at[p] = "activate" => job[p] \in outLink
        /\ \A q \in Processor :
               at[p] # "idle" /\ at[q] # "idle" /\ job[p] = job[q] => p = q

\* A document is as far as the processor that writes it.
DocsAreHeld ==
    \A p \in Processor :
        /\ at[p] \in {"tree", "rollback"} => doc[TextOf(p)] = "part"
        /\ at[p] = "complete" => doc[TextOf(p)] = "whole"

OutputInv == JobsFollow /\ JobsAreHeld /\ DocsAreHeld /\ OutputIsStored

\* A session of which no two saves were at their iterations at once has one such save at
\* most, with no latest iteration besides, and one latest iteration at most.
OneAtATime ==
    \A s \in Session \ raced :
        \A e, f \in Turns(s) :
            /\ pc[e] = "iterate" /\ pc[f] = "iterate" => e = f
            /\ pc[e] = "iterate" => iteration[f] # "latest"
            /\ iteration[e] = "latest" /\ iteration[f] = "latest" => e = f

\* A session with iterations has a latest one, or a save that has cleared it.
LatestOrGap ==
    \A s \in Session :
        \/ \A e \in Turns(s) : iteration[e] = "none"
        \/ \E e \in Turns(s) : iteration[e] = "latest"
        \/ \E e \in Turns(s) : pc[e] = "iterate" \/ e \in gaps

LatestInv == OneAtATime /\ LatestOrGap

USE DEF At, Goto, Step, None

-------------------------------------------------------------------------------
(* Types *)

\* The initial state has them.
LEMMA MemoryInit == Init => MemoryInv
  <1> SUFFICES ASSUME Init PROVE MemoryInv
    OBVIOUS
  <1>1. TypeOK
    BY MemoryAssumption DEF Init, TypeOK, Starting, Actor, Backfill, Task, SaveSteps, OutputSteps
  <1>2. StoredFirst
    BY DEF Init, StoredFirst, Starting, Actor
  <1>3. QED
    BY <1>1, <1>2 DEF MemoryInv

\* Saving keeps them: each write puts one turn further.
LEMMA SaveTypes ==
  ASSUME MemoryInv, NEW e \in Exchange, SaveStep(e)
  PROVE  MemoryInv'
  <1> USE MemoryAssumption DEF MemoryInv, TypeOK, StoredFirst, SaveSteps, saveRest, sessionVars,
             jobVars, outputVars, memoryRows, taskVars
  <1>1. CASE Open(e)
    BY <1>1 DEF Open, Touched, WithDomain, Activated
  <1>2. CASE InsertExchange(e)
    BY <1>2 DEF InsertExchange
  <1>3. CASE RecordUsage(e)
    BY <1>3 DEF RecordUsage
  <1>4. CASE QueueOutput(e)
    BY <1>4 DEF QueueOutput
  <1>5. CASE ClearLatest(e)
    BY <1>5 DEF ClearLatest, Cleared
  <1>6. CASE InsertIteration(e)
    BY <1>6 DEF InsertIteration
  <1>7. CASE IterationFails(e)
    BY <1>7 DEF IterationFails
  <1>8. CASE SaveFails(e)
    BY <1>8 DEF SaveFails
  <1>9. CASE Schedule(e)
    BY <1>9 DEF Schedule
  <1>10. QED
    BY <1>1, <1>2, <1>3, <1>4, <1>5, <1>6, <1>7, <1>8, <1>9 DEF SaveStep

\* Of any turns one is the newest.
LEMMA NewestIsThere ==
  ASSUME NEW S, S \subseteq Exchange, S # {}
  PROVE  Newest(S) \in S
  <1> DEFINE age(e) == MaxTurns - e
             Less == OpToRel(<, Nat)
             T == {age(e) : e \in S}
  <1>1. \A e \in Exchange : age(e) \in Nat
    BY MemoryAssumption DEF Exchange
  <1>2. T \subseteq Nat /\ T # {}
    BY <1>1
  <1>3. \E x \in T : \A y \in T : <<y, x>> \notin Less
    <2>1. IsWellFoundedOn(Less, Nat)
      BY NatLessThanWellFounded
    <2> HIDE DEF T, Less
    <2>2. QED
      BY <1>2, <2>1, WFMin
  <1>4. \A x, y \in Nat : y < x => <<y, x>> \in Less
    BY DEF OpToRel
  <1>5. PICK e \in S : \A f \in S : <<age(f), age(e)>> \notin Less
    BY <1>3
  <1>6. \A f \in S : f <= e
    <2> HIDE DEF Less
    <2>1. TAKE f \in S
    <2>2. age(f) \in Nat /\ age(e) \in Nat /\ ~ (age(f) < age(e))
      BY <1>1, <1>4, <1>5
    <2>3. QED
      BY <2>2, MemoryAssumption DEF Exchange
  <1>7. QED
    BY <1>6 DEF Newest

\* The next row of a backfill is stored if the rows that are left are.
LEMMA ProceedTypes ==
  ASSUME MemoryInv, NEW a \in Actor, NEW left \in SUBSET stored, Proceed(a, left),
         left # {} => a \in Backfill
  PROVE  /\ turn' \in [Actor -> Exchange \cup {None}]
         /\ stage' \in [Actor -> {"idle", "start", "embed", "store", "mark"}]
         /\ backlog' \in [Backfill -> SUBSET Exchange]
         /\ \A b \in Backfill : backlog'[b] \subseteq stored
         /\ \A b \in Actor : turn'[b] # None => turn'[b] \in stored
         /\ \A b \in Actor : stage'[b] \in {"embed", "store", "mark"} => turn'[b] # None
  <1> USE DEF MemoryInv, TypeOK, StoredFirst
  <1>1. CASE left = {}
    BY <1>1 DEF Proceed
  <1>2. CASE left # {}
    <2>1. Newest(left) \in left
      BY <1>2, NewestIsThere
    <2>2. Newest(left) \in stored /\ Newest(left) \in Exchange
      BY <2>1
    <2>3. Newest(left) # 0
      BY <2>2, MemoryAssumption DEF Exchange
    <2>4. First[Kind[a]] \in {"embed", "store"}
      BY <1>2 DEF First, Kind, Backfill
    <2>5. left \ {Newest(left)} \in SUBSET Exchange /\ left \ {Newest(left)} \subseteq stored
      BY <2>2
    <2> DEFINE n == Newest(left)
               k == First[Kind[a]]
    <2>6. /\ turn' = [turn EXCEPT ![a] = n]
          /\ stage' = [stage EXCEPT ![a] = k]
          /\ backlog' = [backlog EXCEPT ![a] = left \ {n}]
      BY <1>2 DEF Proceed
    <2> HIDE DEF n, k
    <2>7. QED
      BY <1>2, <2>2, <2>3, <2>4, <2>5, <2>6 DEF n, k
  <1>3. QED
    BY <1>1, <1>2

\* So the next row that NextTurn gives a backfill, or a worker's end, has its type.
LEMMA NextTurnTypes ==
  ASSUME MemoryInv, NEW a \in Actor, NextTurn(a)
  PROVE  /\ turn' \in [Actor -> Exchange \cup {None}]
         /\ stage' \in [Actor -> {"idle", "start", "embed", "store", "mark"}]
         /\ backlog' \in [Backfill -> SUBSET Exchange]
         /\ \A b \in Backfill : backlog'[b] \subseteq stored
         /\ \A b \in Actor : turn'[b] # None => turn'[b] \in stored
         /\ \A b \in Actor : stage'[b] \in {"embed", "store", "mark"} => turn'[b] # None
  <1> DEFINE left == IF a \in Backfill THEN backlog[a] ELSE {}
  <1>1. left \in SUBSET stored
    BY DEF MemoryInv, StoredFirst
  <1>2. left # {} => a \in Backfill
    OBVIOUS
  <1>3. Proceed(a, left)
    BY DEF NextTurn
  <1> HIDE DEF left
  <1>4. QED
    BY <1>1, <1>2, <1>3, ProceedTypes

\* Who works on a turn works on one that is stored, and has a task for it.
LEMMA AtWork ==
  ASSUME MemoryInv, NEW a \in Actor, stage[a] \in {"embed", "store", "mark"}
  PROVE  /\ turn[a] \in stored
         /\ turn[a] \in Exchange
         /\ \A k \in {"embed", "chunk"} : [turn |-> turn[a], kind |-> k] \in Task
  BY DEF MemoryInv, TypeOK, StoredFirst, Task

\* What the background never writes keeps its type.
LEMMA BackgroundFrame ==
  ASSUME MemoryInv, UNCHANGED memoryVars,
         tasks' \subseteq tasks,
         turn' \in [Actor -> Exchange \cup {None}],
         stage' \in [Actor -> {"idle", "start", "embed", "store", "mark"}],
         backlog' \in [Backfill -> SUBSET Exchange],
         embedded' \subseteq stored, chunked' \subseteq stored, stocked' \subseteq Exchange,
         missed' \subseteq Task,
         \A b \in Backfill : backlog'[b] \subseteq stored,
         \A b \in Actor : turn'[b] # None => turn'[b] \in stored,
         \A b \in Actor : stage'[b] \in {"embed", "store", "mark"} => turn'[b] # None
  PROVE  MemoryInv'
  BY DEF MemoryInv, TypeOK, StoredFirst, memoryVars, saveVars, jobVars, outputVars

\* Working on a turn keeps the types.
LEMMA TurnTypes ==
  ASSUME MemoryInv, NEW a \in Actor, TurnStep(a)
  PROVE  MemoryInv'
  <1> USE DEF MemoryInv, TypeOK, StoredFirst
  <1>1. CASE Embed(a)
    <2>1. embedded' \subseteq stored
      BY <1>1, AtWork DEF Embed
    <2> HIDE DEF MemoryInv
    <2>2. QED
      BY <1>1, <2>1, NextTurnTypes, BackgroundFrame DEF Embed, MemoryInv
  <1>2. CASE TurnFails(a)
    <2>1. missed' \subseteq Task
      BY <1>2, AtWork DEF TurnFails
    <2>2. QED
      BY <1>2, <2>1, NextTurnTypes, BackgroundFrame DEF TurnFails
  <1>3. CASE StoreChunks(a)
    <2>1. /\ stocked' \subseteq Exchange
          /\ stage' \in [Actor -> {"idle", "start", "embed", "store", "mark"}]
          /\ \A b \in Actor : stage'[b] \in {"embed", "store", "mark"} => turn[b] # None
      BY <1>3, AtWork DEF StoreChunks
    <2>2. QED
      BY <1>3, <2>1, BackgroundFrame DEF StoreChunks
  <1>4. CASE MarkChunked(a)
    <2>1. chunked' \subseteq stored
      BY <1>4, AtWork DEF MarkChunked
    <2>2. QED
      BY <1>4, <2>1, NextTurnTypes, BackgroundFrame DEF MarkChunked
  <1>5. CASE MarkFails(a)
    <2>1. missed' \subseteq Task
      BY <1>5, AtWork DEF MarkFails
    <2>2. QED
      BY <1>5, <2>1, NextTurnTypes, BackgroundFrame DEF MarkFails
  <1>6. QED
    BY <1>1, <1>2, <1>3, <1>4, <1>5 DEF TurnStep

\* Taking a task, reading the pending rows and working on a turn keep the types.
LEMMA BackgroundTypes ==
  ASSUME MemoryInv, Background
  PROVE  MemoryInv'
  <1>1. ASSUME NEW w \in Worker, NEW t \in tasks, Take(w, t)
        PROVE  MemoryInv'
    <2>1. t \in Task /\ t.turn \in stored /\ t.turn \in Exchange /\ t.turn # None
      BY MemoryAssumption DEF MemoryInv, TypeOK, StoredFirst, Task, Exchange
    <2>2. First[t.kind] \in {"embed", "store"}
      BY <2>1 DEF Task, First
    <2> DEFINE n == t.turn
               k == First[t.kind]
    <2>3. /\ turn' = [turn EXCEPT ![w] = n]
          /\ stage' = [stage EXCEPT ![w] = k]
          /\ tasks' \subseteq tasks
          /\ UNCHANGED <<memoryVars, backlog, embedded, chunked, stocked, missed>>
      BY <1>1 DEF Take
    <2> HIDE DEF n, k
    <2>4. w \in Actor
      BY DEF Actor
    <2>5. /\ turn' \in [Actor -> Exchange \cup {None}]
          /\ stage' \in [Actor -> {"idle", "start", "embed", "store", "mark"}]
          /\ \A b \in Actor : turn'[b] # None => turn'[b] \in stored
          /\ \A b \in Actor : stage'[b] \in {"embed", "store", "mark"} => turn'[b] # None
      BY <2>1, <2>2, <2>3, <2>4 DEF n, k, MemoryInv, TypeOK, StoredFirst
    <2>6. QED
      BY <2>3, <2>5, BackgroundFrame DEF MemoryInv, TypeOK, StoredFirst
  <1>2. ASSUME NEW a \in Backfill, ReadPending(a)
        PROVE  MemoryInv'
    <2> DEFINE rows == Pending(IF a = "embedder" THEN embedded ELSE chunked)
    <2>1. rows \in SUBSET stored
      BY DEF Pending
    <2>2. /\ Proceed(a, rows)
          /\ missed' = missed \ {[turn |-> e, kind |-> Kind[a]] : e \in rows}
          /\ UNCHANGED <<memoryVars, tasks, embedded, chunked, stocked>>
      BY <1>2 DEF ReadPending
    <2> HIDE DEF rows
    <2>3. a \in Actor
      BY DEF Actor
    <2>4. QED
      BY <2>1, <2>2, <2>3, ProceedTypes, BackgroundFrame DEF MemoryInv, TypeOK
  <1>3. QED
    BY <1>1, <1>2, TurnTypes DEF Background

\* A restart keeps the types.
LEMMA RestartTypes ==
  ASSUME MemoryInv, Restart
  PROVE  MemoryInv'
  <1> USE MemoryAssumption DEF MemoryInv, TypeOK, StoredFirst
  <1>1. pc' \in [Exchange -> SaveSteps]
    BY DEF Restart, SaveSteps
  <1>2. stage' \in [Actor -> {"idle", "start", "embed", "store", "mark"}]
    BY DEF Restart, Starting
  <1>3. TypeOK'
    BY <1>1, <1>2 DEF Restart, jobVars, outputVars
  <1>4. StoredFirst'
    BY DEF Restart, Starting
  <1>5. QED
    BY <1>3, <1>4

-------------------------------------------------------------------------------
(* The output jobs *)

\* A processor that is at a job holds one of a text that is not blank.
LEMMA HeldJob ==
  ASSUME MemoryInv, OutputInv
  PROVE  \A q \in Processor : at[q] # "idle" => job[q] \in Exchange /\ Text[job[q]] \in Content
  BY MemoryAssumption DEF MemoryInv, TypeOK, OutputInv, JobsFollow, JobsAreHeld, OutputSteps

\* Nothing is claimed or stored at first.
LEMMA OutputInit == Init => OutputInv
  BY DEF Init, OutputInv, JobsFollow, JobsAreHeld, DocsAreHeld, OutputIsStored

\* What leaves jobs, documents and processors alone, and puts no turn back before its
\* job, keeps the invariant.
LEMMA OutputFrame ==
  ASSUME OutputInv, UNCHANGED <<jobVars, outputVars>>,
         \A e \in Exchange : pc'[e] \in {"idle", "insert", "score", "queue"} =>
                               pc[e] \in {"idle", "insert", "score", "queue"}
  PROVE  OutputInv'
  BY DEF OutputInv, JobsFollow, JobsAreHeld, DocsAreHeld, OutputIsStored, TextOf, jobVars, outputVars

\* Saving keeps it: a job is inserted where none is.
LEMMA SaveOutputs ==
  ASSUME MemoryInv, OutputInv, NEW e \in Exchange, SaveStep(e)
  PROVE  OutputInv'
  <1> USE DEF MemoryInv, TypeOK
  <1>1. CASE QueueOutput(e)
    <2> USE DEF OutputInv, JobsFollow, JobsAreHeld, DocsAreHeld, OutputIsStored, TextOf, outputVars
    <2>1. \A f \in Exchange : jobStatus[f] # "absent" => jobStatus'[f] = jobStatus[f]
      BY <1>1 DEF QueueOutput
    <2>2. JobsFollow'
      BY <1>1 DEF QueueOutput, Queued
    <2>3. JobsAreHeld'
      BY <1>1, <2>1 DEF QueueOutput
    <2>4. DocsAreHeld' /\ OutputIsStored'
      BY <1>1 DEF QueueOutput
    <2>5. QED
      BY <2>2, <2>3, <2>4
  <1>2. CASE ~ QueueOutput(e)
    <2>1. UNCHANGED <<jobVars, outputVars>>
      BY <1>2 DEF SaveStep, Open, InsertExchange, RecordUsage, ClearLatest, InsertIteration,
                  IterationFails, SaveFails, Schedule, saveRest, jobVars, outputVars
    <2>2. \A f \in Exchange : pc'[f] \in {"idle", "insert", "score", "queue"} =>
                                pc[f] \in {"idle", "insert", "score", "queue"}
      BY <1>2 DEF SaveStep, Open, InsertExchange, RecordUsage, ClearLatest, InsertIteration,
                  IterationFails, SaveFails, Schedule
    <2> HIDE DEF MemoryInv, TypeOK
    <2>3. QED
      BY <2>1, <2>2, OutputFrame
  <1>3. QED
    BY <1>1, <1>2

\* A claim gives a pending job to one processor.
LEMMA ClaimOutputs ==
  ASSUME MemoryInv, OutputInv, NEW p \in Processor, NEW e \in Exchange, ClaimOutput(p, e)
  PROVE  OutputInv'
  <1> USE HeldJob DEF MemoryInv, TypeOK, OutputInv, JobsFollow, JobsAreHeld, DocsAreHeld,
             OutputIsStored, TextOf, ClaimOutput, Claimable
  <1>1. JobsFollow'
    <2>1. /\ \A f \in Exchange \ {e} : /\ jobStatus'[f] = jobStatus[f]
                                       /\ attempts'[f] = attempts[f]
          /\ jobStatus'[e] = "processing"
          /\ pc' = pc
      BY DEF outputRest, saveVars
    <2>2. QED
      BY <2>1
  <1>2. JobsAreHeld'
    <2>1. \A q \in Processor \ {p} : at[q] # "idle" => job[q] # e
      BY DEF OutputSteps
    <2>2. QED
      BY <2>1
  <1>3. DocsAreHeld'
    OBVIOUS
  <1>4. OutputIsStored'
    OBVIOUS
  <1>5. QED
    BY <1>1, <1>2, <1>3, <1>4

\* Looking for the document and inserting it and its tree keep the invariant.
LEMMA StoringOutputs ==
  ASSUME MemoryInv, OutputInv, NEW p \in Processor,
         FindDuplicate(p) \/ InsertDocument(p) \/ InsertRefused(p) \/ InsertTree(p)
  PROVE  OutputInv'
  <1> USE HeldJob DEF MemoryInv, TypeOK, OutputInv, JobsFollow, JobsAreHeld, DocsAreHeld,
             OutputIsStored, TextOf, outputRest, saveVars, jobVars, outputVars
  <1>1. CASE FindDuplicate(p)
    <2>1. JobsFollow'
      BY <1>1 DEF FindDuplicate
    <2>2. JobsAreHeld'
      BY <1>1 DEF FindDuplicate
    <2>3. DocsAreHeld'
      BY <1>1 DEF FindDuplicate
    <2>4. OutputIsStored'
      BY <1>1 DEF FindDuplicate
    <2>5. QED
      BY <2>1, <2>2, <2>3, <2>4
  <1>2. CASE InsertDocument(p)
    <2>1. JobsFollow'
      BY <1>2 DEF InsertDocument, Absent
    <2>2. JobsAreHeld'
      BY <1>2 DEF InsertDocument, Absent
    <2>3. DocsAreHeld'
      BY <1>2 DEF InsertDocument, Absent
    <2>4. OutputIsStored'
      BY <1>2 DEF InsertDocument, Absent
    <2>5. QED
      BY <2>1, <2>2, <2>3, <2>4
  <1>3. CASE InsertRefused(p)
    <2>1. JobsFollow'
      BY <1>3 DEF InsertRefused
    <2>2. JobsAreHeld'
      BY <1>3 DEF InsertRefused
    <2>3. DocsAreHeld'
      BY <1>3 DEF InsertRefused
    <2>4. OutputIsStored'
      BY <1>3 DEF InsertRefused
    <2>5. QED
      BY <2>1, <2>2, <2>3, <2>4
  <1>4. CASE InsertTree(p)
    <2>1. JobsFollow'
      BY <1>4 DEF InsertTree
    <2>2. JobsAreHeld'
      BY <1>4 DEF InsertTree
    <2>3. DocsAreHeld'
      BY <1>4 DEF InsertTree
    <2>4. OutputIsStored'
      BY <1>4 DEF InsertTree
    <2>5. QED
      BY <2>1, <2>2, <2>3, <2>4
  <1>5. QED
    BY <1>1, <1>2, <1>3, <1>4

\* So do the failures on the way.
LEMMA FailingOutputs ==
  ASSUME MemoryInv, OutputInv, NEW p \in Processor,
         TreeFails(p) \/ Rollback(p) \/ RollbackFails(p)
  PROVE  OutputInv'
  <1> USE HeldJob DEF MemoryInv, TypeOK, OutputInv, JobsFollow, JobsAreHeld, DocsAreHeld,
             OutputIsStored, TextOf, outputRest, saveVars, jobVars, outputVars
  <1>1. CASE TreeFails(p)
    <2>1. JobsFollow'
      BY <1>1 DEF TreeFails
    <2>2. JobsAreHeld'
      BY <1>1 DEF TreeFails
    <2>3. DocsAreHeld'
      BY <1>1 DEF TreeFails
    <2>4. OutputIsStored'
      BY <1>1 DEF TreeFails
    <2>5. QED
      BY <2>1, <2>2, <2>3, <2>4
  <1>2. CASE Rollback(p)
    <2>1. JobsFollow'
      BY <1>2 DEF Rollback
    <2>2. JobsAreHeld'
      BY <1>2 DEF Rollback
    <2>3. DocsAreHeld'
      BY <1>2 DEF Rollback
    <2>4. OutputIsStored'
      BY <1>2 DEF Rollback
    <2>5. QED
      BY <2>1, <2>2, <2>3, <2>4
  <1>3. CASE RollbackFails(p)
    <2>1. JobsFollow'
      BY <1>3 DEF RollbackFails
    <2>2. JobsAreHeld'
      BY <1>3 DEF RollbackFails
    <2>3. DocsAreHeld'
      BY <1>3 DEF RollbackFails
    <2>4. OutputIsStored'
      BY <1>3 DEF RollbackFails
    <2>5. QED
      BY <2>1, <2>2, <2>3, <2>4
  <1>4. QED
    BY <1>1, <1>2, <1>3

\* So do the verdicts.
LEMMA SettlingOutputs ==
  ASSUME MemoryInv, OutputInv, NEW p \in Processor,
         RejectOutput(p) \/ FailOutput(p) \/ CompleteOutput(p)
  PROVE  OutputInv'
  <1> USE HeldJob DEF MemoryInv, TypeOK, OutputInv, JobsFollow, JobsAreHeld, DocsAreHeld,
             OutputIsStored, TextOf, outputRest, saveVars, jobVars, outputVars
  <1>1. CASE RejectOutput(p)
    <2>1. JobsFollow'
      BY <1>1 DEF RejectOutput, Settled
    <2>2. JobsAreHeld'
      BY <1>1 DEF RejectOutput, Settled
    <2>3. DocsAreHeld'
      BY <1>1 DEF RejectOutput, Settled
    <2>4. OutputIsStored'
      BY <1>1 DEF RejectOutput, Settled
    <2>5. QED
      BY <2>1, <2>2, <2>3, <2>4
  <1>2. CASE FailOutput(p)
    <2>1. JobsFollow'
      BY <1>2 DEF FailOutput, Settled
    <2>2. JobsAreHeld'
      BY <1>2 DEF FailOutput, Settled
    <2>3. DocsAreHeld'
      BY <1>2 DEF FailOutput, Settled
    <2>4. OutputIsStored'
      BY <1>2 DEF FailOutput, Settled
    <2>5. QED
      BY <2>1, <2>2, <2>3, <2>4
  <1>3. CASE CompleteOutput(p)
    <2>1. JobsFollow'
      BY <1>3 DEF CompleteOutput, Settled
    <2>2. JobsAreHeld'
      BY <1>3 DEF CompleteOutput, Settled
    <2>3. DocsAreHeld'
      BY <1>3 DEF CompleteOutput, Settled
    <2>4. OutputIsStored'
      BY <1>3 DEF CompleteOutput, Settled
    <2>5. QED
      BY <2>1, <2>2, <2>3, <2>4
  <1>4. QED
    BY <1>1, <1>2, <1>3

\* So do the writes after the verdict, and the end of a processor.
LEMMA LinkingOutputs ==
  ASSUME MemoryInv, OutputInv, NEW p \in Processor,
         LinkOutput(p) \/ ActivateOutput(p) \/ Stop(p)
  PROVE  OutputInv'
  <1> USE HeldJob DEF MemoryInv, TypeOK, OutputInv, JobsFollow, JobsAreHeld, DocsAreHeld,
             OutputIsStored, TextOf, outputRest, saveVars, jobVars, outputVars
  <1>1. CASE LinkOutput(p)
    <2>1. JobsFollow'
      BY <1>1 DEF LinkOutput
    <2>2. JobsAreHeld'
      BY <1>1 DEF LinkOutput
    <2>3. DocsAreHeld'
      BY <1>1 DEF LinkOutput
    <2>4. OutputIsStored'
      BY <1>1 DEF LinkOutput
    <2>5. QED
      BY <2>1, <2>2, <2>3, <2>4
  <1>2. CASE ActivateOutput(p)
    <2>1. JobsFollow'
      BY <1>2 DEF ActivateOutput, Activated
    <2>2. JobsAreHeld'
      BY <1>2 DEF ActivateOutput, Activated
    <2>3. DocsAreHeld'
      BY <1>2 DEF ActivateOutput, Activated
    <2>4. OutputIsStored'
      BY <1>2 DEF ActivateOutput, Activated
    <2>5. QED
      BY <2>1, <2>2, <2>3, <2>4
  <1>3. CASE Stop(p)
    <2>1. JobsFollow'
      BY <1>3 DEF Stop
    <2>2. JobsAreHeld'
      BY <1>3 DEF Stop
    <2>3. DocsAreHeld'
      BY <1>3 DEF Stop
    <2>4. OutputIsStored'
      BY <1>3 DEF Stop
    <2>5. QED
      BY <2>1, <2>2, <2>3, <2>4
  <1>4. QED
    BY <1>1, <1>2, <1>3

\* An output step writes jobs, documents, processors and active documents, each by its type.
LEMMA OutputTypes ==
  ASSUME MemoryInv, OutputInv, NEW p \in Processor, OutputStep(p)
  PROVE  MemoryInv'
  <1> USE HeldJob DEF MemoryInv, TypeOK, OutputSteps
  <1>1. /\ dead' \subseteq Processor
        /\ at' \in [Processor -> OutputSteps]
    BY DEF OutputStep, ClaimOutput, FindDuplicate, InsertDocument, InsertRefused, InsertTree,
           TreeFails, Rollback, RollbackFails, RejectOutput, FailOutput, CompleteOutput,
           LinkOutput, ActivateOutput, Stop, outputVars
  <1>2. /\ job' \in [Processor -> Exchange \cup {None}]
        /\ outLink' \subseteq Exchange
    BY DEF OutputStep, ClaimOutput, FindDuplicate, InsertDocument, InsertRefused, InsertTree,
           TreeFails, Rollback, RollbackFails, RejectOutput, FailOutput, CompleteOutput,
           LinkOutput, ActivateOutput, Stop, outputVars
  <1>3. /\ jobStatus' \in [Exchange -> {"absent", "pending", "processing", "completed",
                                       "rejected", "failed"}]
        /\ attempts' \in [Exchange -> Nat]
    BY DEF OutputStep, ClaimOutput, FindDuplicate, InsertDocument, InsertRefused, InsertTree,
           TreeFails, Rollback, RollbackFails, RejectOutput, FailOutput, CompleteOutput,
           LinkOutput, ActivateOutput, Stop, Settled, jobVars
  <1>4. /\ doc' \in [Content -> {"none", "part", "whole"}]
        /\ DOMAIN active' = Session
    BY DEF OutputStep, ClaimOutput, FindDuplicate, InsertDocument, InsertRefused, InsertTree,
           TreeFails, Rollback, RollbackFails, RejectOutput, FailOutput, CompleteOutput,
           LinkOutput, ActivateOutput, Stop, Activated, outputVars
  <1>5. UNCHANGED outputRest
    BY DEF OutputStep, ClaimOutput, FindDuplicate, InsertDocument, InsertRefused, InsertTree,
           TreeFails, Rollback, RollbackFails, RejectOutput, FailOutput, CompleteOutput,
           LinkOutput, ActivateOutput, Stop
  <1>6. TypeOK'
    BY <1>1, <1>2, <1>3, <1>4, <1>5 DEF outputRest, saveVars, taskVars, memoryRows
  <1>7. StoredFirst'
    BY <1>5 DEF StoredFirst, outputRest, saveVars, taskVars, memoryRows
  <1>8. QED
    BY <1>6, <1>7

\* Every step keeps both invariants.
LEMMA StepKeeps ==
  ASSUME MemoryInv, OutputInv, [Next]_vars
  PROVE  MemoryInv' /\ OutputInv'
  <1>1. ASSUME NEW e \in Exchange, SaveStep(e)
        PROVE  MemoryInv' /\ OutputInv'
    BY <1>1, SaveTypes, SaveOutputs
  <1>2. CASE Background
    <2>1. UNCHANGED memoryVars
      BY <1>2 DEF Background, Take, ReadPending, TurnStep, Embed, TurnFails, StoreChunks,
                  MarkChunked, MarkFails
    <2>2. OutputInv'
      BY <2>1, OutputFrame DEF memoryVars, saveVars
    <2>3. QED
      BY <1>2, <2>2, BackgroundTypes
  <1>3. CASE Restart
    <2>1. OutputInv'
      <3>1. UNCHANGED <<jobVars, outputVars>>
        BY <1>3 DEF Restart
      <3>2. \A e \in Exchange : pc'[e] \in {"idle", "insert", "score", "queue"} =>
                                pc[e] \in {"idle", "insert", "score", "queue"}
        BY <1>3 DEF Restart
      <3>3. QED
        BY <3>1, <3>2, OutputFrame
    <2>2. QED
      BY <1>3, <2>1, RestartTypes
  <1>4. ASSUME NEW p \in Processor, OutputStep(p)
        PROVE  MemoryInv' /\ OutputInv'
    <2>1. OutputInv'
      BY <1>4, ClaimOutputs, StoringOutputs, FailingOutputs, SettlingOutputs, LinkingOutputs
         DEF OutputStep
    <2>2. QED
      BY <1>4, <2>1, OutputTypes
  <1>5. CASE UNCHANGED vars
    <2>1. MemoryInv'
      BY <1>5 DEF MemoryInv, TypeOK, StoredFirst, vars, saveVars, jobVars, outputVars, taskVars,
                  memoryRows
    <2>2. OutputInv'
      BY <1>5, OutputFrame DEF vars, saveVars
    <2>3. QED
      BY <2>1, <2>2
  <1>6. QED
    BY <1>1, <1>2, <1>3, <1>4, <1>5 DEF Next

\* Both invariants hold throughout.
LEMMA MemoryInvariant == Spec => [](MemoryInv /\ OutputInv)
  <1>1. Init => MemoryInv /\ OutputInv
    BY MemoryInit, OutputInit
  <1>2. (MemoryInv /\ OutputInv) /\ [Next]_vars => (MemoryInv /\ OutputInv)'
    BY StepKeeps
  <1>3. QED
    BY <1>1, <1>2, PTL DEF Spec

\* Every variable keeps to its type; what is embedded or chunked is stored.
THEOREM TypeCorrect == Spec => []TypeOK
  <1>1. MemoryInv /\ OutputInv => TypeOK
    BY DEF MemoryInv
  <1>2. QED
    BY <1>1, MemoryInvariant, PTL

\* A completed output job has its document with its tree, and the exchange its link
\* unless the processor is just setting it or was cut off there; a content has one
\* writer at most.
THEOREM OutputsAreStored == Spec => []OutputIsStored
  <1>1. MemoryInv /\ OutputInv => OutputIsStored
    BY DEF OutputInv
  <1>2. QED
    BY <1>1, MemoryInvariant, PTL

-------------------------------------------------------------------------------
(* The output jobs implement JobLifecycle *)

\* No job is there at first.
LEMMA LifecycleInit == Init => Lifecycle!Init
  BY DEF Init, Lifecycle!Init

\* A save inserts a job, a claim begins its attempt and a verdict ends it; nothing else
\* touches it.
LEMMA LifecycleStep ==
  ASSUME MemoryInv, OutputInv, [Next]_vars
  PROVE  [Lifecycle!Next]_(Lifecycle!jobVars)
  <1> USE DEF Lifecycle!jobVars
  <1>1. ASSUME NEW e \in Exchange, SaveStep(e)
        PROVE  [Lifecycle!Next]_(Lifecycle!jobVars)
    <2>1. CASE QueueOutput(e) /\ Queued(e)
      <3>1. Lifecycle!Insert(e)
        BY <2>1 DEF QueueOutput, Lifecycle!Insert, OutputInv, JobsFollow
      <3>2. QED
        BY <3>1 DEF Lifecycle!Next
    <2>2. CASE ~ (QueueOutput(e) /\ Queued(e))
      BY <1>1, <2>2 DEF SaveStep, Open, InsertExchange, RecordUsage, QueueOutput, ClearLatest,
             InsertIteration, IterationFails, SaveFails, Schedule, saveRest, jobVars
    <2>3. QED
      BY <2>1, <2>2
  <1>2. CASE Background
    BY <1>2 DEF Background, Take, ReadPending, TurnStep, Embed, TurnFails, StoreChunks,
                MarkChunked, MarkFails, memoryVars, jobVars
  <1>3. CASE Restart
    BY <1>3 DEF Restart, jobVars
  <1>4. ASSUME NEW p \in Processor, OutputStep(p)
        PROVE  [Lifecycle!Next]_(Lifecycle!jobVars)
    <2>1. ASSUME NEW e \in Exchange, ClaimOutput(p, e)
          PROVE  Lifecycle!Begin(e)
      BY <2>1 DEF ClaimOutput, Claimable, Lifecycle!Begin, OutputInv, JobsFollow
    <2>2. ASSUME NEW verdict \in {"completed", "rejected", "failed"}, Settled(p, verdict),
                 at[p] \in {"complete", "reject", "fail"}, UNCHANGED attempts
          PROVE  Lifecycle!Next
      <3>1. job[p] \in Exchange /\ jobStatus[job[p]] = "processing"
        BY <2>2 DEF OutputInv, JobsAreHeld
      <3>2. Lifecycle!End(job[p])
        BY <2>2, <3>1 DEF Settled, Lifecycle!End, Lifecycle!Verdict
      <3>3. QED
        BY <3>1, <3>2 DEF Lifecycle!Next
    <2>3. CASE RejectOutput(p) \/ FailOutput(p) \/ CompleteOutput(p)
      BY <2>2, <2>3 DEF RejectOutput, FailOutput, CompleteOutput
    <2>4. CASE ~ (RejectOutput(p) \/ FailOutput(p) \/ CompleteOutput(p))
      <3>1. CASE \E e \in Exchange : ClaimOutput(p, e)
        BY <2>1, <3>1 DEF Lifecycle!Next
      <3>2. CASE ~ \E e \in Exchange : ClaimOutput(p, e)
        BY <1>4, <2>4, <3>2 DEF OutputStep, FindDuplicate, InsertDocument, InsertRefused,
               InsertTree, TreeFails, Rollback, RollbackFails, LinkOutput, ActivateOutput, Stop,
               jobVars
      <3>3. QED
        BY <3>1, <3>2
    <2>5. QED
      BY <2>3, <2>4
  <1>5. CASE UNCHANGED vars
    BY <1>5 DEF vars, jobVars
  <1>6. QED
    BY <1>1, <1>2, <1>3, <1>4, <1>5 DEF Next

\* The jobs for generated output implement JobLifecycle with one attempt each: none is
\* handed out twice, and a verdict is final.
THEOREM OutputsFollowLifecycle == Spec => OutputLifecycle
  <1>1. (MemoryInv /\ OutputInv) /\ [Next]_vars => [Lifecycle!Next]_(Lifecycle!jobVars)
    BY LifecycleStep
  <1>2. QED
    BY LifecycleInit, <1>1, MemoryInvariant, PTL DEF Spec, OutputLifecycle, Lifecycle!Spec

-------------------------------------------------------------------------------
(* The prompt iterations *)

\* No iteration is there at first.
LEMMA LatestInit == Init => LatestInv
  BY DEF Init, LatestInv, OneAtATime, LatestOrGap, Turns

\* What leaves the iterations alone, puts no save between clearing and inserting, and
\* takes none away from there without noting the gap, keeps the invariant.
LEMMA LatestFrame ==
  ASSUME LatestInv, UNCHANGED <<iteration, raced>>, gaps \subseteq gaps',
         \A e \in Exchange : pc'[e] = "iterate" => pc[e] = "iterate",
         \A e \in Exchange : pc[e] = "iterate" => pc'[e] = "iterate" \/ e \in gaps'
  PROVE  LatestInv'
  <1>1. OneAtATime'
    BY DEF LatestInv, OneAtATime, Turns
  <1>2. LatestOrGap'
    BY DEF LatestInv, LatestOrGap, Turns
  <1>3. QED
    BY <1>1, <1>2 DEF LatestInv

\* Saving keeps the invariant: clearing takes the flag from every iteration of the
\* session, and notes a save that is there already.
LEMMA SaveLatest ==
  ASSUME MemoryInv, LatestInv, NEW e \in Exchange, SaveStep(e)
  PROVE  LatestInv'
  <1> USE MemoryAssumption DEF MemoryInv, TypeOK
  <1>1. CASE ClearLatest(e)
    <2>1. /\ pc' = [pc EXCEPT ![e] = "iterate"]
          /\ \A f \in Exchange :
                 iteration'[f] = IF SessionOf[f] = SessionOf[e] /\ iteration[f] = "latest"
                                   THEN "superseded" ELSE iteration[f]
          /\ gaps' = gaps
      BY <1>1 DEF ClearLatest, Cleared
    <2>2. OneAtATime'
      <3>1. SUFFICES ASSUME NEW s \in Session, s \notin raced', NEW f \in Turns(s), NEW g \in Turns(s)
                     PROVE  /\ pc'[f] = "iterate" /\ pc'[g] = "iterate" => f = g
                            /\ pc'[f] = "iterate" => iteration'[g] # "latest"
                            /\ iteration'[f] = "latest" /\ iteration'[g] = "latest" => f = g
        BY DEF OneAtATime, Turns
      <3>2. s \notin raced /\ f \in Exchange /\ g \in Exchange /\ SessionOf[f] = s /\ SessionOf[g] = s
        BY <1>1, <3>1 DEF ClearLatest, Turns
      <3>3. CASE s = SessionOf[e]
        <4>1. \A h \in Turns(s) : pc[h] # "iterate"
          BY <1>1, <3>1, <3>3 DEF ClearLatest
        <4>2. QED
          BY <2>1, <3>2, <3>3, <4>1, <3>1
      <3>4. CASE s # SessionOf[e]
        BY <2>1, <3>1, <3>2, <3>4 DEF LatestInv, OneAtATime
      <3>5. QED
        BY <3>3, <3>4
    <2>3. LatestOrGap'
      BY <2>1 DEF LatestInv, LatestOrGap, Turns
    <2>4. QED
      BY <2>2, <2>3 DEF LatestInv
  <1>2. CASE InsertIteration(e)
    <2>1. /\ pc[e] = "iterate"
          /\ pc' = [pc EXCEPT ![e] = "schedule"]
          /\ iteration' = [iteration EXCEPT ![e] = "latest"]
          /\ gaps' = gaps /\ raced' = raced
      BY <1>2 DEF InsertIteration
    <2>2. OneAtATime'
      BY <2>1 DEF LatestInv, OneAtATime, Turns
    <2>3. LatestOrGap'
      BY <2>1 DEF LatestInv, LatestOrGap, Turns
    <2>4. QED
      BY <2>2, <2>3 DEF LatestInv
  <1>3. CASE ~ (ClearLatest(e) \/ InsertIteration(e))
    <2>1. UNCHANGED <<iteration, raced>> /\ gaps \subseteq gaps'
      BY <1>3 DEF SaveStep, Open, InsertExchange, RecordUsage, QueueOutput, IterationFails,
                  SaveFails, Schedule
    <2>2. \A f \in Exchange : pc'[f] = "iterate" => pc[f] = "iterate"
      BY <1>3 DEF SaveStep, Open, InsertExchange, RecordUsage, QueueOutput, IterationFails,
                  SaveFails, Schedule
    <2>3. \A f \in Exchange : pc[f] = "iterate" => pc'[f] = "iterate" \/ f \in gaps'
      BY <1>3 DEF SaveStep, Open, InsertExchange, RecordUsage, QueueOutput, IterationFails,
                  SaveFails, Schedule
    <2>4. QED
      BY <2>1, <2>2, <2>3, LatestFrame
  <1>4. QED
    BY <1>1, <1>2, <1>3

\* Every step keeps the invariant.
LEMMA LatestStep ==
  ASSUME MemoryInv, LatestInv, [Next]_vars
  PROVE  LatestInv'
  <1>1. ASSUME NEW e \in Exchange, SaveStep(e)
        PROVE  LatestInv'
    BY <1>1, SaveLatest
  <1>2. CASE Restart
    <2>1. /\ UNCHANGED <<iteration, raced>> /\ gaps \subseteq gaps'
          /\ \A e \in Exchange : pc'[e] = "iterate" => pc[e] = "iterate"
          /\ \A e \in Exchange : pc[e] = "iterate" => e \in gaps'
      BY <1>2 DEF Restart
    <2>2. QED
      BY <2>1, LatestFrame
  <1>3. CASE UNCHANGED saveVars
    BY <1>3, LatestFrame DEF saveVars
  <1>4. CASE Background
    <2>1. UNCHANGED memoryVars
      BY <1>4 DEF Background, Take, ReadPending, TurnStep, Embed, TurnFails, StoreChunks,
                  MarkChunked, MarkFails
    <2>2. QED
      BY <1>3, <2>1 DEF memoryVars
  <1>5. ASSUME NEW p \in Processor, OutputStep(p)
        PROVE  LatestInv'
    <2>1. UNCHANGED outputRest
      BY <1>5 DEF OutputStep, ClaimOutput, FindDuplicate, InsertDocument, InsertRefused,
             InsertTree, TreeFails, Rollback, RollbackFails, RejectOutput, FailOutput,
             CompleteOutput, LinkOutput, ActivateOutput, Stop
    <2>2. QED
      BY <1>3, <2>1 DEF outputRest
  <1>6. CASE UNCHANGED vars
    BY <1>3, <1>6 DEF vars
  <1>7. QED
    BY <1>1, <1>2, <1>4, <1>5, <1>6 DEF Next

\* Two latest iterations of a session show that it was raced.
LEMMA LatestCounted == LatestInv => OneIsLatest
  <1> SUFFICES ASSUME LatestInv, NEW s \in Session
               PROVE  LET latest == {e \in Turns(s) : iteration[e] = "latest"} IN
                      /\ \/ \A e \in Turns(s) : iteration[e] = "none"
                         \/ latest # {}
                         \/ \E e \in Turns(s) : pc[e] = "iterate" \/ e \in gaps
                      /\ Cardinality(latest) > 1 => s \in raced
    BY DEF OneIsLatest
  <1> DEFINE latest == {e \in Turns(s) : iteration[e] = "latest"}
  <1>1. \/ \A e \in Turns(s) : iteration[e] = "none"
        \/ latest # {}
        \/ \E e \in Turns(s) : pc[e] = "iterate" \/ e \in gaps
    BY DEF LatestInv, LatestOrGap
  <1>2. ASSUME s \notin raced
        PROVE  Cardinality(latest) <= 1
    <2>1. \A e, f \in latest : e = f
      BY <1>2 DEF LatestInv, OneAtATime
    <2> HIDE DEF latest
    <2>2. CASE latest = {}
      BY <2>2, FS_EmptySet
    <2>3. CASE latest # {}
      <3>1. PICK e \in latest : TRUE
        BY <2>3
      <3>2. latest = {e}
        BY <2>1, <3>1
      <3>3. QED
        BY <3>2, FS_Singleton
    <2>4. QED
      BY <2>2, <2>3
  <1>3. ASSUME Cardinality(latest) > 1
        PROVE  s \in raced
    <2>1. SUFFICES ASSUME s \notin raced
                   PROVE  FALSE
      OBVIOUS
    <2>2. Cardinality(latest) <= 1
      BY <1>2, <2>1
    <2>3. Cardinality(latest) \in Nat
      <3>1. IsFiniteSet(Exchange)
        BY MemoryAssumption, FS_Interval DEF Exchange
      <3>2. latest \subseteq Exchange
        BY DEF Turns
      <3>3. QED
        BY <3>1, <3>2, FS_Subset, FS_CardinalityType
    <2>4. QED
      BY <1>3, <2>2, <2>3
  <1>4. QED
    BY <1>1, <1>3

\* A session with prompt iterations has a latest one, unless a save is between clearing
\* the old one and inserting its own or was cut off there; it has one only, unless two
\* saves of the session were there at once.
THEOREM LatestIsKept == Spec => []OneIsLatest
  <1>1. MemoryInv /\ LatestInv /\ [Next]_vars => LatestInv'
    BY LatestStep
  <1>2. MemoryInv /\ OutputInv => MemoryInv
    OBVIOUS
  <1>3. QED
    BY LatestInit, LatestCounted, <1>1, <1>2, MemoryInvariant, PTL DEF Spec

===============================================================================

-------------------------- MODULE AnswerPipelineProofs --------------------------
(***************************************************************************)
(* Theorems about AnswerPipeline, with DeepRetrieval and MemoryAgent, for  *)
(* any corpus, model decisions, requests, plans and bounds: the types,     *)
(* that an execution stores one exchange, that its process run tells what  *)
(* came of it, that prompts are honest about their evidence, and that the  *)
(* two loops driven by a model keep to their rules.                        *)
(***************************************************************************)
EXTENDS AnswerPipeline, FiniteSetTheorems, SequenceTheorems, WellFoundedInduction, TLAPS

(* Types *)

Pcs == {"step", "stepped", "retrieve", "direct", "agentic", "deep", "packing", "bundle",
        "envelope", "synthesize", "repacking", "ask", "save", "saved", "done", "down"}

ToolResults == [tool : Tool, ok : {"ok", "failed"}, top : Nat, included : SUBSET Node]
Fallbacks ==
    {None, "memory_agent_decision_failed", "memory_agent_returned_no_initial_tool_calls"}
Notes == [fallback : Fallbacks, ran : {"yes", "no"}]

ToolCalls == Seq(ToolCall)
ResultLists == Seq(ToolResults)
NoteLists == Seq(Notes)
Claimed == {None} \cup ContextAction
AgentPlaces == {"idle", "deciding", "calling", "stopped"}
AgentStops ==
    {None, "memory_agent_failed_after_tool_context", "done", "iterations",
     "fallback_context_gathered", "fallback_context_unavailable"}

Agents ==
    [at : AgentPlaces, turn : Nat, todo : ToolCalls, results : ResultLists,
     fallback : Fallbacks, done : Nat, log : NoteLists, claim : Claimed, stop : AgentStops]

NodeLists == Seq(Node)
RoundLists == Seq([new : Nat, total : Nat])
ScoreLists == Seq(Nat)
DeepPlaces == {"idle", "planning", "scoring", "stopped"}
DeepStops ==
    {None, "planner_stop", "repeated_invalid_plans", "max_iterations", "no_new_candidates",
     "low_novelty", "sufficiency_high", "sufficiency_plateau"}

Deeps ==
    [at : DeepPlaces, loops : Nat, invalid : Nat, seen : SUBSET Node, triaged : NodeLists,
     useful : NodeLists, rounds : RoundLists, scores : ScoreLists, stop : DeepStops]

YesNo == {"yes", "no"}

\* A chunk in a prompt, whole or cut: it shows no more text than its node has.
Chunks == {c \in [node : Node, text : Nat, cut : YesNo] : c.text <= Text[c.node]}
ChunkLists == Seq(Chunks)
Packs ==
    [todo : ChunkLists, kept : ChunkLists, skipped : SUBSET Node, plan : BudgetPlan,
     overhead : Nat, chars : Nat, tokens : Nat]

Modes == {None, "direct", "agentic", "deep"}
Contexts ==
    {None, "matched_context", "missing_context", "active_document_source_fallback",
     "no_focus_node", "agentic_tool_context", "agentic_web_context",
     "agentic_no_tool_context", "deep_context", "deep_no_context"}
Actions ==
    {None, "use_active_document_source_excerpt", "skip_weak_or_missing_repository_context"}
        \cup ContextAction

Packages ==
    [mode : Modes, run : Nat, selected : Nat, status : Contexts, action : Actions,
     included : SUBSET Node, deep : YesNo, useful : ChunkLists, skipped : SUBSET Node,
     all : SUBSET Node]

Outcomes == {None, "completed", "blocked", "skipped"}
Works ==
    [step : Nat \ {0}, tries : Nat, package : Packages, answer : Replies,
     bundle : ResultLists, retrieved : YesNo, draft : Packages, outcome : Outcomes,
     reason : Reasons]

Run == [status : {"active", "blocked", "completed"}, exchange : Nat]
Exchange == [run : Nat, life : Nat]

Types ==
    /\ setting \in Setting /\ pc \in Pcs /\ nodes \subseteq Node
    /\ agent \in Agents /\ deep \in Deeps /\ pack \in Packs
    /\ active \in Seq(Document)
    /\ runs \in Seq(Run) /\ exchanges \in Seq(Exchange)
    /\ work \in Works /\ saved \in Works /\ reply \in Replies
    /\ crashes \in 0 .. MaxCrashes /\ forgotten \in Nat
    /\ abandoned \in SUBSET Nat

(* The two loops *)

\* Whoever decides has no log, or results; whoever calls has results or calls to come.
AgentInv ==
    /\ agent.at = "deciding" => agent.log = <<>> \/ agent.results # <<>>
    /\ agent.at = "calling" => agent.todo # <<>> \/ agent.results # <<>>
    /\ FallbackFirst

\* Each turn of the loop was an invalid plan or a round, and there are too few of both
\* for the cap.
DeepInv ==
    /\ deep.at = "planning" => /\ Len(deep.rounds) < MaxDeep
                               /\ deep.loops = 1 + deep.invalid + Len(deep.rounds)
    /\ deep.at = "scoring" => /\ deep.rounds # <<>> /\ Len(deep.rounds) <= MaxDeep
                              /\ deep.loops = deep.invalid + Len(deep.rounds)
    /\ deep.at \in {"planning", "scoring"} => deep.invalid <= MaxDeep
    /\ Members(deep.triaged) \subseteq deep.seen
    /\ IsInjective(deep.useful)
    /\ StopIsNamed

(* The packing and the packages *)

Distinct(chunks) == \A i, j \in DOMAIN chunks : chunks[i].node = chunks[j].node => i = j

\* What was found useful is listed once: as a chunk or as left out.
Accounted(package) ==
    /\ Distinct(package.useful)
    /\ NodesOf(package.useful) \cup package.skipped = package.all
    /\ NodesOf(package.useful) \cap package.skipped = {}

Claims(package) ==
    package.action = "use_repository_context"
        /\ package.status \notin {"matched_context", "missing_context"} =>
        package.included # {}

\* A draft says what the context is for only when the retrieval ends.
PackageInv ==
    /\ \A p \in {work.draft, work.package, saved.package} : Accounted(p) /\ Claims(p)
    /\ pc \in {"direct", "agentic", "deep", "packing", "envelope"} => work.draft.action = None
    /\ saved.draft = NoPackage

ToPack == IF pc = "packing" THEN Members(deep.useful) ELSE NodesOf(work.draft.useful)
Overhead == IF pc = "packing" THEN setting.overhead ELSE setting.withHistory

\* What a prompt may be of: all that it holds was measured, or is one cut chunk.
Measured(plan, overhead, kept) ==
    KeepsBudgets(plan, overhead, kept) \/ IsCutToFit(plan, overhead, kept)

\* What is packed is in the prompt so far, left out, or still to come.
PackInv ==
    /\ pc \in {"packing", "repacking"} =>
        /\ NodesOf(pack.kept) \cup pack.skipped \cup NodesOf(pack.todo) = ToPack
        /\ Distinct(pack.kept) /\ Distinct(pack.todo)
        /\ NodesOf(pack.kept) \cap NodesOf(pack.todo) = {}
        /\ pack.skipped \cap (NodesOf(pack.kept) \cup NodesOf(pack.todo)) = {}
        /\ pack.plan = setting.budget /\ pack.overhead = Overhead
        /\ pack.chars = Chars(pack.kept)
        /\ pack.tokens = Overhead + Tokens(setting.budget, pack.kept)
        /\ Measured(setting.budget, Overhead, pack.kept)
    /\ pc = "repacking" => IsDeep(work.draft)
    /\ LeftOutIsListed

(* The plan and its answer *)

RetrievalPcs == {"retrieve", "direct", "agentic", "deep", "packing"}
AnswerPcs == {"bundle", "envelope", "synthesize", "repacking", "ask", "save"}

\* A phase that is under way is that of the step the plan is at.
PlanInv ==
    /\ pc \in {"step", "stepped", "bundle", "envelope"} => Planned
    /\ Planned /\ pc \in RetrievalPcs \cup AnswerPcs \cup {"saved", "stepped"} => ~PlanOver
    /\ Planned /\ pc \in RetrievalPcs => PlanStep.kind = "retrieve" /\ work.retrieved = "no"
    /\ Planned /\ pc \in AnswerPcs \cup {"saved"} => PlanStep.kind = "answer"
    /\ \A w \in {work, saved} : w.retrieved = "no" => w.package = NoPackage
    /\ ~Planned => /\ work.answer = NoReply /\ saved.answer = NoReply
                   /\ work.retrieved = "no"
    /\ pc = "down" => work = NoWork /\ crashes # 0

Stored == \E i \in DOMAIN exchanges : exchanges[i].life = crashes

\* This life's exchange is the last word of its execution: an answer is asked for only
\* while there is none, and none that is kept is lost.
OnceInv ==
    /\ Len(exchanges) <= forgotten + (IF Stored \/ saved.answer # NoReply THEN 1 ELSE 0)
    /\ \A i \in DOMAIN exchanges : exchanges[i].life <= crashes
    /\ Stored => pc \in {"saved", "done"} \/ work.answer # NoReply
    /\ pc \in AnswerPcs \cup {"saved"} => work.answer = NoReply
    /\ saved.answer # NoReply => pc = "down" \/ work.answer # NoReply
    /\ pc = "saved" => exchanges # <<>> /\ exchanges[Len(exchanges)].run = work.draft.run

(* The process runs *)

DraftPcs == (RetrievalPcs \ {"retrieve"}) \cup (AnswerPcs \ {"bundle"}) \cup {"saved"}

\* The run that an answer names says what the answer says.
Told(answer) ==
    answer.run # 0 /\ ~May("noupdate") =>
        runs[answer.run] = [status |-> IF answer.ok = "yes" THEN "completed" ELSE "blocked",
                            exchange |-> answer.exchange]

\* A phase at work has a run of its own, which no answer that is kept names.
RunInv ==
    /\ \A i \in DOMAIN exchanges : exchanges[i].run <= Len(runs)
    /\ \A r \in DOMAIN runs : runs[r].exchange <= Len(exchanges)
    /\ \A w \in {work, saved} : /\ w.package.run <= Len(runs) /\ w.draft.run <= Len(runs)
                                /\ w.answer.run <= Len(runs) /\ Told(w.answer)
    /\ reply.run <= Len(runs) /\ Told(reply)
    /\ pc # "done" => reply = NoReply
    /\ pc \in DraftPcs /\ work.draft.run # 0 =>
           work.answer.run # work.draft.run /\ saved.answer.run # work.draft.run
    /\ \A r \in DOMAIN runs :
           runs[r].status = "completed" => /\ runs[r].exchange # 0
                                           /\ exchanges[runs[r].exchange].run = r

\* Where nothing dies and nothing is refused, an active run is that of the phase at
\* work or of the package that waits for its answer, or an exception went past it.
OpenInv ==
    crashes = 0 /\ ~May("noupdate") =>
        \A r \in DOMAIN runs : runs[r].status = "active" =>
            \/ pc \in DraftPcs /\ r = work.draft.run
            \/ r = work.package.run
            \/ r \in abandoned

AsksDeep == Mode(setting.mode) = "deep"

\* Exceptions go past the runs of deep requests, and of plans that gather a bundle.
AbandonInv ==
    /\ \A r \in abandoned : r # 0 /\ r <= Len(runs)
    /\ abandoned # {} => May("raise") /\ (AsksDeep \/ Gathers)
    /\ pc \in {"deep", "packing"} => AsksDeep
    /\ pc \in {"bundle", "envelope"} => Gathers
    /\ \A w \in {work, saved} : /\ IsDeep(w.draft) \/ IsDeep(w.package) => AsksDeep
                                /\ w.bundle # <<>> => Gathers

Inv ==
    /\ Types /\ AgentInv /\ DeepInv /\ PackageInv /\ PackInv
    /\ PlanInv /\ OnceInv /\ RunInv /\ OpenInv /\ AbandonInv

(* Lists *)

\* A set of naturals that is not empty has a least member.
LEMMA LeastExists ==
  ASSUME NEW T \in SUBSET Nat, T # {}
  PROVE  \E m \in T : \A n \in T : m <= n
  <1> DEFINE Less == OpToRel(<, Nat)
  <1>1. IsWellFoundedOn(Less, Nat)
    BY NatLessThanWellFounded
  <1>2. \A x, y \in Nat : y < x => <<y, x>> \in Less
    BY DEF OpToRel
  <1> HIDE DEF Less
  <1>3. PICK m \in T : \A n \in T : <<n, m>> \notin Less
    BY <1>1, WFMin
  <1>4. ASSUME NEW n \in T
        PROVE  m <= n
    <2>1. n \in Nat /\ m \in Nat
      OBVIOUS
    <2>2. ~ (n < m)
      BY <1>2, <1>3, <2>1
    <2>3. QED
      BY <2>1, <2>2
  <1>5. QED
    BY <1>4

\* The places S of a list, in order: the k-th is the one that k of them are up to.
Rank(S, i) == Cardinality({j \in S : j <= i})
Nth(S, k) == CHOOSE i \in S : Rank(S, i) = k

\* Ranks are numbers up to the number of places, and grow with the places.
LEMMA RankType ==
  ASSUME NEW n \in Nat, NEW S \in SUBSET (1 .. n)
  PROVE  /\ IsFiniteSet(S) /\ Cardinality(S) \in Nat
         /\ \A i \in S : Rank(S, i) \in 1 .. Cardinality(S)
         /\ \A i, j \in S : i < j => Rank(S, i) < Rank(S, j)
  <1>1. IsFiniteSet(S) /\ Cardinality(S) \in Nat
    BY FS_Interval, FS_Subset, FS_CardinalityType, n \in Int, 1 \in Int
  <1>2. ASSUME NEW T \in SUBSET S
        PROVE  IsFiniteSet(T) /\ Cardinality(T) \in Nat /\ Cardinality(T) <= Cardinality(S)
    BY <1>1, FS_Subset, FS_CardinalityType
  <1>3. ASSUME NEW i \in S
        PROVE  Rank(S, i) \in 1 .. Cardinality(S)
    <2> DEFINE T == {j \in S : j <= i}
    <2>1. i \in T
      OBVIOUS
    <2>2. Cardinality(T) # 0
      BY <1>2, <2>1, FS_EmptySet
    <2>3. T \in SUBSET S
      OBVIOUS
    <2>4. Cardinality(T) \in Nat /\ Cardinality(T) <= Cardinality(S)
      BY <1>2, <2>3
    <2>5. QED
      BY <1>1, <2>2, <2>4 DEF Rank
  <1>4. ASSUME NEW i \in S, NEW j \in S, i < j
        PROVE  Rank(S, i) < Rank(S, j)
    <2> DEFINE T == {m \in S : m <= i}
               U == {m \in S : m <= j}
    <2>1. T \in SUBSET U /\ T # U
      <3>1. \A m \in S : m \in Nat
        OBVIOUS
      <3>2. j \in U /\ j \notin T
        BY <1>4, <3>1
      <3>3. \A m \in T : m \in U
        BY <1>4, <3>1
      <3>4. QED
        BY <3>2, <3>3
    <2>2. IsFiniteSet(U)
      BY <1>2
    <2>3. Cardinality(T) <= Cardinality(U) /\ (Cardinality(T) = Cardinality(U) => T = U)
      BY <2>1, <2>2, FS_Subset
    <2>4. Cardinality(T) \in Nat /\ Cardinality(U) \in Nat
      BY <1>2
    <2>5. QED
      BY <2>1, <2>3, <2>4 DEF Rank
  <1>5. QED
    BY <1>1, <1>3, <1>4

\* Every place has a number and every number a place.
LEMMA NthIsThere ==
  ASSUME NEW n \in Nat, NEW S \in SUBSET (1 .. n)
  PROVE  /\ Cardinality(S) \in Nat
         /\ \A k \in 1 .. Cardinality(S) : Nth(S, k) \in S /\ Rank(S, Nth(S, k)) = k
         /\ \A i \in S : Rank(S, i) \in 1 .. Cardinality(S) /\ Nth(S, Rank(S, i)) = i
  <1> DEFINE c == Cardinality(S)
             f == [i \in S |-> Rank(S, i)]
  <1>1. /\ IsFiniteSet(S) /\ c \in Nat
        /\ \A i \in S : Rank(S, i) \in 1 .. c
        /\ \A i, j \in S : i < j => Rank(S, i) < Rank(S, j)
    BY RankType
  <1>2. \A i, j \in S : Rank(S, i) = Rank(S, j) => i = j
    <2>1. TAKE i, j \in S
    <2>2. i \in Nat /\ j \in Nat /\ Rank(S, i) \in Nat /\ Rank(S, j) \in Nat
      BY <1>1
    <2>3. QED
      BY <1>1, <2>2
  <1>3. IsFiniteSet(1 .. c) /\ Cardinality(1 .. c) = c
    BY <1>1, FS_Interval, c \in Int, 1 \in Int
  <1>4. f \in Injection(S, 1 .. c)
    <2>1. f \in [S -> 1 .. c]
      BY <1>1
    <2>2. IsInjective(f)
      BY <1>2 DEF IsInjective
    <2>3. QED
      BY <2>1, <2>2 DEF Injection
  <1>5. f \in Surjection(S, 1 .. c)
    <2> HIDE DEF f
    <2>1. QED
      BY <1>3, <1>4, FS_Injection
  <1>6. \A k \in 1 .. c : \E i \in S : Rank(S, i) = k
    BY <1>5 DEF Surjection
  <1>7. \A k \in 1 .. c : Nth(S, k) \in S /\ Rank(S, Nth(S, k)) = k
    BY <1>6 DEF Nth
  <1>8. \A i \in S : Nth(S, Rank(S, i)) = i
    BY <1>1, <1>2, <1>7
  <1>9. QED
    BY <1>1, <1>7, <1>8

\* A function on an initial interval is a list.
LEMMA FunctionIsList ==
  ASSUME NEW T, NEW n \in Nat, NEW f \in [1 .. n -> T]
  PROVE  f \in Seq(T) /\ Len(f) = n /\ DOMAIN f = 1 .. n
  <1>1. f \in Seq(T)
    BY SeqDef
  <1>2. DOMAIN f = 1 .. n /\ DOMAIN f = 1 .. Len(f) /\ Len(f) \in Nat
    BY <1>1, LenProperties
  <1>3. QED
    BY <1>1, <1>2

\* The members of a list at some of its places, in the order of the list.
At(s, S) == [k \in 1 .. Cardinality(S) |-> s[Nth(S, k)]]

\* Such a choice of members is a list of just them, and injective if they are distinct.
LEMMA AtType ==
  ASSUME NEW T, NEW s \in Seq(T), NEW S \in SUBSET DOMAIN s
  PROVE  /\ At(s, S) \in Seq({s[i] : i \in S})
         /\ At(s, S) \in Seq(T) /\ Len(At(s, S)) = Cardinality(S)
         /\ Members(At(s, S)) = {s[i] : i \in S}
         /\ (\A i, j \in S : s[i] = s[j] => i = j) => IsInjective(At(s, S))
  <1>1. Len(s) \in Nat /\ DOMAIN s = 1 .. Len(s) /\ \A i \in DOMAIN s : s[i] \in T
    OBVIOUS
  <1>2. /\ Cardinality(S) \in Nat
        /\ \A k \in 1 .. Cardinality(S) : Nth(S, k) \in S /\ Rank(S, Nth(S, k)) = k
        /\ \A i \in S : Rank(S, i) \in 1 .. Cardinality(S) /\ Nth(S, Rank(S, i)) = i
    BY <1>1, NthIsThere
  <1> DEFINE a == At(s, S)
             c == Cardinality(S)
  <1>3. DOMAIN a = 1 .. c /\ \A k \in 1 .. c : a[k] = s[Nth(S, k)]
    BY DEF At
  <1>4. a \in [1 .. c -> {s[i] : i \in S}] /\ a \in [1 .. c -> T]
    <2>1. \A k \in 1 .. c : s[Nth(S, k)] \in {s[i] : i \in S} /\ s[Nth(S, k)] \in T
      BY <1>1, <1>2
    <2>2. QED
      BY <2>1 DEF At
  <1>5. a \in Seq({s[i] : i \in S}) /\ a \in Seq(T) /\ Len(a) = c
    <2> HIDE DEF a
    <2>1. QED
      BY <1>2, <1>4, FunctionIsList
  <1>6. Members(a) = {s[i] : i \in S}
    <2>1. \A i \in S : a[Rank(S, i)] = s[i] /\ Rank(S, i) \in DOMAIN a
      BY <1>2, <1>3
    <2>2. \A k \in DOMAIN a : a[k] \in {s[i] : i \in S}
      BY <1>2, <1>3
    <2> HIDE DEF a
    <2>3. QED
      BY <2>1, <2>2 DEF Members
  <1>7. ASSUME \A i, j \in S : s[i] = s[j] => i = j
        PROVE  IsInjective(a)
    <2>1. ASSUME NEW k \in DOMAIN a, NEW l \in DOMAIN a, a[k] = a[l]
          PROVE  k = l
      <3>1. Nth(S, k) = Nth(S, l)
        BY <1>2, <1>3, <1>7, <2>1
      <3>2. QED
        BY <1>2, <1>3, <2>1, <3>1
    <2>2. QED
      BY <2>1 DEF IsInjective
  <1>8. QED
    BY <1>5, <1>6, <1>7

\* filter_new returns what is new, each node once.
LEMMA FilterNewRight ==
  ASSUME NEW found \in Seq(Node), NEW seen
  PROVE  /\ FilterNew(found, seen) \in Seq(Node)
         /\ IsInjective(FilterNew(found, seen))
         /\ Members(FilterNew(found, seen)) = Members(found) \ seen
  <1> DEFINE fresh == {i \in DOMAIN found :
                         found[i] \notin seen /\ \A j \in 1 .. i - 1 : found[j] # found[i]}
  <1>1. FilterNew(found, seen) = At(found, fresh)
    BY DEF FilterNew, At, Nth, Rank
  <1>2. Len(found) \in Nat /\ DOMAIN found = 1 .. Len(found)
    OBVIOUS
  <1>3. \A i, j \in fresh : found[i] = found[j] => i = j
    <2>1. TAKE i, j \in fresh
    <2>2. i \in 1 .. Len(found) /\ j \in 1 .. Len(found)
      BY <1>2
    <2>3. \A m \in fresh : \A k \in 1 .. m - 1 : found[k] # found[m]
      OBVIOUS
    <2>4. i < j => i \in 1 .. j - 1
      BY <1>2, <2>2
    <2>5. j < i => j \in 1 .. i - 1
      BY <1>2, <2>2
    <2>6. QED
      BY <1>2, <2>2, <2>3, <2>4, <2>5
  <1>4. {found[i] : i \in fresh} = Members(found) \ seen
    <2>1. ASSUME NEW x \in Members(found) \ seen
          PROVE  x \in {found[i] : i \in fresh}
      <3> DEFINE T == {i \in DOMAIN found : found[i] = x}
      <3>1. T \in SUBSET Nat /\ T # {}
        BY <1>2 DEF Members
      <3>2. PICK i \in T : \A j \in T : i <= j
        <4> HIDE DEF T
        <4>1. QED
          BY <3>1, LeastExists
      <3>3. i \in DOMAIN found /\ found[i] = x
        BY <3>2
      <3>4. \A j \in 1 .. i - 1 : found[j] # found[i]
        <4>1. ASSUME NEW j \in 1 .. i - 1
              PROVE  found[j] # found[i]
          <5>1. j \in DOMAIN found /\ j \in Nat /\ i \in Nat /\ j < i
            BY <1>2, <3>3
          <5>2. QED
            BY <3>2, <3>3, <5>1
        <4>2. QED
          BY <4>1
      <3>5. i \in fresh
        BY <2>1, <3>3, <3>4
      <3>6. QED
        BY <3>3, <3>5
    <2>2. \A i \in fresh : found[i] \in Members(found) \ seen
      BY DEF Members
    <2>3. QED
      BY <2>1, <2>2
  <1>5. fresh \in SUBSET DOMAIN found
    OBVIOUS
  <1> HIDE DEF fresh
  <1>6. At(found, fresh) \in Seq(Node)
    BY <1>5, AtType
  <1>7. Members(At(found, fresh)) = {found[i] : i \in fresh}
    BY <1>5, AtType
  <1>8. IsInjective(At(found, fresh))
    BY <1>3, <1>5, AtType
  <1>9. QED
    BY <1>1, <1>4, <1>6, <1>7, <1>8

\* The members of a list that are in keep, each as often as before.
LEMMA KeepingRight ==
  ASSUME NEW T, NEW s \in Seq(T), NEW keep
  PROVE  /\ Keeping(s, keep) \in Seq(T) /\ Keeping(s, keep) \in Seq(T \cap keep)
         /\ Members(Keeping(s, keep)) = Members(s) \cap keep
         /\ IsInjective(s) => IsInjective(Keeping(s, keep))
  <1> DEFINE at == {i \in DOMAIN s : s[i] \in keep}
  <1>1. Keeping(s, keep) = At(s, at)
    BY DEF Keeping, At, Nth, Rank
  <1>2. \A i \in DOMAIN s : s[i] \in T
    OBVIOUS
  <1>3. {s[i] : i \in at} = Members(s) \cap keep
    BY DEF Members
  <1>4. {s[i] : i \in at} \subseteq T \cap keep
    BY <1>2
  <1>5. IsInjective(s) => \A i, j \in at : s[i] = s[j] => i = j
    BY DEF IsInjective
  <1>6. at \in SUBSET DOMAIN s
    OBVIOUS
  <1> HIDE DEF at
  <1>7. At(s, at) \in Seq({s[i] : i \in at})
    BY <1>6, AtType
  <1>8. At(s, at) \in Seq(T \cap keep)
    BY <1>4, <1>7, SeqMonotonic
  <1>9. At(s, at) \in Seq(T)
    BY <1>6, AtType
  <1>10. Members(At(s, at)) = {s[i] : i \in at}
    BY <1>6, AtType
  <1>11. IsInjective(s) => IsInjective(At(s, at))
    BY <1>5, <1>6, AtType
  <1>12. QED
    BY <1>1, <1>3, <1>8, <1>9, <1>10, <1>11

\* The first k of a list.
LEMMA FirstOfRight ==
  ASSUME NEW T, NEW s \in Seq(T), NEW k \in Nat
  PROVE  /\ FirstOf(s, k) \in Seq(T)
         /\ Members(FirstOf(s, k)) \subseteq Members(s)
         /\ IsInjective(s) => IsInjective(FirstOf(s, k))
  <1> DEFINE n == Least(k, Len(s))
             f == FirstOf(s, k)
  <1>1. n \in 0 .. Len(s) /\ Len(s) \in Nat
    BY DEF Least
  <1>2. f \in Seq(T) /\ Len(f) = n /\ \A i \in 1 .. n : f[i] = s[i]
    BY <1>1 DEF FirstOf
  <1>3. DOMAIN f = 1 .. n /\ DOMAIN f \subseteq DOMAIN s
    BY <1>1, <1>2
  <1> HIDE DEF f, n
  <1>4. Members(f) \subseteq Members(s)
    BY <1>2, <1>3 DEF Members
  <1>5. IsInjective(s) => IsInjective(f)
    BY <1>2, <1>3 DEF IsInjective
  <1>6. QED
    BY <1>2, <1>4, <1>5 DEF f

\* Two lists one after the other.
LEMMA JoinedLists ==
  ASSUME NEW T, NEW s \in Seq(T), NEW t \in Seq(T)
  PROVE  /\ s \o t \in Seq(T)
         /\ Members(s \o t) = Members(s) \cup Members(t)
         /\ IsInjective(s) /\ IsInjective(t) /\ Members(s) \cap Members(t) = {} =>
                IsInjective(s \o t)
  <1> DEFINE m == Len(s)
             n == Len(t)
             u == s \o t
  <1>1. m \in Nat /\ n \in Nat /\ DOMAIN s = 1 .. m /\ DOMAIN t = 1 .. n
    OBVIOUS
  <1>2. /\ u \in Seq(T) /\ DOMAIN u = 1 .. m + n
        /\ \A i \in 1 .. m : u[i] = s[i]
        /\ \A i \in m + 1 .. m + n : u[i] = t[i - m]
    OBVIOUS
  <1>3. \A i \in 1 .. m + n : i \in 1 .. m \/ (i \in m + 1 .. m + n /\ i - m \in 1 .. n)
    BY <1>1
  <1>4. \A i \in 1 .. n : i + m \in m + 1 .. m + n /\ i + m \in 1 .. m + n /\ (i + m) - m = i
    BY <1>1
  <1>5. \A i \in 1 .. m : i \in 1 .. m + n
    BY <1>1
  <1>6. \A i \in 1 .. n : u[i + m] = t[i]
    BY <1>2, <1>4
  <1> HIDE DEF u, m, n
  <1>7. Members(u) = Members(s) \cup Members(t)
    <2>1. \A i \in DOMAIN u : u[i] \in Members(s) \cup Members(t)
      BY <1>1, <1>2, <1>3 DEF Members
    <2>2. \A i \in DOMAIN s : s[i] \in Members(u)
      BY <1>1, <1>2, <1>5 DEF Members
    <2>3. \A i \in DOMAIN t : t[i] \in Members(u)
      BY <1>1, <1>2, <1>4, <1>6 DEF Members
    <2>4. QED
      BY <2>1, <2>2, <2>3 DEF Members
  <1>8. ASSUME IsInjective(s), IsInjective(t), Members(s) \cap Members(t) = {}
        PROVE  IsInjective(u)
    <2>1. ASSUME NEW i \in 1 .. m + n, NEW j \in 1 .. m + n, u[i] = u[j]
          PROVE  i = j
      <3>1. \A k \in 1 .. m, l \in 1 .. n : s[k] # t[l]
        BY <1>1, <1>8 DEF Members
      <3>2. CASE i \in 1 .. m /\ j \in 1 .. m
        BY <1>1, <1>2, <1>8, <2>1, <3>2 DEF IsInjective
      <3>3. CASE i \in m + 1 .. m + n /\ j \in m + 1 .. m + n
        <4>1. i - m \in 1 .. n /\ j - m \in 1 .. n /\ t[i - m] = t[j - m]
          BY <1>1, <1>2, <2>1, <3>3
        <4>2. i - m = j - m
          BY <1>1, <1>8, <4>1 DEF IsInjective
        <4>3. QED
          BY <1>1, <4>2
      <3>4. CASE i \in 1 .. m /\ j \in m + 1 .. m + n
        BY <1>1, <1>2, <1>3, <2>1, <3>1, <3>4
      <3>5. CASE j \in 1 .. m /\ i \in m + 1 .. m + n
        BY <1>1, <1>2, <1>3, <2>1, <3>1, <3>5
      <3>6. QED
        BY <1>3, <3>2, <3>3, <3>4, <3>5
    <2>2. QED
      BY <1>2, <2>1 DEF IsInjective
  <1>9. QED
    BY <1>2, <1>7, <1>8 DEF u

\* add_useful keeps each node once.
LEMMA AddUsefulRight ==
  ASSUME NEW useful \in Seq(Node), NEW kept \in Seq(Node), IsInjective(useful), IsInjective(kept)
  PROVE  AddUseful(useful, kept) \in Seq(Node) /\ IsInjective(AddUseful(useful, kept))
  <1> DEFINE more == Keeping(kept, Members(kept) \ Members(useful))
  <1>1. /\ more \in Seq(Node) /\ IsInjective(more)
        /\ Members(more) = Members(kept) \cap (Members(kept) \ Members(useful))
    BY KeepingRight
  <1>2. Members(useful) \cap Members(more) = {}
    BY <1>1
  <1> HIDE DEF more
  <1>3. useful \o more \in Seq(Node) /\ IsInjective(useful \o more)
    BY <1>1, <1>2, JoinedLists
  <1>4. QED
    BY <1>3 DEF AddUseful, more

(* The size of a prompt *)

\* f sums up the first m numbers of a list.
SumsUp(s, m, f) ==
    /\ f \in [0 .. m -> Nat]
    /\ f[0] = 0
    /\ \A k \in 1 .. m : f[k] = f[k - 1] + s[k]

\* The numbers of a list can be summed up.
LEMMA SumExists ==
  ASSUME NEW s \in Seq(Nat)
  PROVE  \E f : SumsUp(s, Len(s), f)
  <1> DEFINE n == Len(s)
             T == {m \in 0 .. n : ~ \E f : SumsUp(s, m, f)}
  <1>1. n \in Nat /\ \A k \in 1 .. n : s[k] \in Nat
    OBVIOUS
  <1>2. ASSUME T # {}
        PROVE  FALSE
    <2>1. T \in SUBSET Nat
      BY <1>1
    <2>2. PICK m \in T : \A k \in T : m <= k
      <3> HIDE DEF T
      <3>1. QED
        BY <1>2, <2>1, LeastExists
    <2>3. m \in 0 .. n /\ ~ \E f : SumsUp(s, m, f)
      BY <2>2
    <2>4. SumsUp(s, 0, [k \in 0 .. 0 |-> 0])
      BY DEF SumsUp
    <2>5. m # 0
      BY <2>3, <2>4
    <2>6. m - 1 \in 0 .. n /\ ~ (m <= m - 1) /\ m \in 1 .. n
      BY <1>1, <2>3, <2>5
    <2>7. m - 1 \notin T
      BY <2>2, <2>6
    <2>8. PICK f : SumsUp(s, m - 1, f)
      BY <2>6, <2>7
    <2> DEFINE g == [k \in 0 .. m |-> IF k = m THEN f[m - 1] + s[m] ELSE f[k]]
    <2>9. f \in [0 .. m - 1 -> Nat] /\ f[0] = 0 /\ \A k \in 1 .. m - 1 : f[k] = f[k - 1] + s[k]
      BY <2>8 DEF SumsUp
    <2>10. m \in Nat /\ m - 1 \in 0 .. m - 1 /\ \A k \in 0 .. m : k # m => k \in 0 .. m - 1
      BY <1>1, <2>6
    <2>11. f[m - 1] \in Nat /\ s[m] \in Nat
      BY <1>1, <2>6, <2>9, <2>10
    <2>12. g \in [0 .. m -> Nat]
      BY <2>9, <2>10, <2>11
    <2>13. g[0] = 0
      BY <2>5, <2>9, <2>10
    <2>14. ASSUME NEW k \in 1 .. m
           PROVE  g[k] = g[k - 1] + s[k]
      <3>1. k \in 0 .. m /\ k - 1 \in 0 .. m /\ k - 1 # m /\ k - 1 \in 0 .. m - 1
        BY <2>10
      <3>2. g[k - 1] = f[k - 1]
        BY <3>1
      <3>3. CASE k = m
        BY <3>1, <3>2, <3>3
      <3>4. CASE k # m
        <4>1. k \in 1 .. m - 1 /\ g[k] = f[k]
          BY <2>10, <3>1, <3>4
        <4>2. QED
          BY <2>9, <3>2, <4>1
      <3>5. QED
        BY <3>3, <3>4
    <2>15. SumsUp(s, m, g)
      <3> HIDE DEF g
      <3>1. QED
        BY <2>12, <2>13, <2>14 DEF SumsUp
    <2>16. QED
      BY <2>3, <2>15
  <1>3. QED
    BY <1>1, <1>2

\* Two such sums agree on the whole.
LEMMA SumIsUnique ==
  ASSUME NEW s \in Seq(Nat), NEW f, NEW g, SumsUp(s, Len(s), f), SumsUp(s, Len(s), g)
  PROVE  f[Len(s)] = g[Len(s)]
  <1> DEFINE n == Len(s)
             T == {m \in 0 .. n : f[m] # g[m]}
  <1>1. n \in Nat /\ T \in SUBSET Nat
    OBVIOUS
  <1>2. ASSUME T # {}
        PROVE  FALSE
    <2>1. PICK m \in T : \A k \in T : m <= k
      <3> HIDE DEF T
      <3>1. QED
        BY <1>1, <1>2, LeastExists
    <2>2. m \in 0 .. n /\ f[m] # g[m]
      BY <2>1
    <2>3. m # 0
      BY <2>2 DEF SumsUp
    <2>4. m \in 1 .. n /\ m - 1 \in 0 .. n /\ ~ (m <= m - 1)
      BY <1>1, <2>2, <2>3
    <2>5. f[m - 1] = g[m - 1]
      BY <2>1, <2>4
    <2>6. f[m] = f[m - 1] + s[m] /\ g[m] = g[m - 1] + s[m]
      BY <2>4 DEF SumsUp
    <2>7. QED
      BY <2>2, <2>5, <2>6
  <1>3. QED
    BY <1>1, <1>2

\* The total of a list is what any such sum says.
LEMMA TotalIsSum ==
  ASSUME NEW s \in Seq(Nat), NEW f, SumsUp(s, Len(s), f)
  PROVE  Total(s) = f[Len(s)]
  <1> DEFINE n == Len(s)
             sum(g) == g = [k \in 0 .. n |-> IF k = 0 THEN 0 ELSE g[k - 1] + s[k]]
             c == CHOOSE g : sum(g)
  <1>1. n \in Nat /\ \A k \in 1 .. n : s[k] \in Nat
    OBVIOUS
  <1>2. Total(s) = c[n]
    BY DEF Total
  <1>3. f = [k \in 0 .. n |-> IF k = 0 THEN 0 ELSE f[k - 1] + s[k]]
    <2>1. f \in [0 .. n -> Nat] /\ f[0] = 0 /\ \A k \in 1 .. n : f[k] = f[k - 1] + s[k]
      BY DEF SumsUp
    <2>2. \A k \in 0 .. n : k = 0 \/ k \in 1 .. n
      BY <1>1
    <2> HIDE DEF n
    <2>3. QED
      BY <2>1, <2>2
  <1>4. sum(c)
    BY <1>3
  <1> HIDE DEF c
  <1>5. DOMAIN c = 0 .. n /\ c[0] = 0 /\ \A k \in 1 .. n : c[k] = c[k - 1] + s[k]
    <2>1. \A k \in 1 .. n : k \in 0 .. n /\ k # 0
      BY <1>1
    <2>2. 0 \in 0 .. n
      BY <1>1
    <2> HIDE DEF n
    <2>3. QED
      BY <1>4, <2>1, <2>2
  <1> DEFINE T == {m \in 0 .. n : c[m] \notin Nat}
  <1>6. T = {}
    <2>1. SUFFICES ASSUME T # {}
                   PROVE  FALSE
      OBVIOUS
    <2>2. PICK m \in T : \A k \in T : m <= k
      <3>1. T \in SUBSET Nat
        BY <1>1
      <3> HIDE DEF T
      <3>2. QED
        BY <2>1, <3>1, LeastExists
    <2>3. m \in 1 .. n /\ m - 1 \in 0 .. n /\ ~ (m <= m - 1)
      BY <1>1, <1>5, <2>2
    <2>4. c[m - 1] \in Nat
      BY <2>2, <2>3
    <2>5. c[m] = c[m - 1] + s[m] /\ s[m] \in Nat
      BY <1>1, <1>5, <2>3
    <2>6. c[m] \in Nat
      BY <2>4, <2>5
    <2>7. c[m] \notin Nat
      <3>1. m \in T
        BY <2>2
      <3>2. QED
        BY <3>1
    <2>8. QED
      BY <2>6, <2>7
  <1>7. c \in [0 .. n -> Nat]
    <2>1. c = [k \in 0 .. n |-> c[k]]
      BY <1>4, <1>5
    <2>2. QED
      BY <1>6, <2>1
  <1>8. SumsUp(s, n, c)
    BY <1>5, <1>7 DEF SumsUp
  <1>9. QED
    BY <1>2, <1>8, SumIsUnique

\* A total is a natural, and grows by the number that is appended.
LEMMA TotalRight ==
  /\ Total(<<>>) = 0
  /\ \A s \in Seq(Nat), x \in Nat : /\ Total(s) \in Nat
                                          /\ Total(Append(s, x)) = Total(s) + x
  <1>1. Total(<<>>) = 0
    <2>1. <<>> \in Seq(Nat) /\ Len(<<>>) = 0
      OBVIOUS
    <2>2. SumsUp(<<>>, 0, [k \in 0 .. 0 |-> 0])
      BY DEF SumsUp
    <2>3. Total(<<>>) = [k \in 0 .. 0 |-> 0][0]
      BY <2>1, <2>2, TotalIsSum
    <2>4. QED
      BY <2>3
  <1>2. ASSUME NEW s \in Seq(Nat), NEW x \in Nat
        PROVE  Total(s) \in Nat /\ Total(Append(s, x)) = Total(s) + x
    <2> DEFINE n == Len(s)
               t == Append(s, x)
    <2>1. /\ n \in Nat /\ t \in Seq(Nat) /\ Len(t) = n + 1
          /\ \A k \in 1 .. n : t[k] = s[k]
          /\ t[n + 1] = x /\ x \in Nat
      OBVIOUS
    <2>2. PICK f : SumsUp(s, n, f)
      BY SumExists
    <2>3. f \in [0 .. n -> Nat] /\ f[0] = 0 /\ \A k \in 1 .. n : f[k] = f[k - 1] + s[k]
      BY <2>2 DEF SumsUp
    <2>4. Total(s) = f[n] /\ f[n] \in Nat
      BY <2>1, <2>2, <2>3, TotalIsSum
    <2> DEFINE g == [k \in 0 .. n + 1 |-> IF k = n + 1 THEN f[n] + x ELSE f[k]]
    <2>5. \A k \in 0 .. n + 1 : k = n + 1 \/ (k \in 0 .. n /\ k # n + 1)
      BY <2>1
    <2>6. g \in [0 .. n + 1 -> Nat] /\ g[0] = 0 /\ g[n + 1] = f[n] + x
      BY <2>1, <2>3, <2>4, <2>5
    <2>7. ASSUME NEW k \in 1 .. n + 1
          PROVE  g[k] = g[k - 1] + t[k]
      <3>1. k \in 0 .. n + 1 /\ k - 1 \in 0 .. n /\ k - 1 \in 0 .. n + 1 /\ k - 1 # n + 1
        BY <2>1
      <3>2. g[k - 1] = f[k - 1]
        BY <3>1
      <3>3. CASE k = n + 1
        BY <2>1, <3>1, <3>2, <3>3
      <3>4. CASE k # n + 1
        <4>1. k \in 1 .. n /\ g[k] = f[k]
          BY <2>1, <3>1, <3>4
        <4>2. QED
          BY <2>1, <2>3, <3>2, <4>1
      <3>5. QED
        BY <3>3, <3>4
    <2>8. SumsUp(t, n + 1, g)
      <3> HIDE DEF g, t, n
      <3>1. QED
        BY <2>6, <2>7 DEF SumsUp
    <2>9. Total(t) = g[n + 1]
      <3> HIDE DEF g, t
      <3>1. QED
        BY <2>1, <2>8, TotalIsSum
    <2>10. QED
      BY <2>4, <2>6, <2>9
  <1>3. QED
    BY <1>1, <1>2

\* What a list of chunks measures, chunk by chunk.
LEMMA Sizes ==
  ASSUME NEW g \in [Chunks -> Nat], NEW s \in Seq(Chunks), NEW c \in Chunks
  PROVE  LET size(r) == Total([i \in DOMAIN r |-> g[r[i]]])
         IN  /\ size(<<>>) = 0 /\ size(s) \in Nat
             /\ size(Append(s, c)) = size(s) + g[c]
  <1> DEFINE sizes(r) == [i \in DOMAIN r |-> g[r[i]]]
             n == Len(s)
             t == Append(s, c)
  <1>1. sizes(<<>>) = <<>>
    <2>1. DOMAIN <<>> = {}
      OBVIOUS
    <2>2. QED
      BY <2>1
  <1>2. n \in Nat /\ DOMAIN s = 1 .. n /\ \A i \in 1 .. n : s[i] \in Chunks
    OBVIOUS
  <1>3. sizes(s) \in Seq(Nat) /\ Len(sizes(s)) = n
    <2>1. sizes(s) \in [1 .. n -> Nat]
      BY <1>2
    <2> HIDE DEF sizes, n
    <2>2. QED
      BY <1>2, <2>1, FunctionIsList
  <1>4. sizes(t) = Append(sizes(s), g[c])
    <2>1. /\ DOMAIN t = 1 .. n + 1 /\ t[n + 1] = c
          /\ \A i \in 1 .. n : t[i] = s[i]
      BY <1>2
    <2> HIDE DEF t
    <2>2. /\ DOMAIN sizes(t) = 1 .. n + 1 /\ sizes(t)[n + 1] = g[c]
          /\ \A i \in 1 .. n : sizes(t)[i] = sizes(s)[i]
      BY <1>2, <2>1
    <2>3. sizes(t) \in Seq(Nat) /\ Len(sizes(t)) = n + 1
      <3>1. \A i \in 1 .. n + 1 : t[i] \in Chunks
        BY <1>2, <2>1
      <3>2. sizes(t) \in [1 .. n + 1 -> Nat] /\ n + 1 \in Nat
        BY <1>2, <2>1, <3>1
      <3> HIDE DEF sizes, n
      <3>3. QED
        BY <3>2, FunctionIsList
    <2>4. g[c] \in Nat
      OBVIOUS
    <2> HIDE DEF sizes, n
    <2>5. /\ Append(sizes(s), g[c]) \in Seq(Nat) /\ Len(Append(sizes(s), g[c])) = n + 1
          /\ Append(sizes(s), g[c])[n + 1] = g[c]
          /\ \A i \in 1 .. n : Append(sizes(s), g[c])[i] = sizes(s)[i]
      BY <1>3, <2>4
    <2>6. \A i \in 1 .. n + 1 : i \in 1 .. n \/ i = n + 1
      BY <1>2
    <2> DEFINE u == Append(sizes(s), g[c])
    <2> HIDE DEF u
    <2>7. Len(u) = Len(sizes(t)) /\ \A i \in 1 .. Len(u) : u[i] = sizes(t)[i]
      BY <2>2, <2>3, <2>5, <2>6 DEF u
    <2>8. u \in Seq(Nat)
      BY <2>5 DEF u
    <2>9. u = sizes(t)
      BY <2>3, <2>7, <2>8, SeqEqual
    <2>10. QED
      BY <2>9 DEF u
  <1>5. g[c] \in Nat
    OBVIOUS
  <1> HIDE DEF sizes, t
  <1>6. QED
    BY <1>1, <1>3, <1>4, <1>5, TotalRight DEF sizes, t

\* A block measures a number of characters and a number of tokens.
LEMMA BlockType ==
  ASSUME NEW plan \in BudgetPlan, NEW c \in Chunks
  PROVE  BlockChars(c) \in Nat /\ BlockTokens(plan, c) \in Nat
  <1>1. /\ c.node \in Node /\ c.text \in Nat /\ c.text \in 0 .. Text[c.node]
        /\ Header[c.node] \in Nat /\ Encoded[c.node][c.text] \in Nat
    <2>1. c.node \in Node /\ c.text \in Nat /\ c.text <= Text[c.node]
      BY DEF Chunks
    <2>2. Text[c.node] \in Nat /\ Header[c.node] \in Nat
      BY <2>1, DeepAssumption
    <2>3. c.text \in 0 .. Text[c.node]
      BY <2>1, <2>2
    <2>4. Encoded[c.node][c.text] \in Nat
      BY <2>1, <2>3, DeepAssumption
    <2>5. QED
      BY <2>1, <2>2, <2>3, <2>4
  <1>2. BlockChars(c) \in Nat
    BY <1>1 DEF BlockChars
  <1>3. \A b \in Nat, k \in Nat \ {0} : (b + k) \div k \in Nat
    OBVIOUS
  <1>4. plan.ratio \in Nat \ {0}
    BY DEF BudgetPlan
  <1>5. QED
    BY <1>1, <1>2, <1>3, <1>4 DEF BlockTokens

\* An empty prompt has no size, and a chunk adds its own to it.
LEMMA PromptGrows ==
  ASSUME NEW plan \in BudgetPlan, NEW s \in Seq(Chunks), NEW c \in Chunks
  PROVE  /\ Chars(<<>>) = 0 /\ Tokens(plan, <<>>) = 0
         /\ Chars(s) \in Nat /\ Tokens(plan, s) \in Nat
         /\ Chars(Append(s, c)) = Chars(s) + BlockChars(c)
         /\ Tokens(plan, Append(s, c)) = Tokens(plan, s) + BlockTokens(plan, c)
  <1> DEFINE f == [x \in Chunks |-> BlockChars(x)]
             g == [x \in Chunks |-> BlockTokens(plan, x)]
  <1>1. f \in [Chunks -> Nat] /\ g \in [Chunks -> Nat]
    BY BlockType
  <1>2. ASSUME NEW r \in Seq(Chunks)
        PROVE  /\ [i \in DOMAIN r |-> BlockChars(r[i])] = [i \in DOMAIN r |-> f[r[i]]]
               /\ [i \in DOMAIN r |-> BlockTokens(plan, r[i])] = [i \in DOMAIN r |-> g[r[i]]]
    <2>1. \A i \in DOMAIN r : r[i] \in Chunks
      OBVIOUS
    <2>2. QED
      BY <2>1
  <1>3. /\ f[c] = BlockChars(c) /\ g[c] = BlockTokens(plan, c)
        /\ <<>> \in Seq(Chunks) /\ Append(s, c) \in Seq(Chunks)
    OBVIOUS
  <1> HIDE DEF f, g
  <1>4. /\ Total([i \in DOMAIN <<>> |-> f[<<>>[i]]]) = 0
        /\ Total([i \in DOMAIN s |-> f[s[i]]]) \in Nat
        /\ Total([i \in DOMAIN Append(s, c) |-> f[Append(s, c)[i]]])
             = Total([i \in DOMAIN s |-> f[s[i]]]) + f[c]
    BY <1>1, Sizes
  <1>5. /\ Total([i \in DOMAIN <<>> |-> g[<<>>[i]]]) = 0
        /\ Total([i \in DOMAIN s |-> g[s[i]]]) \in Nat
        /\ Total([i \in DOMAIN Append(s, c) |-> g[Append(s, c)[i]]])
             = Total([i \in DOMAIN s |-> g[s[i]]]) + g[c]
    BY <1>1, Sizes
  <1>6. \A r \in Seq(Chunks) : /\ Chars(r) = Total([i \in DOMAIN r |-> f[r[i]]])
                               /\ Tokens(plan, r) = Total([i \in DOMAIN r |-> g[r[i]]])
    BY <1>2 DEF Chars, Tokens
  <1>7. QED
    BY <1>3, <1>4, <1>5, <1>6

(* What the store answers *)

LEMMA AboveOrders ==
  ASSUME NEW q \in Query
  PROVE  /\ \A m \in Node : ~ Above(m, m, q)
         /\ \A l, m, n \in Node : Above(l, m, q) /\ Above(m, n, q) => Above(l, n, q)
  <1>1. \A n \in Node : n \in Nat /\ Corpus[n].score[q] \in Nat
    BY AgentAssumption
  <1>2. \A m \in Node : ~ Above(m, m, q)
    BY <1>1 DEF Above
  <1>3. ASSUME NEW l \in Node, NEW m \in Node, NEW n \in Node, Above(l, m, q), Above(m, n, q)
        PROVE  Above(l, n, q)
    <2> DEFINE x == Corpus[l].score[q]
               y == Corpus[m].score[q]
               z == Corpus[n].score[q]
    <2>1. x \in Nat /\ y \in Nat /\ z \in Nat /\ l \in Nat /\ m \in Nat /\ n \in Nat
      BY <1>1
    <2>2. x > y \/ (x = y /\ l < m)
      BY <1>3 DEF Above
    <2>3. y > z \/ (y = z /\ m < n)
      BY <1>3 DEF Above
    <2>4. x > z \/ (x = z /\ l < n)
      <3> HIDE DEF x, y, z
      <3>1. QED
        BY <2>1, <2>2, <2>3
    <2>5. QED
      BY <2>4 DEF Above
  <1>4. QED
    BY <1>2, <1>3

\* Some match is the best.
LEMMA TopIsThere ==
  ASSUME NEW found \in SUBSET Node, NEW q \in Query
  PROVE  Top(found, q) \in found \cup {0} /\ Top(found, q) \in Nat
  <1>1. ASSUME found # {}
        PROVE  Best(found, q, 1) # {}
    <2> DEFINE over(n) == {m \in found : Above(m, n, q)}
               T == {Cardinality(over(n)) : n \in found}
    <2>1. \A n \in found : IsFiniteSet(over(n)) /\ Cardinality(over(n)) \in Nat
      <3>1. \A n \in found : over(n) \in SUBSET Node
        OBVIOUS
      <3>2. QED
        BY <3>1, AgentAssumption, FS_Subset, FS_CardinalityType
    <2>2. PICK c \in T : \A d \in T : c <= d
      <3>1. T \in SUBSET Nat /\ T # {}
        BY <1>1, <2>1
      <3> HIDE DEF T
      <3>2. QED
        BY <3>1, LeastExists
    <2>3. PICK n \in found : c = Cardinality(over(n))
      BY <2>2
    <2>4. over(n) = {}
      <3>1. SUFFICES ASSUME NEW m \in over(n)
                     PROVE  FALSE
        OBVIOUS
      <3>2. m \in found /\ Above(m, n, q)
        OBVIOUS
      <3>3. over(m) \subseteq over(n) /\ over(m) # over(n)
        <4>1. \A l \in found : l \in Node
          OBVIOUS
        <4>2. \A l \in over(m) : l \in over(n)
          BY <3>2, <4>1, AboveOrders
        <4>3. m \notin over(m)
          BY <3>2, <4>1, AboveOrders
        <4>4. QED
          BY <3>1, <4>2, <4>3
      <3>4. Cardinality(over(m)) < Cardinality(over(n))
        <4>1. IsFiniteSet(over(n)) /\ Cardinality(over(m)) \in Nat /\ Cardinality(over(n)) \in Nat
          BY <2>1, <3>2
        <4>2. /\ Cardinality(over(m)) <= Cardinality(over(n))
              /\ Cardinality(over(m)) = Cardinality(over(n)) => over(m) = over(n)
          <5> HIDE DEF over
          <5>1. QED
            BY <3>3, <4>1, FS_Subset
        <4>3. QED
          BY <3>3, <4>1, <4>2
      <3>5. Cardinality(over(m)) \in T
        BY <3>2
      <3>6. c <= Cardinality(over(m)) /\ Cardinality(over(m)) \in Nat /\ Cardinality(over(n)) \in Nat
        BY <2>1, <2>2, <3>2, <3>5
      <3>7. QED
        BY <2>3, <3>4, <3>6
    <2>5. Cardinality({m \in found : Above(m, n, q)}) = 0
      BY <2>4, FS_EmptySet
    <2>6. n \in Best(found, q, 1)
      BY <2>5 DEF Best
    <2>7. QED
      BY <2>6
  <1>2. found # {} => Top(found, q) \in Best(found, q, 1)
    BY <1>1 DEF Top
  <1>3. Best(found, q, 1) \subseteq found
    BY DEF Best
  <1>4. found = {} => Top(found, q) = 0
    BY DEF Top
  <1>5. \A n \in Node : n \in Nat
    BY AgentAssumption
  <1>6. QED
    BY <1>2, <1>3, <1>4, <1>5

\* A compiled context is of nodes of the corpus, and not empty for one that is there.
LEMMA ContextType ==
  ASSUME Types
  PROVE  /\ \A n : CompileContext(n) \in SUBSET Node
         /\ \A n \in nodes : CompileContext(n) # {}
         /\ \A found, q : ContextsOf(found, q) \in SUBSET Node
  <1>1. \A n : CompileContext(n) \in SUBSET Node
    BY AgentAssumption DEF Types, CompileContext
  <1>2. \A n \in nodes : n \in CompileContext(n)
    BY AgentAssumption DEF Types, CompileContext
  <1>3. \A found, q : ContextsOf(found, q) \in SUBSET Node
    BY <1>1 DEF ContextsOf
  <1>4. QED
    BY <1>1, <1>2, <1>3

\* Whatever comes of a call is a result.
LEMMA ToolResultType ==
  ASSUME Types, NEW c \in ToolCall
  PROVE  ResultsOf(c) \subseteq ToolResults
  <1> DEFINE q == c.query
             found == SearchNodes(q, c.label, c.after)
             top == Top(found, q)
  <1>1. c.tool \in Tool /\ q \in Query /\ c.node \in Nat
    BY DEF ToolCall
  <1>2. found \in SUBSET Node
    BY DEF Types, SearchNodes, Best, Hits, FallbackHits, Searchable
  <1>3. top \in found \cup {0} /\ top \in Nat /\ ContextsOf(found, q) \in SUBSET Node
    <2> HIDE DEF found
    <2>1. QED
      BY <1>1, <1>2, TopIsThere, ContextType
  <1>4. CompileContext(c.node) \in SUBSET Node
    BY ContextType
  <1> HIDE DEF found, top
  <1>5. \A records \in SUBSET ContextsOf(found, q) : Shown(records, top) \in SUBSET Node
    BY <1>2, <1>3 DEF Shown
  <1>6. \A n \in Nat, included \in SUBSET Node, ok \in {"ok", "failed"} :
          Result(c.tool, ok, n, included) \in ToolResults
    BY <1>1 DEF Result, ToolResults
  <1>7. (IF c.node \in nodes THEN c.node ELSE 0) \in Nat /\ {} \in SUBSET Node /\ 0 \in Nat
    BY <1>1
  <1> DEFINE searched == {Result(c.tool, "ok", top, Shown(records, top)) :
                            records \in SUBSET ContextsOf(found, q)}
             compiled == {Result(c.tool, "ok", IF c.node \in nodes THEN c.node ELSE 0,
                                 CompileContext(c.node))}
             other == {Result(c.tool, "ok", 0, {})}
             failed == {Result(c.tool, "failed", 0, {})}
  <1>8. ResultsOf(c) =
          CASE c.tool = "search_nodes" -> searched
            [] c.tool = "compile_context" /\ c.node # 0 -> compiled
            [] c.tool \in {"get_document_tree", "web_search"} -> other
            [] OTHER -> failed
    BY DEF ResultsOf, found, top
  <1>9. searched \subseteq ToolResults
    BY <1>3, <1>5, <1>6
  <1>10. compiled \subseteq ToolResults /\ other \subseteq ToolResults /\ failed \subseteq ToolResults
    BY <1>4, <1>6, <1>7
  <1> HIDE DEF searched, compiled, other, failed
  <1>11. QED
    BY <1>8, <1>9, <1>10

\* A search for the query itself.
LEMMA SearchForType == SearchFor(Asked) \in ToolCall
  BY AgentAssumption DEF SearchFor, ToolCall, Tool, Label

\* A bounded set of naturals that is not empty has a greatest member.
LEMMA GreatestExists ==
  ASSUME NEW n \in Nat, NEW T \in SUBSET (1 .. n), T # {}
  PROVE  \E m \in T : \A i \in T : i <= m
  <1> DEFINE S == {n - i : i \in T}
  <1>1. \A i \in T : i \in Nat /\ n - i \in Nat
    OBVIOUS
  <1>2. S \in SUBSET Nat /\ S # {}
    BY <1>1
  <1>3. PICK s \in S : \A r \in S : s <= r
    <2> HIDE DEF S
    <2>1. QED
      BY <1>2, LeastExists
  <1>4. PICK m \in T : s = n - m
    BY <1>3
  <1>5. \A i \in T : n - m <= n - i
    BY <1>3, <1>4
  <1>6. QED
    BY <1>1, <1>5

\* The node that a granular step is about.
LEMMA FocusType ==
  ASSUME Types, NEW bundle \in Seq(ToolResults)
  PROVE  FocusOf(bundle) \in Nat
  <1> DEFINE compiled == {i \in DOMAIN bundle : bundle[i].tool = "compile_context"}
             from == IF compiled = {} THEN DOMAIN bundle ELSE compiled
  <1>1. Len(bundle) \in Nat /\ DOMAIN bundle = 1 .. Len(bundle) /\ from \in SUBSET (1 .. Len(bundle))
    OBVIOUS
  <1>2. \A i \in DOMAIN bundle : bundle[i].top \in Nat
    <2>1. \A i \in DOMAIN bundle : bundle[i] \in ToolResults
      OBVIOUS
    <2>2. \A r \in ToolResults : r.top \in Nat
      BY DEF ToolResults
    <2>3. QED
      BY <2>1, <2>2
  <1>3. setting.focus \in Nat
    BY PipelineAssumption DEF Types, Request
  <1> HIDE DEF from
  <1>4. ASSUME from # {}
        PROVE  (CHOOSE i \in from : \A j \in from : j <= i) \in from
    <2>1. \E i \in from : \A j \in from : j <= i
      BY <1>1, <1>4, GreatestExists
    <2>2. QED
      BY <2>1
  <1>5. FocusOf(bundle) =
          IF setting.focus # 0 THEN setting.focus
          ELSE IF from = {} THEN 0
          ELSE bundle[CHOOSE i \in from : \A j \in from : j <= i].top
    BY DEF FocusOf, from
  <1>6. QED
    BY <1>1, <1>2, <1>3, <1>4, <1>5

\* The node that the last search found best, or none.
LEMMA LastTopType ==
  ASSUME NEW bundle \in Seq(ToolResults)
  PROVE  LastTop(bundle) \in Nat
  <1> DEFINE tops == {i \in DOMAIN bundle : bundle[i].top # 0}
  <1>1. Len(bundle) \in Nat /\ DOMAIN bundle = 1 .. Len(bundle) /\ tops \in SUBSET (1 .. Len(bundle))
    OBVIOUS
  <1>2. \A i \in DOMAIN bundle : bundle[i].top \in Nat
    <2>1. \A i \in DOMAIN bundle : bundle[i] \in ToolResults
      OBVIOUS
    <2>2. \A r \in ToolResults : r.top \in Nat
      BY DEF ToolResults
    <2>3. QED
      BY <2>1, <2>2
  <1> HIDE DEF tops
  <1>3. ASSUME tops # {}
        PROVE  (CHOOSE i \in tops : \A j \in tops : j <= i) \in tops
    <2>1. \E i \in tops : \A j \in tops : j <= i
      BY <1>1, <1>3, GreatestExists
    <2>2. QED
      BY <2>1
  <1> DEFINE last == CHOOSE i \in tops : \A j \in tops : j <= i
  <1>4. LastTop(bundle) = IF tops = {} THEN 0 ELSE bundle[last].top
    BY DEF LastTop, tops
  <1>5. tops # {} => last \in DOMAIN bundle
    BY <1>1, <1>3
  <1> HIDE DEF last
  <1>6. QED
    BY <1>2, <1>4, <1>5

\* The node that direct retrieval selects, or none.
LEMMA SelectedType ==
  ASSUME Types
  PROVE  SelectedNode \in Nat
  <1>1. setting.focus \in Nat /\ active \in Seq(Document) /\ nodes \in SUBSET Node
    BY PipelineAssumption DEF Types, Request
  <1>2. \A label, doc : FocusMatches(label, doc) \in SUBSET Node
    BY <1>1 DEF FocusMatches
  <1>3. ASSUME NEW label, NEW doc
        PROVE  Top(FocusMatches(label, doc), Asked) \in Nat
    <2>1. FocusMatches(label, doc) \in SUBSET Node /\ Asked \in Query
      BY <1>2, AgentAssumption
    <2>2. QED
      BY <2>1, TopIsThere
  <1>4. SelectFocusNode \in Nat
    BY <1>3 DEF SelectFocusNode, Qualified
  <1>5. \A doc : MatchIn(doc) \in Nat
    BY <1>3 DEF MatchIn
  <1>6. ASSUME NEW doc
        PROVE  DefaultIn(doc) \in Nat
    <2> DEFINE all == {n \in nodes : Corpus[n].doc = doc}
               roots == {n \in all : Corpus[n].label = "source_root"}
    <2>1. all \in SUBSET Nat /\ roots \in SUBSET Nat
      BY <1>1, AgentAssumption
    <2> HIDE DEF all, roots
    <2>2. roots # {} => (CHOOSE n \in roots : \A m \in roots : n <= m) \in Nat
      BY <2>1, LeastExists
    <2>3. all # {} => (CHOOSE n \in all : \A m \in all : n <= m) \in Nat
      BY <2>1, LeastExists
    <2>4. DefaultIn(doc) = IF roots # {} THEN CHOOSE n \in roots : \A m \in roots : n <= m
                           ELSE IF all # {} THEN CHOOSE n \in all : \A m \in all : n <= m ELSE 0
      BY DEF DefaultIn, all, roots
    <2>5. QED
      BY <2>2, <2>3, <2>4
  <1>7. ASSUME NEW n \in Nat, NEW s \in [1 .. n -> Nat]
        PROVE  FirstNonzero(s) \in Nat
    <2> DEFINE T == {i \in 1 .. n : s[i] # 0}
    <2>1. ASSUME T # {}
          PROVE  \E i \in 1 .. n : s[i] # 0 /\ \A j \in 1 .. i - 1 : s[j] = 0
      <3>1. T \in SUBSET Nat
        OBVIOUS
      <3>2. PICK i \in T : \A j \in T : i <= j
        <4> HIDE DEF T
        <4>1. QED
          BY <2>1, <3>1, LeastExists
      <3>3. \A j \in 1 .. i - 1 : j \in 1 .. n /\ ~ (i <= j)
        BY <3>2
      <3>4. \A j \in 1 .. i - 1 : s[j] = 0
        BY <3>2, <3>3
      <3>5. QED
        BY <3>2, <3>4
    <2>2. DOMAIN s = 1 .. n
      OBVIOUS
    <2>3. (\E i \in DOMAIN s : s[i] # 0) =>
            (CHOOSE i \in DOMAIN s : s[i] # 0 /\ \A j \in 1 .. i - 1 : s[j] = 0) \in 1 .. n
      BY <2>1, <2>2
    <2>4. QED
      BY <2>2, <2>3 DEF FirstNonzero
  <1>8. SelectActiveDocumentFocusNode \in Nat
    <2> DEFINE matches == [i \in DOMAIN active |-> MatchIn(active[i])]
               defaults == [i \in DOMAIN active |-> DefaultIn(active[i])]
    <2>1. Len(active) \in Nat /\ DOMAIN active = 1 .. Len(active)
      BY <1>1
    <2>2. matches \in [1 .. Len(active) -> Nat] /\ defaults \in [1 .. Len(active) -> Nat]
      BY <1>5, <1>6, <2>1
    <2> HIDE DEF matches, defaults
    <2>3. FirstNonzero(matches) \in Nat /\ FirstNonzero(defaults) \in Nat
      BY <1>7, <2>1, <2>2
    <2>4. QED
      BY <2>3 DEF SelectActiveDocumentFocusNode, matches, defaults
  <1>9. QED
    BY <1>1, <1>4, <1>8 DEF SelectedNode

\* record_active_documents leaves a list of documents.
LEMMA ReferencedType ==
  ASSUME Types, NEW docs \in SUBSET Document, NEW s \in Referenced(docs), IsFiniteSet(docs)
  PROVE  s \in Seq(Document)
  <1>1. Cardinality(docs) \in Nat
    BY FS_CardinalityType
  <1>2. PICK o \in Orders(docs) : s = o \o Keeping(active, Members(active) \ docs)
    BY DEF Referenced
  <1>3. o \in [1 .. Cardinality(docs) -> docs]
    BY DEF Orders
  <1>4. o \in Seq(docs)
    BY <1>1, <1>3, FunctionIsList
  <1>5. o \in Seq(Document)
    BY <1>4, SeqMonotonic
  <1>6. Keeping(active, Members(active) \ docs) \in Seq(Document)
    BY KeepingRight DEF Types
  <1>7. QED
    BY <1>2, <1>5, <1>6

\* The documents that an answer used.
LEMMA UsedDocumentsType ==
  ASSUME Types, NEW p
  PROVE  UsedDocuments(p) \in SUBSET Document /\ IsFiniteSet(UsedDocuments(p))
  <1> DEFINE used == UsedNodes(p) \cap nodes
             f == [n \in used |-> Corpus[n].doc]
  <1>1. used \in SUBSET Node
    BY DEF Types
  <1>2. UsedDocuments(p) \in SUBSET Document
    BY <1>1, PipelineAssumption DEF UsedDocuments
  <1>3. IsFiniteSet(used)
    <2> HIDE DEF used
    <2>1. QED
      BY <1>1, AgentAssumption, FS_Subset
  <1>4. f \in Surjection(used, UsedDocuments(p))
    <2>1. \A n \in used : f[n] \in UsedDocuments(p)
      BY DEF UsedDocuments
    <2>2. \A d \in UsedDocuments(p) : \E n \in used : f[n] = d
      BY DEF UsedDocuments
    <2>3. f \in [used -> UsedDocuments(p)]
      BY <2>1
    <2> HIDE DEF f, used
    <2>4. QED
      BY <2>2, <2>3 DEF Surjection
  <1>5. IsFiniteSet(UsedDocuments(p))
    <2> HIDE DEF f, used
    <2>1. QED
      BY <1>3, <1>4, FS_Surjection
  <1>6. QED
    BY <1>2, <1>5

(* The memory agent *)

AgentDecisions ==
    [status : {"continue", "done"}, calls : ToolCalls, claim : Claimed, fallback : Fallbacks]

\* What the loop makes of a decision of the model, or of none.
LEMMA DecidedType ==
  ASSUME NEW d \in {Decided(e) : e \in Decisions} \cup {DecisionFailed}
  PROVE  d \in AgentDecisions /\ FirstSearch(d) \in AgentDecisions
  <1>1. <<SearchFor(Asked)>> \in Seq(ToolCall)
    BY SearchForType
  <1>2. d \in AgentDecisions
    <2>1. CASE d = DecisionFailed
      BY <1>1, <2>1 DEF DecisionFailed, AgentDecisions, Fallbacks, ToolCalls, Claimed
    <2>2. CASE d \in {Decided(e) : e \in Decisions}
      <3>1. PICK e \in Decisions : d = Decided(e)
        BY <2>2
      <3>2. e \in Decision /\ e.calls \in Seq(ToolCall)
        BY AgentAssumption DEF Decision
      <3> DEFINE n == IF Len(e.calls) < MaxCalls THEN Len(e.calls) ELSE MaxCalls
      <3>3. n \in 0 .. Len(e.calls) /\ Len(e.calls) \in Nat
        BY <3>2 DEF MaxCalls
      <3>4. SubSeq(e.calls, 1, n) \in Seq(ToolCall)
        <4> HIDE DEF n
        <4>1. QED
          BY <3>2, <3>3
      <3>5. d = [status |-> e.status, calls |-> SubSeq(e.calls, 1, n), claim |-> e.claim,
                 fallback |-> None]
        BY <3>1 DEF Decided
      <3> HIDE DEF n
      <3>6. QED
        BY <3>2, <3>4, <3>5 DEF Decision, AgentDecisions, Fallbacks, ToolCalls, Claimed
    <2>3. QED
      BY <2>1, <2>2
  <1>3. FirstSearch(d) \in AgentDecisions
    BY <1>1, <1>2 DEF FirstSearch, AgentDecisions, Fallbacks, ToolCalls
  <1>4. QED
    BY <1>2, <1>3

\* Noting a decision adds one entry to the log.
LEMMA NotedType ==
  ASSUME NEW a \in Agents, NEW d \in AgentDecisions, NEW ran \in {"yes", "no"}
  PROVE  /\ Noted(a, d, ran) \in Agents
         /\ Noted(a, d, ran).log = Append(a.log, [fallback |-> d.fallback, ran |-> ran])
         /\ Noted(a, d, ran).results = a.results
  <1>1. [fallback |-> d.fallback, ran |-> ran] \in Notes
    BY DEF AgentDecisions, Notes
  <1>2. a.log \in Seq(Notes)
    BY DEF Agents, NoteLists
  <1>3. Append(a.log, [fallback |-> d.fallback, ran |-> ran]) \in NoteLists
    BY <1>1, <1>2 DEF NoteLists
  <1>4. LastClaim(a, d) \in Claimed
    BY DEF LastClaim, Agents, AgentDecisions
  <1>5. QED
    BY <1>3, <1>4 DEF Noted, Agents

\* A log to which a note is added.
LEMMA LogGrows ==
  ASSUME NEW log \in Seq(Notes), NEW note \in Notes,
         \A k \in DOMAIN log : log[k].fallback # None /\ log[k].ran = "yes" => k = 1,
         note.fallback # None /\ note.ran = "yes" => log = <<>>
  PROVE  \A k \in DOMAIN Append(log, note) :
             Append(log, note)[k].fallback # None /\ Append(log, note)[k].ran = "yes" => k = 1
  <1>1. Len(log) \in Nat /\ DOMAIN Append(log, note) = 1 .. Len(log) + 1
    OBVIOUS
  <1>2. TAKE k \in DOMAIN Append(log, note)
  <1>3. CASE k = Len(log) + 1
    <2>1. Append(log, note)[k] = note /\ (log = <<>> => k = 1)
      BY <1>3
    <2>2. QED
      BY <2>1
  <1>4. CASE k # Len(log) + 1
    <2>1. k \in DOMAIN log /\ Append(log, note)[k] = log[k]
      BY <1>1, <1>4
    <2>2. QED
      BY <2>1
  <1>5. QED
    BY <1>3, <1>4

\* A loop that stops.
LEMMA StopAgentType ==
  ASSUME NEW n \in Agents,
         NEW reason \in {"memory_agent_failed_after_tool_context", "done", "iterations",
                         "fallback_context_gathered", "fallback_context_unavailable"}
  PROVE  /\ StopAgent(n, reason) \in Agents /\ StopAgent(n, reason).log = n.log
         /\ StopAgent(n, reason).at = "stopped"
  <1>1. <<>> \in ToolCalls /\ "stopped" \in AgentPlaces /\ reason \in AgentStops
    BY DEF ToolCalls, AgentPlaces, AgentStops
  <1>2. QED
    BY <1>1 DEF StopAgent, Agents

AgentRules(a) ==
    /\ a.at = "deciding" => a.log = <<>> \/ a.results # <<>>
    /\ a.at = "calling" => a.todo # <<>> \/ a.results # <<>>
    /\ \A k \in DOMAIN a.log : a.log[k].fallback # None /\ a.log[k].ran = "yes" => k = 1

\* A decision, a failed one too, leaves the loop within its rules.
LEMMA DecideRight ==
  ASSUME NEW a \in Agents, AgentRules(a), a.at = "deciding",
         NEW d \in {Decided(e) : e \in Decisions} \cup {DecisionFailed}
  PROVE  AfterDecision(a, d) \in Agents /\ AgentRules(AfterDecision(a, d))
  <1> DEFINE e == IF d.calls = <<>> /\ ~HasResults(a) THEN FirstSearch(d) ELSE d
             b == AfterDecision(a, d)
  <1>1. d \in AgentDecisions /\ e \in AgentDecisions
    BY DecidedType
  <1>2. a.log \in Seq(Notes) /\ a.results \in Seq(ToolResults)
    BY DEF Agents, NoteLists, ResultLists
  <1>3. ASSUME NEW c \in AgentDecisions, NEW ran \in {"yes", "no"},
               ran = "yes" /\ c.fallback # None => a.log = <<>>
        PROVE  \A k \in DOMAIN Noted(a, c, ran).log :
                   Noted(a, c, ran).log[k].fallback # None /\ Noted(a, c, ran).log[k].ran = "yes" => k = 1
    <2> DEFINE note == [fallback |-> c.fallback, ran |-> ran]
    <2>1. note \in Notes /\ note.fallback = c.fallback /\ note.ran = ran
      BY DEF AgentDecisions, Notes
    <2>2. Noted(a, c, ran).log = Append(a.log, note)
      BY NotedType
    <2> HIDE DEF note
    <2>3. QED
      BY <1>2, <1>3, <2>1, <2>2, LogGrows DEF AgentRules
  <1>4. ASSUME NEW n \in Agents, NEW reason \in {"memory_agent_failed_after_tool_context", "done"}
        PROVE  /\ StopAgent(n, reason) \in Agents /\ StopAgent(n, reason).log = n.log
               /\ StopAgent(n, reason).at = "stopped"
    BY StopAgentType
  <1>5. CASE d.fallback # None /\ HasResults(a)
    <2>1. b = StopAgent(Noted(a, d, "no"), "memory_agent_failed_after_tool_context")
      BY <1>5 DEF AfterDecision
    <2>2. Noted(a, d, "no") \in Agents
      BY <1>1, NotedType
    <2>3. b \in Agents /\ b.log = Noted(a, d, "no").log /\ b.at = "stopped"
      BY <1>4, <2>1, <2>2
    <2> HIDE DEF b
    <2>4. AgentRules(b)
      BY <1>1, <1>3, <2>3 DEF AgentRules
    <2>5. QED
      BY <2>3, <2>4 DEF b
  <1>6. CASE ~ (d.fallback # None /\ HasResults(a)) /\ (e.status = "done" \/ e.calls = <<>>)
    <2>1. b = StopAgent(Noted(a, e, "no"), "done")
      BY <1>6 DEF AfterDecision
    <2>2. Noted(a, e, "no") \in Agents
      BY <1>1, NotedType
    <2>3. b \in Agents /\ b.log = Noted(a, e, "no").log /\ b.at = "stopped"
      BY <1>4, <2>1, <2>2
    <2> HIDE DEF b, e
    <2>4. AgentRules(b)
      BY <1>1, <1>3, <2>3 DEF AgentRules
    <2>5. QED
      BY <2>3, <2>4 DEF b
  <1>7. CASE ~ (d.fallback # None /\ HasResults(a)) /\ ~ (e.status = "done" \/ e.calls = <<>>)
    <2> DEFINE n == Noted(a, e, "yes")
    <2>1. b = [n EXCEPT !.at = "calling", !.todo = e.calls, !.fallback = e.fallback,
                        !.done = Len(a.results)]
      BY <1>7 DEF AfterDecision
    <2>2. n \in Agents
      BY <1>1, NotedType
    <2>3. e.fallback # None => a.log = <<>>
      <3>1. e.fallback # None => ~ HasResults(a)
        BY <1>7 DEF FirstSearch
      <3>2. QED
        BY <3>1 DEF HasResults, AgentRules
    <2>4. \A k \in DOMAIN n.log : n.log[k].fallback # None /\ n.log[k].ran = "yes" => k = 1
      <3> HIDE DEF e
      <3>1. QED
        BY <1>1, <1>3, <2>3
    <2>5. /\ e.calls \in ToolCalls /\ e.fallback \in Fallbacks /\ Len(a.results) \in Nat
          /\ "calling" \in AgentPlaces
      <3> HIDE DEF e
      <3>1. QED
        BY <1>1, <1>2 DEF AgentDecisions, AgentPlaces
    <2> HIDE DEF b, e, n
    <2>6. b \in Agents /\ b.at = "calling" /\ b.log = n.log /\ b.todo = e.calls
      BY <2>1, <2>2, <2>5 DEF Agents
    <2>7. AgentRules(b)
      BY <1>7, <2>4, <2>6 DEF AgentRules
    <2>8. QED
      BY <2>6, <2>7 DEF b
  <1>8. QED
    BY <1>5, <1>6, <1>7

\* A step of the loop keeps to the rules.
LEMMA AgentStep ==
  ASSUME Types, AgentInv, AgentNext
  PROVE  agent' \in Agents /\ AgentInv' /\ nodes' = nodes
  <1>1. agent \in Agents /\ AgentRules(agent)
    BY DEF Types, AgentInv, AgentRules, FallbackFirst
  <1>2. agent' \in Agents /\ AgentRules(agent')
    <2>1. CASE Decide
      BY <1>1, <2>1, DecideRight DEF Decide
    <2>2. CASE CallTool
      <3>1. agent.todo \in Seq(ToolCall) /\ agent.todo # <<>> /\ agent.results \in Seq(ToolResults)
        BY <1>1, <2>2 DEF CallTool, Agents, ToolCalls, ResultLists
      <3>2. Head(agent.todo) \in ToolCall /\ Tail(agent.todo) \in Seq(ToolCall)
        BY <3>1
      <3>3. ResultsOf(Head(agent.todo)) \subseteq ToolResults
        BY <3>2, ToolResultType
      <3>4. PICK r \in ToolResults :
               agent' = [agent EXCEPT !.results = Append(agent.results, r), !.todo = Tail(agent.todo)]
        BY <2>2, <3>3 DEF CallTool
      <3>5. Append(agent.results, r) \in Seq(ToolResults) /\ Append(agent.results, r) # <<>>
        BY <3>1, <3>3
      <3>6. QED
        BY <1>1, <3>2, <3>4, <3>5 DEF Agents, AgentRules, ToolCalls, ResultLists
    <2>3. CASE EndTurn
      <3>1. /\ agent.at = "calling" /\ agent.todo = <<>>
            /\ \/ \E reason \in {"fallback_context_gathered", "fallback_context_unavailable",
                                 "iterations"} : agent' = StopAgent(agent, reason)
               \/ agent' = [agent EXCEPT !.at = "deciding", !.turn = @ + 1]
        BY <2>3 DEF EndTurn
      <3>2. CASE \E reason \in {"fallback_context_gathered", "fallback_context_unavailable",
                                "iterations"} : agent' = StopAgent(agent, reason)
        BY <1>1, <3>2, StopAgentType DEF AgentRules
      <3>3. CASE agent' = [agent EXCEPT !.at = "deciding", !.turn = @ + 1]
        <4>1. agent.results # <<>> /\ agent.turn + 1 \in Nat /\ "deciding" \in AgentPlaces
          BY <1>1, <3>1 DEF Agents, AgentRules, AgentPlaces
        <4>2. agent' \in Agents
          BY <1>1, <3>3, <4>1 DEF Agents
        <4>3. agent'.at = "deciding" /\ agent'.results # <<>> /\ agent'.log = agent.log
          BY <1>1, <3>3, <4>1 DEF Agents
        <4>4. QED
          BY <1>1, <4>2, <4>3 DEF AgentRules
      <3>4. QED
        BY <3>1, <3>2, <3>3
    <2>4. QED
      BY <2>1, <2>2, <2>3 DEF AgentNext
  <1>3. nodes' = nodes
    BY DEF AgentNext, Decide, CallTool, EndTurn
  <1>4. QED
    BY <1>2, <1>3 DEF AgentInv, AgentRules, FallbackFirst

(* Deep retrieval *)

DeepRules(d) ==
    /\ d.at = "planning" => /\ Len(d.rounds) < MaxDeep
                            /\ d.loops = 1 + d.invalid + Len(d.rounds)
    /\ d.at = "scoring" => /\ d.rounds # <<>> /\ Len(d.rounds) <= MaxDeep
                           /\ d.loops = d.invalid + Len(d.rounds)
    /\ d.at \in {"planning", "scoring"} => d.invalid <= MaxDeep
    /\ Members(d.triaged) \subseteq d.seen
    /\ IsInjective(d.useful)
    /\ d.at = "stopped" => d.stop # None
    /\ IsInjective(d.triaged)

\* DeepInv is DeepRules of the loop as it stands.
LEMMA DeepRulesAre == DeepInv <=> DeepRules(deep)
  BY DEF DeepInv, DeepRules, StopIsNamed, IsInjective

\* What is fixed when the loop moves.
SameSets(d, e) == d.seen = e.seen /\ d.triaged = e.triaged /\ d.useful = e.useful

\* The rounds, and the cap on the turns.
LEMMA MaxDeepType == MaxDeep \in Nat \ {0} /\ HardCap = 2 * MaxDeep + 2
  BY DeepAssumption DEF MaxDeep, HardCap

\* A loop that stops for a reason.
LEMMA StopDeepRight ==
  ASSUME NEW d \in Deeps, NEW reason \in DeepStops, reason # None, DeepRules(d)
  PROVE  StopDeep(d, reason) \in Deeps /\ DeepRules(StopDeep(d, reason))
  <1> DEFINE e == StopDeep(d, reason)
  <1>1. "stopped" \in DeepPlaces
    BY DEF DeepPlaces
  <1>2. e \in Deeps /\ e.at = "stopped" /\ e.stop = reason /\ SameSets(d, e)
    BY <1>1 DEF StopDeep, Deeps, SameSets
  <1> HIDE DEF e
  <1>3. DeepRules(e)
    BY <1>2 DEF DeepRules, SameSets
  <1>4. QED
    BY <1>2, <1>3 DEF e

\* The cap leaves a turn to a loop that is to go on.
LEMMA AgainDeepRight ==
  ASSUME NEW d \in Deeps,
         Len(d.rounds) < MaxDeep, d.loops = d.invalid + Len(d.rounds), d.invalid <= MaxDeep,
         Members(d.triaged) \subseteq d.seen, IsInjective(d.useful), IsInjective(d.triaged)
  PROVE  AgainDeep(d) \in Deeps /\ DeepRules(AgainDeep(d))
  <1> DEFINE e == AgainDeep(d)
  <1>1. d.loops \in Nat /\ d.invalid \in Nat /\ Len(d.rounds) \in Nat
    BY DEF Deeps, RoundLists
  <1>2. d.loops < HardCap
    BY <1>1, MaxDeepType
  <1>3. e = [d EXCEPT !.at = "planning", !.loops = @ + 1]
    BY <1>2 DEF AgainDeep
  <1>4. "planning" \in DeepPlaces /\ d.loops + 1 \in Nat
    BY <1>1 DEF DeepPlaces
  <1> HIDE DEF e
  <1>5. /\ e \in Deeps /\ SameSets(d, e) /\ e.at = "planning" /\ e.rounds = d.rounds
        /\ e.loops = d.loops + 1 /\ e.invalid = d.invalid
    BY <1>3, <1>4 DEF Deeps, SameSets
  <1>6. e.loops = 1 + e.invalid + Len(e.rounds)
    BY <1>1, <1>5
  <1>7. DeepRules(e)
    BY <1>5, <1>6 DEF DeepRules, SameSets
  <1>8. QED
    BY <1>5, <1>7 DEF e

\* A plan that cannot be read costs a turn.
LEMMA InvalidPlanRight ==
  ASSUME deep \in Deeps, DeepRules(deep), InvalidPlan
  PROVE  deep' \in Deeps /\ DeepRules(deep')
  <1> DEFINE d == [deep EXCEPT !.invalid = @ + 1]
  <1>1. deep.invalid \in Nat /\ deep.loops \in Nat /\ Len(deep.rounds) \in Nat
    BY DEF Deeps, RoundLists
  <1>2. /\ d \in Deeps /\ d.at = "planning" /\ d.invalid = deep.invalid + 1
        /\ d.loops = deep.loops /\ d.rounds = deep.rounds /\ SameSets(deep, d)
    BY <1>1 DEF Deeps, InvalidPlan, SameSets
  <1>3. deep' = IF d.invalid > MaxDeep THEN StopDeep(d, "repeated_invalid_plans") ELSE AgainDeep(d)
    BY DEF InvalidPlan
  <1> HIDE DEF d
  <1>4. /\ Members(d.triaged) \subseteq d.seen /\ IsInjective(d.useful) /\ IsInjective(d.triaged)
        /\ Len(d.rounds) < MaxDeep /\ deep.loops = 1 + deep.invalid + Len(deep.rounds)
    BY <1>2 DEF DeepRules, SameSets, InvalidPlan
  <1>5. d.loops = d.invalid + Len(d.rounds)
    BY <1>1, <1>2, <1>4
  <1>6. CASE d.invalid > MaxDeep
    <2>1. "stopped" \in DeepPlaces /\ "repeated_invalid_plans" \in DeepStops \ {None}
      BY DEF DeepPlaces, DeepStops, None
    <2>2. deep' = [d EXCEPT !.at = "stopped", !.stop = "repeated_invalid_plans"]
      BY <1>3, <1>6 DEF StopDeep
    <2>3. /\ deep' \in Deeps /\ deep'.at = "stopped" /\ deep'.stop # None
          /\ deep'.triaged = d.triaged /\ deep'.useful = d.useful /\ deep'.seen = d.seen
      BY <1>2, <2>1, <2>2 DEF Deeps
    <2>4. QED
      BY <1>4, <2>3 DEF DeepRules
  <1>7. CASE ~ (d.invalid > MaxDeep)
    <2>1. d.invalid <= MaxDeep
      BY <1>1, <1>2, <1>7, MaxDeepType
    <2>2. deep' = AgainDeep(d)
      BY <1>3, <1>7
    <2>3. QED
      BY <1>2, <1>4, <1>5, <2>1, <2>2, AgainDeepRight
  <1>8. QED
    BY <1>6, <1>7

\* A search begins a round, of candidates not seen before.
LEMMA SearchRight ==
  ASSUME deep \in Deeps, DeepRules(deep), Search
  PROVE  deep' \in Deeps /\ DeepRules(deep')
  <1>1. PICK found \in Returned :
           \E new \in {FilterNew(found, deep.seen)} :
           \E keep \in SUBSET Members(FirstOf(new, Shortlist)) :
           deep' = [deep EXCEPT
               !.at = "scoring",
               !.seen = @ \cup Members(new),
               !.triaged = @ \o FirstOf(new, Shortlist),
               !.useful = AddUseful(@, Keeping(FirstOf(new, Shortlist), keep)),
               !.rounds = Append(@, [new |-> Len(new), total |-> Len(found)])]
    BY DEF Search
  <1> DEFINE new == FilterNew(found, deep.seen)
  <1>1a. PICK keep \in SUBSET Members(FirstOf(new, Shortlist)) :
           deep' = [deep EXCEPT
               !.at = "scoring",
               !.seen = @ \cup Members(new),
               !.triaged = @ \o FirstOf(new, Shortlist),
               !.useful = AddUseful(@, Keeping(FirstOf(new, Shortlist), keep)),
               !.rounds = Append(@, [new |-> Len(new), total |-> Len(found)])]
    BY <1>1
  <1> DEFINE first == FirstOf(new, Shortlist)
             kept == Keeping(first, keep)
             useful == AddUseful(deep.useful, kept)
             triaged == deep.triaged \o first
             rounds == Append(deep.rounds, [new |-> Len(new), total |-> Len(found)])
  <1>2. found \in Seq(Node) /\ Shortlist \in Nat
    BY DeepAssumption
  <1>3. new \in Seq(Node) /\ IsInjective(new) /\ Members(new) = Members(found) \ deep.seen
    BY <1>2, FilterNewRight
  <1> HIDE DEF new
  <1>4. first \in Seq(Node) /\ Members(first) \subseteq Members(new) /\ IsInjective(first)
    BY <1>2, <1>3, FirstOfRight
  <1> HIDE DEF first
  <1>5. kept \in Seq(Node) /\ IsInjective(kept)
    BY <1>4, KeepingRight
  <1> HIDE DEF kept
  <1>6. /\ deep.useful \in Seq(Node) /\ deep.triaged \in Seq(Node) /\ deep.seen \in SUBSET Node
        /\ deep.rounds \in Seq([new : Nat, total : Nat]) /\ deep.loops \in Nat /\ deep.invalid \in Nat
    BY DEF Deeps, NodeLists, RoundLists
  <1>7. /\ Len(deep.rounds) < MaxDeep /\ deep.loops = 1 + deep.invalid + Len(deep.rounds)
        /\ deep.invalid <= MaxDeep /\ Members(deep.triaged) \subseteq deep.seen
        /\ IsInjective(deep.useful) /\ IsInjective(deep.triaged)
    BY DEF DeepRules, Search
  <1>8. useful \in NodeLists /\ IsInjective(useful)
    BY <1>5, <1>6, <1>7, AddUsefulRight DEF NodeLists
  <1>9. Members(deep.triaged) \cap Members(first) = {}
    BY <1>3, <1>4, <1>7
  <1>10. /\ triaged \in NodeLists /\ IsInjective(triaged)
         /\ Members(triaged) = Members(deep.triaged) \cup Members(first)
    BY <1>4, <1>6, <1>7, <1>9, JoinedLists DEF NodeLists
  <1>11. /\ rounds \in RoundLists /\ Len(rounds) = Len(deep.rounds) + 1 /\ rounds # <<>>
         /\ Len(deep.rounds) \in Nat
    <2> DEFINE r == [new |-> Len(new), total |-> Len(found)]
    <2>1. Len(new) \in Nat /\ Len(found) \in Nat
      BY <1>2, <1>3
    <2>2. r \in [new : Nat, total : Nat]
      BY <2>1
    <2>3. rounds = Append(deep.rounds, r)
      OBVIOUS
    <2> DEFINE R == [new : Nat, total : Nat]
    <2>4. deep.rounds \in Seq(R) /\ r \in R
      BY <1>6, <2>2
    <2> HIDE DEF r, rounds, R
    <2>5. rounds \in Seq(R) /\ Len(rounds) = Len(deep.rounds) + 1 /\ Len(deep.rounds) \in Nat
      BY <2>3, <2>4
    <2>6. rounds # <<>>
      BY <2>5
    <2>7. QED
      BY <2>5, <2>6 DEF RoundLists, R
  <1>12. deep.seen \cup Members(new) \in SUBSET Node
    BY <1>3, <1>6 DEF Members
  <1> DEFINE seen == deep.seen \cup Members(new)
  <1>13. deep' = [deep EXCEPT !.at = "scoring", !.seen = seen, !.triaged = triaged,
                              !.useful = useful, !.rounds = rounds]
    BY <1>1a DEF first, kept
  <1>14. Members(triaged) \subseteq seen
    BY <1>4, <1>7, <1>10
  <1> HIDE DEF useful, triaged, rounds, seen
  <1>15. "scoring" \in DeepPlaces /\ seen \in SUBSET Node
    BY <1>12 DEF DeepPlaces, seen
  <1>16. /\ deep' \in Deeps /\ deep'.at = "scoring" /\ deep'.seen = seen /\ deep'.triaged = triaged
         /\ deep'.useful = useful /\ deep'.rounds = rounds /\ deep'.loops = deep.loops
         /\ deep'.invalid = deep.invalid
    BY <1>8, <1>10, <1>11, <1>13, <1>15 DEF Deeps
  <1>17. Len(rounds) <= MaxDeep /\ deep.loops = deep.invalid + Len(rounds)
    <2>1. /\ Len(deep.rounds) \in Nat /\ Len(rounds) = Len(deep.rounds) + 1
          /\ MaxDeep \in Nat /\ deep.loops \in Nat /\ deep.invalid \in Nat
      BY <1>6, <1>11, MaxDeepType
    <2>2. Len(deep.rounds) < MaxDeep /\ deep.loops = 1 + deep.invalid + Len(deep.rounds)
      BY <1>7
    <2>3. QED
      BY <2>1, <2>2
  <1>18. QED
    BY <1>7, <1>8, <1>10, <1>11, <1>14, <1>16, <1>17 DEF DeepRules

\* A round ends: the loop stops for a reason or goes round again.
LEMMA AfterRoundRight ==
  ASSUME NEW d \in Deeps, DeepRules(d), d.at = "scoring", NEW reason \in DeepStops
  PROVE  AfterRound(d, reason) \in Deeps /\ DeepRules(AfterRound(d, reason))
  <1>1. CASE reason # None
    BY <1>1, StopDeepRight DEF AfterRound
  <1>2. CASE reason = None /\ ShouldStop(d) # None
    <2>1. ShouldStop(d) \in DeepStops
      BY DEF ShouldStop, DeepStops
    <2>2. QED
      BY <1>2, <2>1, StopDeepRight DEF AfterRound
  <1>3. CASE reason = None /\ ShouldStop(d) = None
    <2>1. Len(d.rounds) \in Nat
      BY DEF Deeps, RoundLists
    <2>2. Len(d.rounds) < MaxDeep
      BY <1>3, <2>1, MaxDeepType DEF ShouldStop, None
    <2>3. AfterRound(d, reason) = AgainDeep(d)
      BY <1>3 DEF AfterRound
    <2>4. QED
      BY <2>2, <2>3, AgainDeepRight DEF DeepRules
  <1>4. QED
    BY <1>1, <1>2, <1>3

\* A scored round adds to what is useful, each node once.
LEMMA ScoreRight ==
  ASSUME deep \in Deeps, DeepRules(deep), Score
  PROVE  deep' \in Deeps /\ DeepRules(deep')
  <1>0. PICK value \in Scores \cup {Least(85, 35 + 10 * Len(deep.useful))} :
           \E d \in {[deep EXCEPT !.scores = Append(@, value)]} :
               deep' = AfterRound(d, SufficiencyStops(d))
    BY DEF Score
  <1> DEFINE d == [deep EXCEPT !.scores = Append(@, value)]
  <1>1. deep' = AfterRound(d, SufficiencyStops(d))
    BY <1>0
  <1>2. deep.at = "scoring"
    BY DEF Score
  <1>3. deep.scores \in Seq(Nat) /\ Len(deep.useful) \in Nat
    BY DEF Deeps, ScoreLists, NodeLists
  <1>4. value \in Nat
    <2>1. Scores \subseteq Nat
      BY DeepAssumption
    <2>2. Least(85, 35 + 10 * Len(deep.useful)) \in Nat
      BY <1>3 DEF Least
    <2>3. QED
      BY <2>1, <2>2
  <1>5. Append(deep.scores, value) \in ScoreLists
    BY <1>3, <1>4 DEF ScoreLists
  <1>6. /\ d \in Deeps /\ d.at = "scoring" /\ SameSets(deep, d) /\ d.rounds = deep.rounds
        /\ d.loops = deep.loops /\ d.invalid = deep.invalid
    BY <1>2, <1>5 DEF Deeps, SameSets
  <1> HIDE DEF d
  <1>7. DeepRules(d)
    BY <1>2, <1>6 DEF DeepRules, SameSets
  <1>8. SufficiencyStops(d) \in DeepStops
    BY DEF SufficiencyStops, DeepStops
  <1>9. QED
    BY <1>1, <1>6, <1>7, <1>8, AfterRoundRight

\* A step of the loop keeps to the rules.
LEMMA DeepStep ==
  ASSUME Types, DeepInv, DeepNext \/ Score \/ DoNotScore
  PROVE  deep' \in Deeps /\ DeepInv' /\ pack' = pack
  <1>1. deep \in Deeps /\ DeepRules(deep)
    BY DeepRulesAre DEF Types
  <1>2. CASE PlannerStops
    <2>1. "planner_stop" \in DeepStops \ {None}
      BY DEF DeepStops, None
    <2>2. deep' \in Deeps /\ DeepRules(deep')
      BY <1>1, <1>2, <2>1, StopDeepRight DEF PlannerStops
    <2>3. QED
      BY <1>2, <2>2 DEF PlannerStops, DeepInv, DeepRules, StopIsNamed, IsInjective
  <1>3. CASE DoNotScore
    <2>1. None \in DeepStops
      BY DEF DeepStops
    <2>2. deep' \in Deeps /\ DeepRules(deep')
      BY <1>1, <1>3, <2>1, AfterRoundRight DEF DoNotScore
    <2>3. QED
      BY <1>3, <2>2 DEF DoNotScore, DeepInv, DeepRules, StopIsNamed, IsInjective
  <1>4. CASE InvalidPlan \/ Search \/ Score
    <2>1. deep' \in Deeps /\ DeepRules(deep')
      BY <1>1, <1>4, InvalidPlanRight, SearchRight, ScoreRight
    <2>2. pack' = pack
      BY <1>4 DEF InvalidPlan, Search, Score
    <2>3. QED
      BY <2>1, <2>2 DEF DeepInv, DeepRules, StopIsNamed, IsInjective
  <1>5. QED
    BY <1>2, <1>3, <1>4 DEF DeepNext

(* Packing a prompt *)

PackRules(p, all, plan, overhead) ==
    /\ NodesOf(p.kept) \cup p.skipped \cup NodesOf(p.todo) = all
    /\ Distinct(p.kept) /\ Distinct(p.todo)
    /\ NodesOf(p.kept) \cap NodesOf(p.todo) = {}
    /\ p.skipped \cap (NodesOf(p.kept) \cup NodesOf(p.todo)) = {}
    /\ p.plan = plan /\ p.overhead = overhead
    /\ p.chars = Chars(p.kept) /\ p.tokens = overhead + Tokens(plan, p.kept)
    /\ Measured(plan, overhead, p.kept)

\* The first chunk and the rest.
LEMMA FirstChunk ==
  ASSUME NEW s \in Seq(Chunks), s # <<>>
  PROVE  /\ Head(s) \in Chunks /\ Tail(s) \in Seq(Chunks)
         /\ NodesOf(s) = {Head(s).node} \cup NodesOf(Tail(s))
         /\ Distinct(s) => Distinct(Tail(s)) /\ Head(s).node \notin NodesOf(Tail(s))
  <1>1. /\ Len(s) \in Nat \ {0} /\ DOMAIN s = 1 .. Len(s) /\ Head(s) = s[1]
        /\ Tail(s) \in Seq(Chunks) /\ DOMAIN Tail(s) = 1 .. Len(s) - 1
        /\ \A i \in 1 .. Len(s) - 1 : Tail(s)[i] = s[i + 1] /\ i + 1 \in DOMAIN s
    OBVIOUS
  <1>2. Head(s) \in Chunks
    BY <1>1
  <1> DEFINE t == Tail(s)
  <1>3. \A i \in DOMAIN s : i # 1 => i - 1 \in DOMAIN t /\ t[i - 1] = s[i]
    BY <1>1
  <1>4. /\ 1 \in DOMAIN s /\ Head(s) = s[1]
        /\ \A i \in DOMAIN t : i + 1 \in DOMAIN s /\ t[i] = s[i + 1] /\ i + 1 # 1
        /\ \A i, j \in DOMAIN t : i + 1 = j + 1 => i = j
    BY <1>1
  <1> HIDE DEF t
  <1>5. NodesOf(s) = {Head(s).node} \cup NodesOf(t)
    <2>1. NodesOf(s) \subseteq {Head(s).node} \cup NodesOf(t)
      <3>1. SUFFICES ASSUME NEW i \in DOMAIN s
                     PROVE  s[i].node \in {Head(s).node} \cup NodesOf(t)
        BY DEF NodesOf
      <3>2. CASE i = 1
        BY <1>4, <3>2
      <3>3. CASE i # 1
        BY <1>3, <3>3 DEF NodesOf
      <3>4. QED
        BY <3>2, <3>3
    <2>2. {Head(s).node} \cup NodesOf(t) \subseteq NodesOf(s)
      <3>1. QED
        BY <1>4 DEF NodesOf
    <2>3. QED
      BY <2>1, <2>2
  <1>6. ASSUME Distinct(s)
        PROVE  Distinct(t) /\ Head(s).node \notin NodesOf(t)
    <2>1. Distinct(t)
      BY <1>4, <1>6 DEF Distinct
    <2>2. Head(s).node \notin NodesOf(t)
      BY <1>4, <1>6 DEF Distinct, NodesOf
    <2>3. QED
      BY <2>1, <2>2
  <1>7. QED
    BY <1>1, <1>2, <1>5, <1>6 DEF t

\* A chunk appended.
LEMMA LastChunk ==
  ASSUME NEW s \in Seq(Chunks), NEW c \in Chunks
  PROVE  /\ Append(s, c) \in Seq(Chunks) /\ Append(s, c) # <<>>
         /\ NodesOf(Append(s, c)) = NodesOf(s) \cup {c.node}
         /\ Distinct(s) /\ c.node \notin NodesOf(s) => Distinct(Append(s, c))
  <1> DEFINE t == Append(s, c)
             m == Len(s) + 1
  <1>1. /\ t \in Seq(Chunks) /\ t # <<>> /\ m \in DOMAIN t /\ t[m] = c
        /\ \A i \in DOMAIN s : i \in DOMAIN t /\ t[i] = s[i]
        /\ \A i \in DOMAIN t : i \in DOMAIN s \/ i = m
    OBVIOUS
  <1> HIDE DEF t, m
  <1>2. NodesOf(t) = NodesOf(s) \cup {c.node}
    <2>1. NodesOf(t) \subseteq NodesOf(s) \cup {c.node}
      <3>1. SUFFICES ASSUME NEW i \in DOMAIN t
                     PROVE  t[i].node \in NodesOf(s) \cup {c.node}
        BY DEF NodesOf
      <3>2. QED
        BY <1>1 DEF NodesOf
    <2>2. NodesOf(s) \cup {c.node} \subseteq NodesOf(t)
      BY <1>1 DEF NodesOf
    <2>3. QED
      BY <2>1, <2>2
  <1>3. ASSUME Distinct(s), c.node \notin NodesOf(s)
        PROVE  Distinct(t)
    <2>1. SUFFICES ASSUME NEW i \in DOMAIN t, NEW j \in DOMAIN t, t[i].node = t[j].node
                   PROVE  i = j
      BY DEF Distinct
    <2>2. CASE i \in DOMAIN s /\ j \in DOMAIN s
      BY <1>1, <1>3, <2>1, <2>2 DEF Distinct
    <2>3. \A k \in DOMAIN s : t[k].node # c.node
      BY <1>1, <1>3 DEF NodesOf
    <2>4. QED
      BY <1>1, <2>1, <2>2, <2>3
  <1>4. QED
    BY <1>1, <1>2, <1>3 DEF t

\* Nothing is packed yet.
LEMMA PackIdleType == PackIdle \in Packs
  <1>1. <<>> \in ChunkLists
    BY DEF ChunkLists
  <1>2. NoPlan \in BudgetPlan
    BY DEF NoPlan, BudgetPlan
  <1>3. QED
    BY <1>1, <1>2 DEF PackIdle, Packs

\* No chunks, no nodes.
LEMMA EmptyList == NodesOf(<<>>) = {} /\ Distinct(<<>>)
  <1>1. DOMAIN <<>> = {}
    OBVIOUS
  <1>2. QED
    BY <1>1 DEF NodesOf, Distinct

\* Without chunks there is nothing to measure.
LEMMA NothingMeasured ==
  ASSUME NEW plan
  PROVE  Chars(<<>>) = 0 /\ Tokens(plan, <<>>) = 0
  <1>1. [i \in DOMAIN <<>> |-> BlockChars(<<>>[i])] = <<>>
    BY DOMAIN <<>> = {}
  <1>2. [i \in DOMAIN <<>> |-> BlockTokens(plan, <<>>[i])] = <<>>
    BY DOMAIN <<>> = {}
  <1>3. QED
    BY <1>1, <1>2, TotalRight DEF Chars, Tokens

\* Packing starts with everything still to come and nothing used.
LEMMA PackStartsRight ==
  ASSUME NEW chunks \in Seq(Chunks), Distinct(chunks), NEW plan \in BudgetPlan, NEW overhead \in Nat
  PROVE  /\ PackStarts(chunks, plan, overhead) \in Packs
         /\ PackRules(PackStarts(chunks, plan, overhead), NodesOf(chunks), plan, overhead)
  <1> DEFINE p == PackStarts(chunks, plan, overhead)
  <1>1. chunks \in ChunkLists /\ <<>> \in ChunkLists
    BY DEF ChunkLists
  <1>2. p = [todo |-> chunks, kept |-> <<>>, skipped |-> {}, plan |-> plan, overhead |-> overhead,
             chars |-> 0, tokens |-> overhead]
    <2>1. PackIdle = [todo |-> <<>>, kept |-> <<>>, skipped |-> {}, plan |-> NoPlan,
                      overhead |-> 0, chars |-> 0, tokens |-> 0]
      BY DEF PackIdle
    <2>2. p = [PackIdle EXCEPT !.todo = chunks, !.plan = plan, !.overhead = overhead,
                               !.tokens = overhead]
      BY DEF PackStarts
    <2> HIDE DEF p
    <2>3. QED
      BY <2>1, <2>2
  <1> HIDE DEF p
  <1>3. /\ p \in Packs /\ p.todo = chunks /\ p.kept = <<>> /\ p.skipped = {} /\ p.plan = plan
        /\ p.overhead = overhead /\ p.chars = 0 /\ p.tokens = overhead
    BY <1>1, <1>2 DEF Packs
  <1>4. Chars(<<>>) = 0 /\ Tokens(plan, <<>>) = 0
    BY NothingMeasured
  <1>5. plan.chars \in Nat
    BY DEF BudgetPlan
  <1>6. Measured(plan, overhead, <<>>)
    BY <1>4, <1>5 DEF Measured, KeepsBudgets
  <1>7. NodesOf(<<>>) = {} /\ Distinct(<<>>)
    BY EmptyList
  <1>8. PackRules(p, NodesOf(chunks), plan, overhead)
    BY <1>3, <1>4, <1>6, <1>7 DEF PackRules
  <1>9. QED
    BY <1>3, <1>8 DEF p

\* The chunks of the useful nodes.
LEMMA UsefulChunks ==
  ASSUME NEW useful \in Seq(Node), IsInjective(useful)
  PROVE  LET chunks == [i \in DOMAIN useful |-> Chunk(useful[i])]
         IN  chunks \in Seq(Chunks) /\ Distinct(chunks) /\ NodesOf(chunks) = Members(useful)
  <1> DEFINE chunks == [i \in DOMAIN useful |-> Chunk(useful[i])]
  <1>1. Len(useful) \in Nat /\ DOMAIN useful = 1 .. Len(useful) /\ \A i \in DOMAIN useful : useful[i] \in Node
    OBVIOUS
  <1>2. \A n \in Node : Chunk(n) \in Chunks /\ Chunk(n).node = n
    BY DeepAssumption DEF Chunk, Chunks, YesNo
  <1>3. chunks \in [1 .. Len(useful) -> Chunks]
    BY <1>1, <1>2
  <1>4. chunks \in Seq(Chunks)
    BY <1>1, <1>3, FunctionIsList
  <1>5. DOMAIN chunks = DOMAIN useful /\ \A i \in DOMAIN useful : chunks[i].node = useful[i]
    BY <1>1, <1>2
  <1> HIDE DEF chunks
  <1>6. Distinct(chunks)
    BY <1>5 DEF Distinct, IsInjective
  <1>7. NodesOf(chunks) = Members(useful)
    BY <1>5 DEF NodesOf, Members
  <1>8. QED
    BY <1>4, <1>6, <1>7 DEF chunks

\* A block of the estimated characters, and one more, is a token more than was
\* estimated, or two where each character is a token.
LEMMA EstimateRight ==
  ASSUME NEW b \in Nat, NEW r \in Nat, NEW k \in Nat \ {0}, b <= r * k + 1
  PROVE  (b + k) \div k <= r + (IF k = 1 THEN 2 ELSE 1)
  <1> DEFINE q == (b + k) \div k
  <1>1. q \in Nat /\ k * q <= b + k
    OBVIOUS
  <1> HIDE DEF q
  <1>2. CASE k = 1
    <2>1. q <= r + 2
      BY <1>1, <1>2
    <2>2. QED
      BY <1>2, <2>1 DEF q
  <1>3. CASE k # 1
    <2>1. k >= 2
      BY <1>3
    <2>2. SUFFICES ASSUME q >= r + 2
                   PROVE  FALSE
      <3>1. q >= r + 2 \/ q <= r + 1
        BY <1>1
      <3>2. QED
        BY <1>3, <3>1 DEF q
    <2>3. PICK d \in Nat : q = (r + 2) + d
      <3>1. q - (r + 2) \in Nat /\ q = (r + 2) + (q - (r + 2))
        BY <1>1, <2>2
      <3>2. QED
        BY <3>1
    <2>4. k * q = (r * k + k) + (k + k * d) /\ k * d \in Nat /\ r * k \in Nat
      BY <2>3
    <2>5. QED
      BY <1>1, <2>1, <2>4
  <1>4. QED
    BY <1>2, <1>3

\* A first chunk that is cut measures little more than its budgets.
LEMMA CutMeasured ==
  ASSUME pack \in Packs, NEW chunk \in Chunks, MayCut(chunk)
  PROVE  LET c == CutShort(chunk)
         IN  c \in Chunks /\ c.node = chunk.node /\ IsCutToFit(pack.plan, pack.overhead, <<c>>)
  <1> DEFINE c == CutShort(chunk)
             n == chunk.node
             plan == pack.plan
             left == plan.available - pack.overhead
             text == Least(chunk.text, Room - (Header[n] + 1))
  <1>1. /\ pack.overhead \in Nat /\ plan \in BudgetPlan
        /\ plan.chars \in Nat /\ plan.available \in Nat /\ plan.ratio \in Nat \ {0}
    BY DEF Packs, BudgetPlan
  <1>2. /\ n \in Node /\ chunk.text \in Nat /\ chunk.text <= Text[n] /\ Text[n] \in Nat
        /\ Header[n] \in Nat \ {0}
    BY DeepAssumption DEF Chunks
  <1>3. Room > Header[n] + 1
    BY DEF MayCut
  <1>4. plan.ratio * left \in Int /\ left * plan.ratio \in Int
    BY <1>1
  <1>5. /\ Room \in Nat /\ Room <= plan.chars /\ left \in Nat /\ Room <= left * plan.ratio
    <2>1. CASE plan.available > pack.overhead
      <3>1. left \in Nat /\ TokenRoom = left * plan.ratio
        BY <1>1, <2>1 DEF TokenRoom
      <3>2. TokenRoom \in Nat
        BY <1>1, <3>1
      <3> HIDE DEF left
      <3>3. QED
        BY <1>1, <3>1, <3>2 DEF Room, Least
    <2>2. CASE ~ (plan.available > pack.overhead)
      <3>1. TokenRoom = 0
        BY <2>2 DEF TokenRoom
      <3>2. Room = 0
        BY <1>1, <3>1 DEF Room, Least
      <3>3. QED
        BY <1>2, <1>3, <3>2
    <2>3. QED
      BY <2>1, <2>2
  <1>6. text \in Nat /\ text <= chunk.text /\ text <= Room - (Header[n] + 1)
    BY <1>2, <1>3, <1>5 DEF Least
  <1> HIDE DEF text, left
  <1>7. c = [chunk EXCEPT !.text = text, !.cut = "yes"]
    BY DEF CutShort, text
  <1> HIDE DEF c
  <1>8. c \in Chunks /\ c.node = n /\ c.text = text /\ c.cut = "yes"
    <2>1. /\ chunk \in [node : Node, text : Nat, cut : YesNo]
          /\ "yes" \in YesNo
      BY DEF Chunks, YesNo
    <2>2. /\ c \in [node : Node, text : Nat, cut : YesNo]
          /\ c.node = n /\ c.text = text /\ c.cut = "yes"
      BY <1>6, <1>7, <2>1
    <2>3. c.text <= Text[c.node]
      BY <1>2, <1>6, <2>2
    <2>4. QED
      BY <2>2, <2>3 DEF Chunks
  <1>9. BlockChars(c) \in Nat /\ BlockChars(c) <= Room + (IF n \in Titled THEN 0 ELSE 1)
    BY <1>2, <1>3, <1>5, <1>6, <1>8 DEF BlockChars
  <1> DEFINE s == <<c>>
  <1>10. Chars(s) = BlockChars(c) /\ Tokens(plan, s) = BlockTokens(plan, c)
    <2>1. s = Append(<<>>, c) /\ <<>> \in Seq(Chunks)
      OBVIOUS
    <2>2. BlockTokens(plan, c) \in Nat
      BY <1>1, <1>8, BlockType
    <2>3. Chars(<<>>) = 0 /\ Tokens(plan, <<>>) = 0
      BY <1>1, NothingMeasured
    <2>4. /\ Chars(Append(<<>>, c)) = Chars(<<>>) + BlockChars(c)
          /\ Tokens(plan, Append(<<>>, c)) = Tokens(plan, <<>>) + BlockTokens(plan, c)
      BY <1>1, <1>8, <2>1, PromptGrows
    <2> HIDE DEF s, plan
    <2>5. QED
      BY <1>9, <2>1, <2>2, <2>3, <2>4
  <1>11. Chars(s) <= plan.chars + (IF n \in Titled THEN 0 ELSE 1)
    BY <1>1, <1>5, <1>9, <1>10
  <1>12. plan.tokenizer = "approx" =>
           pack.overhead + Tokens(plan, s) <= plan.available + (IF plan.ratio = 1 THEN 2 ELSE 1)
    <2>1. BlockChars(c) <= left * plan.ratio + 1
      BY <1>1, <1>4, <1>5, <1>9
    <2>2. (BlockChars(c) + plan.ratio) \div plan.ratio <= left + (IF plan.ratio = 1 THEN 2 ELSE 1)
      BY <1>1, <1>5, <1>9, <2>1, EstimateRight
    <2>3. plan.tokenizer = "approx" => Tokens(plan, s) = (BlockChars(c) + plan.ratio) \div plan.ratio
      BY <1>10 DEF BlockTokens
    <2>4. Tokens(plan, s) \in Nat
      BY <1>1, <1>8, <1>10, BlockType
    <2>5. left = plan.available - pack.overhead
      BY DEF left
    <2> HIDE DEF s, plan
    <2>6. QED
      BY <1>1, <1>5, <2>2, <2>3, <2>4, <2>5
  <1>13. Len(s) = 1 /\ s[1] = c
    OBVIOUS
  <1>14. QED
    BY <1>8, <1>11, <1>12, <1>13 DEF IsCutToFit, c

\* A chunk that fits leaves the prompt within its budgets.
LEMMA FitMeasured ==
  ASSUME pack \in Packs, NEW all, NEW plan, NEW overhead, PackRules(pack, all, plan, overhead),
         NEW chunk \in Chunks, Fits(chunk)
  PROVE  KeepsBudgets(plan, overhead, Append(pack.kept, chunk))
  <1>1. /\ pack.kept \in Seq(Chunks) /\ plan \in BudgetPlan /\ pack.plan = plan
        /\ overhead \in Nat /\ plan.chars \in Nat /\ plan.available \in Nat
    BY DEF Packs, ChunkLists, PackRules, BudgetPlan
  <1>2. BlockChars(chunk) \in Nat /\ BlockTokens(plan, chunk) \in Nat
    BY <1>1, BlockType
  <1>3. /\ Chars(pack.kept) \in Nat /\ Tokens(plan, pack.kept) \in Nat
        /\ Chars(Append(pack.kept, chunk)) = Chars(pack.kept) + BlockChars(chunk)
        /\ Tokens(plan, Append(pack.kept, chunk)) = Tokens(plan, pack.kept) + BlockTokens(plan, chunk)
    BY <1>1, PromptGrows
  <1>4. /\ Chars(pack.kept) + BlockChars(chunk) <= plan.chars
        /\ (overhead + Tokens(plan, pack.kept)) + BlockTokens(plan, chunk) <= plan.available
    BY <1>1 DEF Fits, PackRules
  <1>5. QED
    BY <1>1, <1>2, <1>3, <1>4 DEF KeepsBudgets

\* A chunk that leaves the list, to the prompt or to what is left out.
LEMMA PackChunkRight ==
  ASSUME pack \in Packs, NEW all, NEW plan, NEW overhead, PackRules(pack, all, plan, overhead),
         KeepChunk \/ SkipChunk
  PROVE  pack' \in Packs /\ PackRules(pack', all, plan, overhead) /\ deep' = deep
  <1>1. /\ pack.todo \in Seq(Chunks) /\ pack.kept \in Seq(Chunks) /\ pack.skipped \in SUBSET Node
        /\ pack.plan = plan /\ plan \in BudgetPlan /\ pack.overhead = overhead /\ overhead \in Nat
        /\ pack.chars \in Nat /\ pack.tokens \in Nat
    BY DEF Packs, ChunkLists, PackRules
  <1>2. pack.todo # <<>>
    BY DEF KeepChunk, SkipChunk
  <1> DEFINE chunk == Head(pack.todo)
             rest == Tail(pack.todo)
  <1>3. /\ chunk \in Chunks /\ rest \in Seq(Chunks)
        /\ NodesOf(pack.todo) = {chunk.node} \cup NodesOf(rest)
        /\ Distinct(rest) /\ chunk.node \notin NodesOf(rest)
    BY <1>1, <1>2, FirstChunk DEF PackRules
  <1>4. chunk.node \notin NodesOf(pack.kept) /\ chunk.node \in Node
    BY <1>3 DEF PackRules, Chunks
  <1>5. ASSUME NEW c \in Chunks, c.node = chunk.node, Keep(c),
               Measured(plan, overhead, Append(pack.kept, c))
        PROVE  pack' \in Packs /\ PackRules(pack', all, plan, overhead)
    <2> DEFINE kept == Append(pack.kept, c)
    <2>1. pack' = [pack EXCEPT !.todo = rest, !.kept = kept,
                               !.chars = pack.chars + BlockChars(c),
                               !.tokens = pack.tokens + BlockTokens(plan, c)]
      BY <1>1, <1>5 DEF Keep
    <2> HIDE DEF chunk, rest
    <2>2. BlockChars(c) \in Nat /\ BlockTokens(plan, c) \in Nat
      BY <1>1, <1>5, BlockType
    <2>3. /\ kept \in Seq(Chunks) /\ kept # <<>>
          /\ NodesOf(kept) = NodesOf(pack.kept) \cup {c.node} /\ Distinct(kept)
      BY <1>1, <1>4, <1>5, LastChunk DEF PackRules
    <2>4. /\ Chars(pack.kept) \in Nat /\ Tokens(plan, pack.kept) \in Nat
          /\ Chars(kept) = Chars(pack.kept) + BlockChars(c)
          /\ Tokens(plan, kept) = Tokens(plan, pack.kept) + BlockTokens(plan, c)
      BY <1>1, <1>5, PromptGrows
    <2>5. Measured(plan, overhead, kept)
      BY <1>5
    <2> HIDE DEF kept
    <2>6. pack.chars + BlockChars(c) \in Nat /\ pack.tokens + BlockTokens(plan, c) \in Nat
      BY <1>1, <2>2
    <2>7. /\ pack' \in Packs /\ pack'.todo = rest /\ pack'.kept = kept
          /\ pack'.chars = pack.chars + BlockChars(c)
          /\ pack'.tokens = pack.tokens + BlockTokens(plan, c)
          /\ pack'.skipped = pack.skipped /\ pack'.plan = plan /\ pack'.overhead = overhead
      BY <1>1, <1>3, <2>1, <2>3, <2>6 DEF Packs, ChunkLists
    <2>8. /\ NodesOf(kept) \cup pack.skipped \cup NodesOf(rest) = all
          /\ NodesOf(kept) \cap NodesOf(rest) = {}
          /\ pack.skipped \cap (NodesOf(kept) \cup NodesOf(rest)) = {}
      BY <1>3, <1>4, <1>5, <2>3 DEF PackRules
    <2>9. /\ pack.chars + BlockChars(c) = Chars(kept)
          /\ pack.tokens + BlockTokens(plan, c) = overhead + Tokens(plan, kept)
      BY <1>1, <2>2, <2>4 DEF PackRules
    <2>10. PackRules(pack', all, plan, overhead)
      BY <1>3, <2>3, <2>5, <2>7, <2>8, <2>9 DEF PackRules
    <2>11. QED
      BY <2>7, <2>10
  <1>6. CASE KeepChunk
    <2>1. CASE Fits(chunk) /\ Keep(chunk)
      <3>1. Measured(plan, overhead, Append(pack.kept, chunk))
        BY <1>3, <2>1, FitMeasured DEF Measured
      <3>2. QED
        BY <1>3, <1>5, <1>6, <2>1, <3>1 DEF KeepChunk
    <2>2. CASE MayCut(chunk) /\ Keep(CutShort(chunk))
      <3> DEFINE c == CutShort(chunk)
      <3>1. c \in Chunks /\ c.node = chunk.node /\ IsCutToFit(plan, overhead, <<c>>)
        BY <1>1, <1>3, <2>2, CutMeasured
      <3>2. pack.kept = <<>>
        BY <2>2 DEF MayCut
      <3> HIDE DEF c
      <3>3. Append(pack.kept, c) = <<c>>
        BY <3>2
      <3>4. Measured(plan, overhead, Append(pack.kept, c))
        BY <3>1, <3>3 DEF Measured
      <3>5. Keep(c)
        BY <2>2 DEF c
      <3>6. QED
        BY <1>5, <1>6, <3>1, <3>4, <3>5 DEF KeepChunk
    <2>3. QED
      BY <1>6, <2>1, <2>2 DEF KeepChunk
  <1>7. CASE SkipChunk
    <2>1. pack' = [pack EXCEPT !.todo = rest, !.skipped = @ \cup {chunk.node}]
      BY <1>7 DEF SkipChunk
    <2> HIDE DEF chunk, rest
    <2>2. pack.skipped \cup {chunk.node} \in SUBSET Node
      BY <1>1, <1>4
    <2>3. /\ pack' \in Packs /\ pack'.todo = rest /\ pack'.kept = pack.kept
          /\ pack'.skipped = pack.skipped \cup {chunk.node}
          /\ pack'.chars = pack.chars /\ pack'.tokens = pack.tokens
          /\ pack'.plan = pack.plan /\ pack'.overhead = pack.overhead
      BY <1>3, <2>1, <2>2 DEF Packs, ChunkLists
    <2>4. PackRules(pack', all, plan, overhead)
      BY <1>3, <1>4, <2>3 DEF PackRules
    <2>5. QED
      BY <1>7, <2>3, <2>4 DEF SkipChunk
  <1>8. QED
    BY <1>6, <1>7

(* Requests and packages *)

LEMMA SettingType ==
  ASSUME Types
  PROVE  /\ setting.mode \in {"direct", "agentic", "deep"}
         /\ setting.plan \in Seq([kind : {"retrieve", "answer", "search", "compile"}, tries : Nat])
         /\ setting.focus \in Nat /\ setting.active \in Seq(Document)
         /\ setting.budget \in BudgetPlan
         /\ setting.overhead \in Nat /\ setting.withHistory \in Nat
  <1>1. setting \in Request
    BY PipelineAssumption DEF Types
  <1>2. QED
    BY <1>1 DEF Request

\* The mode that a request is served in.
LEMMA ModeType ==
  ASSUME Types
  PROVE  Mode(setting.mode) \in {"direct", "agentic", "deep"}
  BY SettingType DEF Mode

\* No package is an honest one.
LEMMA NoPackageRight ==
  NoPackage \in Packages /\ Accounted(NoPackage) /\ Claims(NoPackage)
  <1>1. <<>> \in ChunkLists /\ None \in Modes /\ None \in Contexts /\ None \in Actions /\ "no" \in YesNo
    BY DEF ChunkLists, Modes, Contexts, Actions, YesNo
  <1>2. NoPackage \in Packages
    BY <1>1 DEF NoPackage, Packages
  <1>3. Accounted(NoPackage)
    BY EmptyList DEF NoPackage, Accounted
  <1>4. Claims(NoPackage)
    BY DEF NoPackage, Claims, None
  <1>5. QED
    BY <1>2, <1>3, <1>4

\* No reply yet.
LEMMA NoReplyType == NoReply \in Replies
  BY DEF NoReply, Replies, Reasons

\* A request that has done nothing.
LEMMA NoWorkType == NoWork \in Works
  <1>1. <<>> \in ResultLists /\ "no" \in YesNo /\ None \in Outcomes /\ None \in Reasons
    BY DEF ResultLists, YesNo, Outcomes, Reasons
  <1>2. QED
    BY <1>1, NoPackageRight, NoReplyType DEF NoWork, Works

\* The evidence of tool results is honest.
LEMMA EnvelopeRight ==
  ASSUME NEW p \in Packages, NEW results \in ResultLists, NEW claim \in Claimed
  PROVE  LET e == Envelope(p, results, claim)
         IN  /\ e \in Packages /\ e.run = p.run /\ e.deep = p.deep /\ Claims(e)
             /\ Accounted(p) => Accounted(e)
  <1> DEFINE e == Envelope(p, results, claim)
             included == IncludedIn(results)
             status == EvidenceStatus(results)
             action == ControllerAction(results, claim)
  <1>1. included \in SUBSET Node
    <2>1. results \in Seq(ToolResults)
      BY DEF ResultLists
    <2>2. \A i \in DOMAIN results : results[i] \in ToolResults
      BY <2>1
    <2>3. \A r \in ToolResults : r.included \in SUBSET Node
      BY DEF ToolResults
    <2>4. QED
      BY <2>2, <2>3 DEF IncludedIn
  <1>2. status \in Contexts
    BY DEF EvidenceStatus, Contexts
  <1>3. WithoutContext(results) \in ContextAction \ {"use_repository_context"}
    BY DEF WithoutContext, ContextAction
  <1>4. DerivedAction(results) \in ContextAction
    <2>1. "use_repository_context" \in ContextAction /\ "use_web_context" \in ContextAction
      BY DEF ContextAction
    <2>2. QED
      BY <1>3, <2>1 DEF DerivedAction
  <1>5. /\ action \in ContextAction
        /\ action = "use_repository_context" => included # {}
    <2> DEFINE first == IF claim = None THEN DerivedAction(results) ELSE claim
    <2>1. first \in ContextAction
      BY <1>4 DEF Claimed
    <2>2. action = IF first = "use_repository_context" /\ included = {}
                   THEN WithoutContext(results) ELSE first
      BY DEF ControllerAction
    <2> HIDE DEF first, action, included
    <2>3. QED
      BY <1>3, <2>1, <2>2
  <1>6. action \in Actions
    BY <1>5 DEF Actions
  <1>7. e = [p EXCEPT !.included = included, !.status = status, !.action = action]
    BY DEF Envelope
  <1> HIDE DEF e, included, status, action
  <1>8. /\ e \in Packages /\ e.run = p.run /\ e.deep = p.deep /\ e.useful = p.useful
        /\ e.skipped = p.skipped /\ e.all = p.all /\ e.included = included /\ e.action = action
    BY <1>1, <1>2, <1>6, <1>7 DEF Packages
  <1>9. Claims(e)
    BY <1>5, <1>8 DEF Claims
  <1>10. Accounted(p) => Accounted(e)
    BY <1>8 DEF Accounted
  <1>11. QED
    BY <1>8, <1>9, <1>10 DEF e

\* Direct retrieval says whether its node was there, or announces no context of the
\* repository.
LEMMA DirectRight ==
  ASSUME Types, NEW n \in Nat, NEW excerpt
  PROVE  /\ DirectStatus(n, excerpt) \in Contexts /\ DirectAction(n, excerpt) \in Actions
         /\ DirectAction(n, excerpt) = "use_repository_context" =>
                DirectStatus(n, excerpt) \in {"matched_context", "missing_context"}
  <1>1. DirectStatus(n, excerpt) \in Contexts
    BY DEF DirectStatus, Contexts
  <1>2. DirectAction(n, excerpt) \in Actions
    <2>1. "use_repository_context" \in ContextAction /\ "answer_without_repository_context" \in ContextAction
      BY DEF ContextAction
    <2>2. QED
      BY <2>1 DEF DirectAction, Actions
  <1>3. CASE n = 0
    BY <1>1, <1>2, <1>3 DEF DirectAction
  <1>4. CASE n # 0
    BY <1>1, <1>2, <1>4 DEF DirectStatus
  <1>5. QED
    BY <1>3, <1>4

(***************************************************************************)
(* What a step does to the request's work, its runs and its exchanges      *)
(***************************************************************************)
SameAround == setting' = setting /\ crashes' = crashes /\ forgotten' = forgotten
Still == SameAround /\ abandoned' = abandoned
SameRows == runs' = runs /\ exchanges' = exchanges
Quiet == Still /\ SameRows /\ saved' = saved /\ reply' = reply

SameBundle == work'.bundle = work.bundle \/ Gathers

\* The artifacts that a plan has made, and its place.
SameArtifacts ==
    /\ work'.step = work.step /\ work'.package = work.package /\ work'.answer = work.answer
    /\ work'.retrieved = work.retrieved /\ SameBundle

Enters(l, m) == pc = l /\ pc' = m

MovesOn ==
    /\ Quiet /\ work' = work
    /\ \/ pc' = pc
       \/ /\ Enters("step", "retrieve") /\ ~PlanOver
          /\ PlanStep.kind = "retrieve" /\ work.retrieved # "yes"
       \/ /\ Enters("step", "bundle") /\ ~PlanOver
          /\ PlanStep.kind = "answer" /\ work.answer = NoReply /\ work.bundle # <<>>
       \/ Enters("deep", "packing")
       \/ Enters("synthesize", "repacking") \/ Enters("synthesize", "ask")
       \/ Enters("ask", "save")

EndsStep ==
    /\ Quiet /\ Enters("step", "stepped") /\ ~PlanOver
    /\ SameArtifacts /\ work'.draft = work.draft

TakesPackage ==
    /\ Quiet /\ Enters("step", "synthesize")
    /\ ~PlanOver /\ PlanStep.kind = "answer" /\ work.answer = NoReply
    /\ SameArtifacts /\ work'.draft = work.package

Retries ==
    /\ Quiet /\ Enters("stepped", "step") /\ SameArtifacts /\ work'.draft = work.draft

Saves ==
    /\ Still /\ SameRows /\ reply' = reply /\ Enters("stepped", "step")
    /\ work'.package = work.package /\ work'.answer = work.answer
    /\ work'.retrieved = work.retrieved /\ work'.draft = NoPackage /\ SameBundle
    /\ saved' = work'

EndsPlan ==
    /\ Still /\ SameRows /\ saved' = saved /\ work' = work /\ Enters("step", "done")
    /\ reply' \in Replies
    /\ IF work.answer # NoReply THEN reply' = work.answer
       ELSE reply'.run = 0

Begins ==
    /\ Still /\ exchanges' = exchanges /\ saved' = saved /\ reply' = reply
    /\ \/ pc = "retrieve" /\ pc' \in {"direct", "agentic", "deep"} /\ (pc' = "deep" => AsksDeep)
       \/ Enters("bundle", "envelope")
    /\ SameArtifacts
    /\ Accounted(work'.draft) /\ Claims(work'.draft) /\ work'.draft.action = None
    /\ ~IsDeep(work'.draft)
    /\ \/ /\ work'.draft.run = Len(runs) + 1
          /\ runs' = Append(runs, [status |-> "active", exchange |-> 0])
       \/ work'.draft.run = 0 /\ runs' = runs

Retrieves ==
    /\ Quiet /\ pc \in {"direct", "agentic", "packing"}
    /\ work'.step = work.step /\ work'.answer = work.answer /\ SameBundle
    /\ \E package \in Packages :
           /\ Accounted(package) /\ Claims(package) /\ package.run = work.draft.run
           /\ IsDeep(package) => pc = "packing" \/ IsDeep(work.draft)
           /\ IF Planned THEN /\ pc' = "stepped" /\ work'.package = package
                              /\ work'.retrieved = "yes" /\ work'.draft = NoPackage
              ELSE /\ pc' = "synthesize" /\ work'.draft = package
                   /\ work'.package = work.package /\ work'.retrieved = work.retrieved

Drafts ==
    /\ Quiet
    /\ Enters("envelope", "synthesize") \/ Enters("repacking", "ask")
    /\ SameArtifacts
    /\ work'.draft.run = work.draft.run /\ work'.draft.deep = work.draft.deep
    /\ Accounted(work'.draft) /\ Claims(work'.draft)

\* A phase returns answer: its run was told so.
Finishes(answer) ==
    IF answer.run = 0 \/ pc = "envelope" THEN runs' = runs
    ELSE \/ runs' = [runs EXCEPT ![answer.run] =
                        [status |-> IF answer.ok = "yes" THEN "completed" ELSE "blocked",
                         exchange |-> answer.exchange]]
         \/ May("noupdate") /\ runs' = runs

Leaves(run) == abandoned' = abandoned \cup ({run} \ {0})

HandsBack(answer) ==
    /\ SameAround /\ exchanges' = exchanges /\ saved' = saved
    /\ answer # NoReply
    /\ IF pc = "envelope" THEN Leaves(work.draft.run) ELSE abandoned' = abandoned
    /\ \/ /\ pc \in {"direct", "agentic", "deep", "ask", "save", "saved"}
          /\ answer.run = work.draft.run /\ answer.ok = "no" /\ answer.exchange = 0
       \/ /\ pc = "saved" /\ answer.run = work.draft.run
          /\ answer.ok = "yes" /\ answer.exchange = Len(exchanges)
       \/ pc = "envelope" /\ answer.run = 0 /\ May("raise")
    /\ Finishes(answer)
    /\ IF Planned
       THEN /\ pc' = "stepped" /\ reply' = reply /\ work'.draft = work.draft
            /\ work'.step = work.step /\ work'.package = work.package
            /\ work'.retrieved = work.retrieved /\ SameBundle
            /\ work'.answer = IF PlanStep.kind = "answer" THEN answer ELSE work.answer
       ELSE pc' = "done" /\ reply' = answer /\ work' = work

\* An exception goes past a phase of a deep request, and past its run.
Escapes ==
    /\ SameAround /\ SameRows /\ saved' = saved /\ May("raise")
    /\ pc \in {"deep", "packing"} \/ (pc \in {"synthesize", "repacking"} /\ IsDeep(work.draft))
    /\ Leaves(work.draft.run)
    /\ SameArtifacts /\ work'.draft = work.draft
    /\ IF Planned THEN pc' = "stepped" /\ reply' = reply
       ELSE pc' = "done" /\ reply' \in Replies /\ reply'.run = 0

Stores ==
    /\ Still /\ runs' = runs /\ work' = work /\ saved' = saved /\ reply' = reply
    /\ Enters("save", "saved")
    /\ exchanges' = Append(exchanges, [run |-> work.draft.run, life |-> crashes])

Dies ==
    /\ setting' = setting /\ SameRows /\ saved' = saved /\ reply' = reply
    /\ pc \notin {"done", "down"} /\ pc' = "down" /\ crashes < MaxCrashes
    /\ work' = NoWork /\ crashes' = crashes + 1 /\ abandoned' = abandoned
    /\ forgotten' = IF Unnoted THEN forgotten + 1 ELSE forgotten

Resumes == Quiet /\ Enters("down", "step") /\ Planned /\ work' = saved

Move ==
    \/ MovesOn \/ EndsStep \/ TakesPackage \/ Retries \/ Saves \/ EndsPlan
    \/ Begins \/ Retrieves \/ Drafts \/ (\E answer \in Replies : HandsBack(answer))
    \/ Escapes \/ Stores \/ Dies \/ Resumes

\* The types of what a request holds.
LEMMA WorkParts ==
  ASSUME Types
  PROVE  /\ work \in Works /\ saved \in Works /\ work.step \in Nat \ {0} /\ work.tries \in Nat
         /\ work.package \in Packages /\ work.draft \in Packages /\ work.answer \in Replies
         /\ work.bundle \in ResultLists /\ work.retrieved \in YesNo
         /\ runs \in Seq(Run) /\ exchanges \in Seq(Exchange) /\ work.draft.run \in Nat
         /\ work.package.run \in Nat /\ work.answer.run \in Nat
  BY DEF Types, Works, Packages, Replies

\* A step that ends at once leaves the artifacts alone.
LEMMA StepEndsRight ==
  ASSUME Types, NEW outcome \in Outcomes, NEW reason \in Reasons, StepEnds(outcome, reason)
  PROVE  /\ work' \in Works /\ SameArtifacts /\ work'.draft = work.draft /\ pc' = "stepped"
  BY WorkParts DEF StepEnds, Works, SameArtifacts, SameBundle, Goto

\* A retrieval step is skipped or begins.
LEMMA RetrievalStepMoves ==
  ASSUME Types, RetrievalStep
  PROVE  Move /\ work' \in Works
  <1>1. Quiet /\ pc = "step" /\ ~PlanOver /\ PlanStep.kind = "retrieve"
    BY DEF RetrievalStep, requestRest, around, Quiet, Still, SameAround, SameRows
  <1>2. CASE work.retrieved = "yes"
    <2>1. "skipped" \in Outcomes /\ "duplicate_effect" \in Reasons
      BY DEF Outcomes, Reasons
    <2>2. StepEnds("skipped", "duplicate_effect")
      BY <1>2 DEF RetrievalStep
    <2>3. EndsStep /\ work' \in Works
      BY <1>1, <2>1, <2>2, StepEndsRight DEF EndsStep, Enters
    <2>4. QED
      BY <2>3 DEF Move
  <1>3. CASE work.retrieved # "yes"
    <2>1. work' = work /\ pc' = "retrieve"
      BY <1>3 DEF RetrievalStep, Goto
    <2>2. MovesOn
      BY <1>1, <1>3, <2>1 DEF MovesOn, Enters
    <2>3. QED
      BY <2>1, <2>2, WorkParts DEF Move
  <1>4. QED
    BY <1>2, <1>3

\* An answer step gives the answer that is there, takes the package, or asks for a bundle.
LEMMA AnswerStepMoves ==
  ASSUME Types, AnswerStep
  PROVE  Move /\ work' \in Works
  <1>1. Quiet /\ pc = "step" /\ ~PlanOver /\ PlanStep.kind = "answer"
    BY DEF AnswerStep, requestRest, around, Quiet, Still, SameAround, SameRows
  <1>2. \/ \E outcome \in {"completed", "blocked"} :
               StepEnds(outcome, work.answer.reason) \/ StepEnds(outcome, "missing_retrieval_package")
        \/ /\ work.answer = NoReply /\ pc' = "synthesize"
           /\ work' = [work EXCEPT !.draft = work.package]
        \/ work.answer = NoReply /\ work.bundle # <<>> /\ pc' = "bundle" /\ work' = work
    BY DEF AnswerStep, Goto
  <1>3. /\ {"completed", "blocked"} \subseteq Outcomes /\ "missing_retrieval_package" \in Reasons
        /\ work.answer.reason \in Reasons
    <2>1. "missing_retrieval_package" \in Reasons
      BY DEF Reasons
    <2>2. work.answer.reason \in Reasons
      BY WorkParts DEF Replies
    <2>3. QED
      BY <2>1, <2>2 DEF Outcomes
  <1>4. CASE \E outcome \in {"completed", "blocked"} :
                 StepEnds(outcome, work.answer.reason) \/ StepEnds(outcome, "missing_retrieval_package")
    <2>1. EndsStep /\ work' \in Works
      BY <1>1, <1>3, <1>4, StepEndsRight DEF EndsStep, Enters
    <2>2. QED
      BY <2>1 DEF Move
  <1>5. CASE /\ work.answer = NoReply /\ pc' = "synthesize"
             /\ work' = [work EXCEPT !.draft = work.package]
    <2>1. work' \in Works /\ SameArtifacts /\ work'.draft = work.package
      BY <1>5, WorkParts DEF Works, SameArtifacts, SameBundle
    <2>2. TakesPackage
      BY <1>1, <1>5, <2>1 DEF TakesPackage, Enters
    <2>3. QED
      BY <2>1, <2>2 DEF Move
  <1>6. CASE work.answer = NoReply /\ work.bundle # <<>> /\ pc' = "bundle" /\ work' = work
    <2>1. MovesOn
      BY <1>1, <1>6 DEF MovesOn, Enters
    <2>2. QED
      BY <1>6, <2>1, WorkParts DEF Move
  <1>7. QED
    BY <1>2, <1>4, <1>5, <1>6

\* A granular step adds results to the bundle, or is blocked.
LEMMA GatherStepMoves ==
  ASSUME Types, GatherStep
  PROVE  Move /\ work' \in Works
  <1>1. Quiet /\ pc = "step" /\ ~PlanOver
    BY DEF GatherStep, requestRest, around, Quiet, Still, SameAround, SameRows
  <1>2. work.bundle \in Seq(ToolResults)
    BY WorkParts DEF ResultLists
  <1> DEFINE n == FocusOf(work.bundle)
             call == GatherCall(n)
  <1>3. n \in Nat
    BY <1>2, FocusType
  <1>4. call \in ToolCall
    <2> HIDE DEF n
    <2>1. "compile_context" \in Tool
      BY DEF Tool
    <2>2. QED
      BY <1>3, <2>1, SearchForType DEF ToolCall, GatherCall
  <1>5. ResultsOf(call) \subseteq ToolResults
    <2> HIDE DEF call
    <2>1. QED
      BY <1>4, ToolResultType
  <1>6. Gathers
    <2>1. setting.plan \in Seq([kind : {"retrieve", "answer", "search", "compile"}, tries : Nat])
      BY SettingType
    <2>2. work.step \in DOMAIN setting.plan
      BY <1>1, <2>1, WorkParts DEF PlanOver
    <2>3. setting.plan[work.step].kind \in {"search", "compile"}
      BY DEF GatherStep, PlanStep
    <2>4. QED
      BY <2>2, <2>3 DEF Gathers
  <1>7. \/ \E reason \in {"handler_failed", "missing_node_id", "node_not_found"} : StepEnds("blocked", reason)
        \/ \E r \in ResultsOf(call) :
               /\ work' = [work EXCEPT !.bundle = Append(work.bundle, r), !.outcome = "completed"]
               /\ pc' = "stepped"
    BY DEF GatherStep, Goto
  <1> HIDE DEF n, call
  <1>8. CASE \E reason \in {"handler_failed", "missing_node_id", "node_not_found"} : StepEnds("blocked", reason)
    <2>1. "blocked" \in Outcomes /\ {"handler_failed", "missing_node_id", "node_not_found"} \subseteq Reasons
      BY DEF Outcomes, Reasons
    <2>2. EndsStep /\ work' \in Works
      BY <1>1, <1>8, <2>1, StepEndsRight DEF EndsStep, Enters
    <2>3. QED
      BY <2>2 DEF Move
  <1>9. CASE \E r \in ResultsOf(call) :
                /\ work' = [work EXCEPT !.bundle = Append(work.bundle, r), !.outcome = "completed"]
                /\ pc' = "stepped"
    <2>1. PICK r \in ToolResults :
             /\ work' = [work EXCEPT !.bundle = Append(work.bundle, r), !.outcome = "completed"]
             /\ pc' = "stepped"
      BY <1>5, <1>9
    <2>2. Append(work.bundle, r) \in ResultLists /\ "completed" \in Outcomes
      BY <1>2 DEF ResultLists, Outcomes
    <2>3. work' \in Works /\ SameArtifacts /\ work'.draft = work.draft
      BY <1>6, <2>1, <2>2, WorkParts DEF Works, SameArtifacts, SameBundle
    <2>4. EndsStep
      BY <1>1, <2>1, <2>3 DEF EndsStep, Enters
    <2>5. QED
      BY <2>3, <2>4 DEF Move
  <1>10. QED
    BY <1>7, <1>8, <1>9

\* A step that ended is tried again, or its progress is saved.
LEMMA EndStepMoves ==
  ASSUME Types, EndStep
  PROVE  Move /\ work' \in Works
  <1>1. Still /\ SameRows /\ reply' = reply /\ pc = "stepped" /\ pc' = "step"
    BY DEF EndStep, requestRest, around, Still, SameAround, SameRows, Goto
  <1>2. None \in Outcomes /\ work.tries + 1 \in Nat
    BY WorkParts DEF Outcomes
  <1>3. CASE work.outcome = "blocked" /\ work.tries + 1 < PlanStep.tries
    <2>1. work' = [work EXCEPT !.tries = work.tries + 1, !.outcome = None] /\ saved' = saved
      BY <1>3 DEF EndStep
    <2>2. work' \in Works /\ SameArtifacts /\ work'.draft = work.draft
      BY <1>2, <2>1, WorkParts DEF Works, SameArtifacts, SameBundle
    <2>3. Retries
      BY <1>1, <2>1, <2>2 DEF Retries, Quiet, Enters
    <2>4. QED
      BY <2>2, <2>3 DEF Move
  <1>4. CASE ~ (work.outcome = "blocked" /\ work.tries + 1 < PlanStep.tries)
    <2> DEFINE step == IF work.outcome = "completed" THEN work.step + 1 ELSE Len(setting.plan) + 1
    <2>1. step \in Nat \ {0}
      <3>1. work.step \in Nat \ {0}
        BY WorkParts
      <3>2. Len(setting.plan) \in Nat
        BY SettingType
      <3>3. QED
        BY <3>1, <3>2
    <2>2. saved' = work' /\ work' = [Kept(work) EXCEPT !.outcome = None, !.step = step]
      <3>1. Kept(work).step = work.step
        BY WorkParts DEF Kept, Works
      <3>2. QED
        BY <1>4, <3>1 DEF EndStep
    <2> HIDE DEF step
    <2>3. work' = [work EXCEPT !.draft = NoPackage, !.tries = 0, !.outcome = None, !.step = step]
      BY <2>2, WorkParts DEF Kept, Works
    <2>4. /\ work' \in Works /\ work'.package = work.package /\ work'.answer = work.answer
          /\ work'.retrieved = work.retrieved /\ work'.draft = NoPackage /\ SameBundle
      BY <1>2, <2>1, <2>3, WorkParts, NoPackageRight DEF Works, SameBundle
    <2>5. Saves
      BY <1>1, <2>2, <2>4 DEF Saves, Enters
    <2>6. QED
      BY <2>4, <2>5 DEF Move
  <1>5. QED
    BY <1>3, <1>4

\* A plan that is over returns its answer.
LEMMA EndPlanMoves ==
  ASSUME Types, EndPlan
  PROVE  Move /\ work' \in Works
  <1>1. Still /\ SameRows /\ saved' = saved /\ work' = work /\ Enters("step", "done")
    BY DEF EndPlan, requestRest, around, Still, SameAround, SameRows, Goto, Enters
  <1>2. reply' \in Replies /\ IF work.answer # NoReply THEN reply' = work.answer ELSE reply'.run = 0
    <2>1. CASE work.answer # NoReply
      BY <2>1, WorkParts DEF EndPlan
    <2>2. CASE work.answer = NoReply
      <3> DEFINE ok == IF work.package = NoPackage /\ work.bundle = <<>> THEN "no" ELSE None
      <3>1. reply' = Reply(ok, work.reason, 0, 0)
        BY <2>2 DEF EndPlan
      <3>2. ok \in {None, "yes", "no", "raised"} /\ work.reason \in Reasons
        BY WorkParts DEF Works
      <3> HIDE DEF ok
      <3>3. QED
        BY <2>2, <3>1, <3>2 DEF Reply, Replies
    <2>3. QED
      BY <2>1, <2>2
  <1>3. EndsPlan
    BY <1>1, <1>2 DEF EndsPlan
  <1>4. QED
    BY <1>1, <1>3, WorkParts DEF Move

\* A run begins: the draft of its package is new.
LEMMA BeginRunRight ==
  ASSUME Types, NEW mode \in {"direct", "agentic", "deep"}, BeginRun(mode)
  PROVE  /\ work' \in Works /\ SameArtifacts /\ ~IsDeep(work'.draft)
         /\ Accounted(work'.draft) /\ Claims(work'.draft) /\ work'.draft.action = None
         /\ \/ /\ work'.draft.run = Len(runs) + 1
               /\ runs' = Append(runs, [status |-> "active", exchange |-> 0])
            \/ work'.draft.run = 0 /\ runs' = runs
  <1>1. /\ mode \in Modes /\ Len(runs) + 1 \in Nat /\ setting.focus \in Nat
        /\ 0 \in Nat
    BY WorkParts, SettingType DEF Modes
  <1>2. PICK run \in Nat :
           /\ work' = [work EXCEPT !.draft = [NoPackage EXCEPT !.mode = mode, !.run = run,
                                                               !.selected = setting.focus]]
           /\ \/ run = Len(runs) + 1 /\ runs' = Append(runs, [status |-> "active", exchange |-> 0])
              \/ run = 0 /\ runs' = runs
    <2>1. CASE runs' = Append(runs, [status |-> "active", exchange |-> 0])
               /\ work' = [work EXCEPT !.draft = [NoPackage EXCEPT !.mode = mode, !.run = Len(runs) + 1,
                                                           !.selected = setting.focus]]
      BY <1>1, <2>1
    <2>2. CASE /\ work' = [work EXCEPT !.draft = [NoPackage EXCEPT !.mode = mode, !.selected = setting.focus]]
               /\ UNCHANGED runs
      <3>1. NoPackage.run = 0 /\ NoPackage \in Packages
        BY NoPackageRight DEF NoPackage
      <3>2. [NoPackage EXCEPT !.mode = mode, !.selected = setting.focus] =
            [NoPackage EXCEPT !.mode = mode, !.run = 0, !.selected = setting.focus]
        BY <3>1 DEF Packages
      <3>3. QED
        BY <1>1, <2>2, <3>2
    <2>3. QED
      BY <2>1, <2>2 DEF BeginRun
  <1> DEFINE draft == [NoPackage EXCEPT !.mode = mode, !.run = run, !.selected = setting.focus]
  <1>3. work' = [work EXCEPT !.draft = draft]
    BY <1>2
  <1>4. /\ draft \in Packages /\ draft.run = run /\ draft.useful = NoPackage.useful
        /\ draft.skipped = NoPackage.skipped /\ draft.all = NoPackage.all
        /\ draft.action = NoPackage.action /\ draft.included = NoPackage.included
        /\ draft.deep = NoPackage.deep
    BY <1>1, NoPackageRight DEF Packages
  <1> HIDE DEF draft
  <1>5. Accounted(draft) /\ Claims(draft) /\ draft.action = None /\ ~IsDeep(draft)
    BY <1>4, NoPackageRight DEF Accounted, Claims, NoPackage, None, IsDeep
  <1>6. work' \in Works /\ SameArtifacts /\ work'.draft = draft
    BY <1>3, <1>4, WorkParts DEF Works, SameArtifacts, SameBundle
  <1>7. QED
    BY <1>2, <1>4, <1>5, <1>6

\* A retrieval begins with a run of its own, or with none.
LEMMA BeginRetrievalMoves ==
  ASSUME Types, BeginRetrieval
  PROVE  Move /\ work' \in Works
  <1>1. /\ Still /\ exchanges' = exchanges /\ saved' = saved /\ reply' = reply /\ pc = "retrieve"
        /\ BeginRun(Mode(setting.mode)) /\ pc' = Mode(setting.mode)
    BY DEF BeginRetrieval, requestRest, around, Still, SameAround, Goto
  <1>2. Mode(setting.mode) \in {"direct", "agentic", "deep"}
    BY ModeType
  <1>3. Begins /\ work' \in Works
    BY <1>1, <1>2, BeginRunRight DEF Begins, AsksDeep
  <1>4. QED
    BY <1>3 DEF Move

\* So does an answer from the bundle.
LEMMA BeginBundleMoves ==
  ASSUME Types, BeginBundle
  PROVE  Move /\ work' \in Works
  <1>1. /\ Still /\ exchanges' = exchanges /\ saved' = saved /\ reply' = reply
        /\ Enters("bundle", "envelope") /\ BeginRun(Mode(setting.mode))
    BY DEF BeginBundle, requestRest, around, Still, SameAround, Goto, Enters
  <1>2. Mode(setting.mode) \in {"direct", "agentic", "deep"}
    BY ModeType
  <1>3. Begins /\ work' \in Works
    BY <1>1, <1>2, BeginRunRight DEF Begins, AsksDeep
  <1>4. QED
    BY <1>3 DEF Move

\* A retrieval hands an honest package to its plan or to the synthesis.
LEMMA RetrievalEndsMoves ==
  ASSUME Types, NEW package \in Packages, Accounted(package), Claims(package),
         package.run = work.draft.run, RetrievalEnds(package), Quiet,
         IsDeep(package) => pc = "packing" \/ IsDeep(work.draft),
         pc \in {"direct", "agentic", "packing"}
  PROVE  Move /\ work' \in Works
  <1>1. "yes" \in YesNo /\ "completed" \in Outcomes
    BY DEF YesNo, Outcomes
  <1>2. CASE Planned
    <2>1. /\ work' = [work EXCEPT !.draft = NoPackage, !.package = package, !.retrieved = "yes",
                                  !.outcome = "completed"]
          /\ pc' = "stepped"
      BY <1>2 DEF RetrievalEnds, Goto
    <2>2. /\ work' \in Works /\ work'.step = work.step /\ work'.answer = work.answer
          /\ work'.package = package /\ work'.retrieved = "yes" /\ work'.draft = NoPackage
          /\ SameBundle
      BY <1>1, <2>1, WorkParts, NoPackageRight DEF Works, SameBundle
    <2>3. QED
      BY <1>2, <2>1, <2>2 DEF Retrieves, Move
  <1>3. CASE ~Planned
    <2>1. work' = [work EXCEPT !.draft = package] /\ pc' = "synthesize"
      BY <1>3 DEF RetrievalEnds, Goto
    <2>2. /\ work' \in Works /\ work'.step = work.step /\ work'.answer = work.answer
          /\ work'.package = work.package /\ work'.retrieved = work.retrieved
          /\ work'.draft = package /\ SameBundle
      BY <2>1, WorkParts DEF Works, SameBundle
    <2>3. QED
      BY <1>3, <2>1, <2>2 DEF Retrieves, Move
  <1>4. QED
    BY <1>2, <1>3

\* Direct retrieval says what came of the node that it selected.
LEMMA RetrieveDirectMoves ==
  ASSUME Types, PackageInv, RetrieveDirect
  PROVE  Move /\ work' \in Works
  <1>1. Quiet /\ pc = "direct"
    BY DEF RetrieveDirect, requestRest, around, Quiet, Still, SameAround, SameRows
  <1> DEFINE n == SelectedNode
  <1>2. PICK excerpt \in Excerpts(n), records \in SUBSET CompileContext(n) :
           RetrievalEnds([work.draft EXCEPT
               !.selected = n, !.included = records,
               !.status = DirectStatus(n, excerpt), !.action = DirectAction(n, excerpt)])
    BY DEF RetrieveDirect
  <1> DEFINE p == [work.draft EXCEPT !.selected = n, !.included = records,
                      !.status = DirectStatus(n, excerpt), !.action = DirectAction(n, excerpt)]
  <1>3. RetrievalEnds(p)
    BY <1>2
  <1>4. n \in Nat
    BY SelectedType
  <1> HIDE DEF n
  <1>5. records \in SUBSET Node
    BY ContextType
  <1>6. /\ DirectStatus(n, excerpt) \in Contexts /\ DirectAction(n, excerpt) \in Actions
        /\ DirectAction(n, excerpt) = "use_repository_context" =>
               DirectStatus(n, excerpt) \in {"matched_context", "missing_context"}
    BY <1>4, DirectRight
  <1>7. /\ p \in Packages /\ p.run = work.draft.run /\ p.useful = work.draft.useful
        /\ p.skipped = work.draft.skipped /\ p.all = work.draft.all /\ p.deep = work.draft.deep
        /\ p.status = DirectStatus(n, excerpt) /\ p.action = DirectAction(n, excerpt)
    BY <1>4, <1>5, <1>6, WorkParts DEF Packages
  <1> HIDE DEF p
  <1>8. Accounted(p)
    BY <1>7 DEF PackageInv, Accounted
  <1>9. Claims(p) /\ (IsDeep(p) => IsDeep(work.draft))
    BY <1>6, <1>7 DEF Claims, IsDeep
  <1>10. QED
    BY <1>1, <1>3, <1>7, <1>8, <1>9, RetrievalEndsMoves

\* The memory agent's results become an envelope.
LEMMA EndAgenticMoves ==
  ASSUME Types, PackageInv, EndAgentic
  PROVE  Move /\ work' \in Works
  <1>1. Quiet /\ pc = "agentic"
    BY DEF EndAgentic, requestRest, around, Quiet, Still, SameAround, SameRows
  <1> DEFINE p == Envelope(work.draft, agent.results, agent.claim)
  <1>2. RetrievalEnds(p)
    BY DEF EndAgentic
  <1>3. agent.results \in ResultLists /\ agent.claim \in Claimed
    BY DEF Types, Agents
  <1>4. Accounted(work.draft)
    BY DEF PackageInv
  <1>5. /\ p \in Packages /\ p.run = work.draft.run /\ Claims(p) /\ Accounted(p)
        /\ IsDeep(p) => IsDeep(work.draft)
    BY <1>3, <1>4, WorkParts, EnvelopeRight DEF IsDeep
  <1> HIDE DEF p
  <1>6. QED
    BY <1>1, <1>2, <1>5, RetrievalEndsMoves

\* Everything deep retrieval packed is in the package or listed as left out.
LEMMA EndDeepMoves ==
  ASSUME Types, PackageInv, PackInv, EndDeep
  PROVE  Move /\ work' \in Works
  <1>1. Quiet /\ pc = "packing" /\ pack.todo = <<>>
    BY DEF EndDeep, requestRest, around, Quiet, Still, SameAround, SameRows
  <1> DEFINE status == IF pack.kept # <<>> THEN "deep_context" ELSE "deep_no_context"
             p == [work.draft EXCEPT
                      !.deep = "yes", !.useful = pack.kept, !.skipped = pack.skipped,
                      !.all = Members(deep.useful), !.included = NodesOf(pack.kept),
                      !.status = status]
  <1>2. RetrievalEnds(p)
    BY DEF EndDeep
  <1>3. /\ pack.kept \in ChunkLists /\ pack.skipped \in SUBSET Node /\ deep.useful \in Seq(Node)
    BY DEF Types, Packs, Deeps, NodeLists
  <1>4. Members(deep.useful) \in SUBSET Node /\ NodesOf(pack.kept) \in SUBSET Node
    <2>1. pack.kept \in Seq(Chunks)
      BY <1>3 DEF ChunkLists
    <2>2. \A i \in DOMAIN pack.kept : pack.kept[i] \in Chunks
      BY <2>1
    <2>3. \A c \in Chunks : c.node \in Node
      BY DEF Chunks
    <2>4. QED
      BY <1>3, <2>2, <2>3 DEF Members, NodesOf
  <1>5. status \in Contexts /\ "yes" \in YesNo
    BY DEF Contexts, YesNo
  <1> HIDE DEF status
  <1>6. /\ p \in Packages /\ p.run = work.draft.run /\ p.useful = pack.kept
        /\ p.skipped = pack.skipped /\ p.all = Members(deep.useful)
        /\ p.included = NodesOf(pack.kept) /\ p.action = work.draft.action /\ p.status = status
    BY <1>3, <1>4, <1>5, WorkParts DEF Packages
  <1> HIDE DEF p
  <1>7. Accounted(p)
    <2>1. NodesOf(pack.todo) = {}
      BY <1>1, EmptyList
    <2>2. QED
      BY <1>1, <1>6, <2>1 DEF PackInv, ToPack, Accounted
  <1>8. Claims(p)
    BY <1>1, <1>6 DEF PackageInv, Claims, None
  <1>9. QED
    BY <1>1, <1>2, <1>6, <1>7, <1>8, RetrievalEndsMoves

\* A phase returns its result to the plan or to the caller.
LEMMA PhaseEndsMoves ==
  ASSUME Types, NEW answer \in Replies, answer # NoReply, answer.ok \in {"yes", "no"},
         IF Planned THEN HandlerReturns(answer)
         ELSE reply' = answer /\ pc' = "done" /\ work' = work,
         SameAround, exchanges' = exchanges, saved' = saved, Finishes(answer),
         IF pc = "envelope" THEN Leaves(work.draft.run) ELSE abandoned' = abandoned,
         \/ /\ pc \in {"direct", "agentic", "deep", "ask", "save", "saved"}
            /\ answer.run = work.draft.run /\ answer.ok = "no" /\ answer.exchange = 0
         \/ /\ pc = "saved" /\ answer.run = work.draft.run
            /\ answer.ok = "yes" /\ answer.exchange = Len(exchanges)
         \/ pc = "envelope" /\ answer.run = 0 /\ May("raise")
  PROVE  Move /\ work' \in Works
  <1>1. CASE Planned
    <2> DEFINE outcome == IF answer.ok = "yes" THEN "completed" ELSE "blocked"
               kept == IF PlanStep.kind = "answer" THEN answer ELSE work.answer
    <2>1. /\ work' = [work EXCEPT !.outcome = outcome, !.reason = answer.reason, !.answer = kept]
          /\ pc' = "stepped" /\ reply' = reply
      BY <1>1 DEF HandlerReturns, Goto
    <2>2. outcome \in Outcomes /\ answer.reason \in Reasons /\ kept \in Replies
      BY WorkParts DEF Outcomes, Replies
    <2> HIDE DEF outcome
    <2>3. /\ work' \in Works /\ work'.draft = work.draft /\ work'.step = work.step
          /\ work'.package = work.package /\ work'.retrieved = work.retrieved
          /\ work'.answer = kept /\ SameBundle
      <3> HIDE DEF kept
      <3>1. QED
        BY <2>1, <2>2, WorkParts DEF Works, SameBundle
    <2>4. HandsBack(answer)
      BY <1>1, <2>1, <2>3 DEF HandsBack
    <2>5. QED
      BY <2>3, <2>4 DEF Move
  <1>2. CASE ~Planned
    <2>1. HandsBack(answer)
      BY <1>2 DEF HandsBack
    <2>2. QED
      BY <1>2, <2>1, WorkParts DEF Move
  <1>3. QED
    BY <1>1, <1>2

\* A failed phase blocks its run.
LEMMA FailsMoves ==
  ASSUME Types, NEW reason \in Reasons, reason # None,
         Finish(work.draft.run, "blocked", 0),
         PhaseEnds(Reply("no", reason, work.draft.run, 0)),
         Still, exchanges' = exchanges, saved' = saved,
         pc \in {"direct", "agentic", "deep", "ask", "save", "saved"}
  PROVE  Move /\ work' \in Works
  <1> DEFINE answer == Reply("no", reason, work.draft.run, 0)
  <1>1. /\ answer \in Replies /\ answer.ok = "no" /\ answer.run = work.draft.run
        /\ answer.exchange = 0 /\ answer.reason = reason
    BY WorkParts DEF Reply, Replies
  <1>2. PhaseEnds(answer)
    OBVIOUS
  <1> HIDE DEF answer
  <1>3. answer # NoReply
    BY <1>1 DEF NoReply
  <1>4. Finishes(answer)
    BY <1>1 DEF Finish, Finishes
  <1>5. IF Planned THEN HandlerReturns(answer)
        ELSE reply' = answer /\ pc' = "done" /\ work' = work
    BY <1>2 DEF PhaseEnds, Goto
  <1>6. SameAround /\ abandoned' = abandoned /\ pc # "envelope"
    BY DEF Still
  <1>7. QED
    BY <1>1, <1>3, <1>4, <1>5, <1>6, PhaseEndsMoves

\* A retrieval that raises.
LEMMA RetrieveRaisesMoves ==
  ASSUME Types, RetrieveRaises
  PROVE  Move /\ work' \in Works
  <1>1. Still /\ exchanges' = exchanges /\ saved' = saved
    BY DEF RetrieveRaises, requestRest, around, Still, SameAround
  <1>2. /\ pc \in {"direct", "agentic", "deep"}
        /\ \E reason \in {"retrieval_failed", "agentic_retrieval_failed", "deep_retrieval_failed"} :
               /\ Finish(work.draft.run, "blocked", 0)
               /\ PhaseEnds(Reply("no", reason, work.draft.run, 0))
    BY DEF RetrieveRaises, RetrievalFailed
  <1>3. {"retrieval_failed", "agentic_retrieval_failed", "deep_retrieval_failed"} \subseteq Reasons \ {None}
    BY DEF Reasons, None
  <1>4. QED
    BY <1>1, <1>2, <1>3, FailsMoves

\* An adapter that fails.
LEMMA AdapterFailsMoves ==
  ASSUME Types, AdapterFails
  PROVE  Move /\ work' \in Works
  <1>1. Still /\ exchanges' = exchanges /\ saved' = saved /\ pc = "ask"
    BY DEF AdapterFails, requestRest, around, Still, SameAround
  <1>2. /\ Finish(work.draft.run, "blocked", 0)
        /\ PhaseEnds(Reply("no", "answer_adapter_failed", work.draft.run, 0))
    BY DEF AdapterFails, SynthesisFailed
  <1>3. "answer_adapter_failed" \in Reasons \ {None}
    BY DEF Reasons, None
  <1>4. QED
    BY <1>1, <1>2, <1>3, FailsMoves

\* A save that fails.
LEMMA SaveFailsMoves ==
  ASSUME Types, SaveFails
  PROVE  Move /\ work' \in Works
  <1>1. Still /\ exchanges' = exchanges /\ saved' = saved /\ pc \in {"save", "saved"}
    BY DEF SaveFails, requestRest, around, Still, SameAround
  <1>2. /\ Finish(work.draft.run, "blocked", 0)
        /\ PhaseEnds(Reply("no", "answer_save_failed", work.draft.run, 0))
    BY DEF SaveFails, SynthesisFailed
  <1>3. "answer_save_failed" \in Reasons \ {None}
    BY DEF Reasons, None
  <1>4. QED
    BY <1>1, <1>2, <1>3, FailsMoves

\* An exchange that was saved becomes the answer.
LEMMA AnsweredMoves ==
  ASSUME Types, Answered
  PROVE  Move /\ work' \in Works
  <1>1. Still /\ exchanges' = exchanges /\ saved' = saved /\ pc = "saved"
    BY DEF Answered, requestRest, around, Still, SameAround
  <1> DEFINE answer == Reply("yes", "answered", work.draft.run, Len(exchanges))
  <1>2. /\ answer \in Replies /\ answer.ok = "yes" /\ answer.run = work.draft.run
        /\ answer.exchange = Len(exchanges)
    <2>1. "answered" \in Reasons
      BY DEF Reasons
    <2>2. QED
      BY <2>1, WorkParts DEF Reply, Replies
  <1>3. PhaseEnds(answer) /\ Finish(work.draft.run, "completed", Len(exchanges))
    BY DEF Answered
  <1> HIDE DEF answer
  <1>4. answer # NoReply
    BY <1>2 DEF NoReply, None
  <1>5. Finishes(answer)
    BY <1>1, <1>2, <1>3 DEF Finish, Finishes
  <1>6. IF Planned THEN HandlerReturns(answer)
        ELSE reply' = answer /\ pc' = "done" /\ work' = work
    BY <1>3 DEF PhaseEnds, Goto
  <1>7. SameAround /\ abandoned' = abandoned
    BY <1>1 DEF Still
  <1>8. QED
    BY <1>1, <1>2, <1>4, <1>5, <1>6, <1>7, PhaseEndsMoves

\* A bundle that cannot be made into an envelope fails without its run.
LEMMA BundleFailsMoves ==
  ASSUME Types, PlanInv, BundleFails
  PROVE  Move /\ work' \in Works
  <1>1. /\ SameAround /\ exchanges' = exchanges /\ saved' = saved /\ runs' = runs
        /\ pc = "envelope" /\ Planned /\ May("raise") /\ Leaves(work.draft.run)
    BY DEF BundleFails, around, SameAround, PlanInv, Abandon, Leaves
  <1> DEFINE answer == Reply("no", "context_bundle_envelope_failed", 0, 0)
  <1>2. answer \in Replies /\ answer.ok = "no" /\ answer.run = 0
    BY DEF Reply, Replies, Reasons
  <1>3. HandlerReturns(answer)
    BY DEF BundleFails
  <1> HIDE DEF answer
  <1>4. answer # NoReply /\ Finishes(answer)
    BY <1>1, <1>2 DEF NoReply, None, Finishes
  <1>5. QED
    BY <1>1, <1>2, <1>3, <1>4, PhaseEndsMoves

\* An exception that goes past a phase ends its step, or the request.
LEMMA EscapesMoves ==
  ASSUME Types, PackInv, DeepRetrievalEscapes \/ DeepSynthesisEscapes
  PROVE  Move /\ work' \in Works
  <1>1. /\ SameAround /\ SameRows /\ saved' = saved /\ May("raise") /\ PhaseRaises
        /\ pc \in {"deep", "packing"} \/ (pc \in {"synthesize", "repacking"} /\ IsDeep(work.draft))
    BY DEF DeepRetrievalEscapes, DeepSynthesisEscapes, around, SameAround, SameRows, PackInv
  <1>2. Leaves(work.draft.run)
    BY <1>1 DEF PhaseRaises, Abandon, Leaves
  <1>3. CASE Planned
    <2>1. StepEnds("blocked", "handler_failed") /\ reply' = reply
      BY <1>1, <1>3 DEF PhaseRaises
    <2>2. "blocked" \in Outcomes /\ "handler_failed" \in Reasons
      BY DEF Outcomes, Reasons
    <2>3. work' \in Works /\ SameArtifacts /\ work'.draft = work.draft /\ pc' = "stepped"
      BY <2>1, <2>2, StepEndsRight
    <2>4. Escapes
      BY <1>1, <1>2, <1>3, <2>1, <2>3 DEF Escapes
    <2>5. QED
      BY <2>3, <2>4 DEF Move
  <1>4. CASE ~Planned
    <2>1. reply' = Reply("raised", None, 0, 0) /\ pc' = "done" /\ work' = work
      BY <1>1, <1>4 DEF PhaseRaises, Goto
    <2>2. reply' \in Replies /\ reply'.run = 0
      BY <2>1 DEF Reply, Replies, Reasons
    <2>3. Escapes
      BY <1>1, <1>2, <1>4, <2>1, <2>2 DEF Escapes, SameArtifacts, SameBundle
    <2>4. QED
      BY <2>1, <2>3, WorkParts DEF Move
  <1>5. QED
    BY <1>3, <1>4

\* A bundle becomes an honest package.
LEMMA BuildBundleMoves ==
  ASSUME Types, PackageInv, BuildBundle
  PROVE  Move /\ work' \in Works
  <1>1. Quiet /\ Enters("envelope", "synthesize")
    BY DEF BuildBundle, requestRest, around, Quiet, Still, SameAround, SameRows, Enters, Goto
  <1> DEFINE e == Envelope(work.draft, work.bundle, None)
             n == IF setting.focus # 0 THEN setting.focus ELSE LastTop(work.bundle)
             p == [e EXCEPT !.selected = n]
  <1>2. work' = [work EXCEPT !.draft = p]
    BY DEF BuildBundle
  <1>3. n \in Nat
    BY WorkParts, SettingType, LastTopType DEF ResultLists
  <1>4. None \in Claimed /\ Accounted(work.draft)
    BY DEF Claimed, PackageInv
  <1>5. /\ e \in Packages /\ e.run = work.draft.run /\ Claims(e) /\ Accounted(e)
        /\ e.deep = work.draft.deep
    BY <1>4, WorkParts, EnvelopeRight
  <1> HIDE DEF e, n
  <1>6. /\ p \in Packages /\ p.run = e.run /\ p.useful = e.useful /\ p.skipped = e.skipped
        /\ p.all = e.all /\ p.action = e.action /\ p.status = e.status /\ p.included = e.included
        /\ p.deep = e.deep
    BY <1>3, <1>5 DEF Packages
  <1> HIDE DEF p
  <1>7. Accounted(p) /\ Claims(p)
    BY <1>5, <1>6 DEF Accounted, Claims
  <1>8. work' \in Works /\ SameArtifacts /\ work'.draft = p
    BY <1>2, <1>6, WorkParts DEF Works, SameArtifacts, SameBundle
  <1>9. QED
    BY <1>1, <1>5, <1>6, <1>7, <1>8 DEF Drafts, Move

\* Everything that is packed anew is in the prompt or listed as left out.
LEMMA EndRepackMoves ==
  ASSUME Types, PackageInv, PackInv, EndRepack
  PROVE  Move /\ work' \in Works
  <1>1. Quiet /\ Enters("repacking", "ask") /\ pack.todo = <<>>
    BY DEF EndRepack, requestRest, around, Quiet, Still, SameAround, SameRows, Enters, Goto
  <1> DEFINE p == [work.draft EXCEPT !.useful = pack.kept, !.skipped = work.draft.skipped \cup pack.skipped]
  <1>2. work' = [work EXCEPT !.draft = p]
    BY WorkParts DEF EndRepack, Works, Packages
  <1>3. pack.kept \in ChunkLists /\ work.draft.skipped \cup pack.skipped \in SUBSET Node
    BY WorkParts DEF Types, Packs, Packages
  <1>4. /\ p \in Packages /\ p.run = work.draft.run /\ p.useful = pack.kept
        /\ p.skipped = work.draft.skipped \cup pack.skipped
        /\ p.all = work.draft.all /\ p.action = work.draft.action
        /\ p.status = work.draft.status /\ p.included = work.draft.included
        /\ p.deep = work.draft.deep
    BY <1>3, WorkParts DEF Packages
  <1> HIDE DEF p
  <1>5. Accounted(p)
    <2>1. NodesOf(pack.todo) = {}
      BY <1>1, EmptyList
    <2>2. /\ NodesOf(pack.kept) \cup pack.skipped = NodesOf(work.draft.useful)
          /\ Distinct(pack.kept) /\ pack.skipped \cap NodesOf(pack.kept) = {}
      BY <1>1, <2>1 DEF PackInv, ToPack, Enters
    <2>3. Accounted(work.draft)
      BY DEF PackageInv
    <2>4. QED
      BY <1>4, <2>2, <2>3 DEF Accounted
  <1>6. Claims(p)
    BY <1>4 DEF PackageInv, Claims
  <1>7. work' \in Works /\ SameArtifacts /\ work'.draft = p
    BY <1>2, <1>4, WorkParts DEF Works, SameArtifacts, SameBundle
  <1>8. QED
    BY <1>1, <1>4, <1>5, <1>6, <1>7 DEF Drafts, Move

\* Every step is one of these.
LEMMA Moves ==
  ASSUME Types, PackageInv, PackInv, PlanInv, Next
  PROVE  Move /\ work' \in Works
  <1>1. CASE PlanNext
    BY <1>1, RetrievalStepMoves, AnswerStepMoves, GatherStepMoves, EndStepMoves, EndPlanMoves
       DEF PlanNext
  <1>2. CASE BeginRetrieval \/ RetrieveDirect \/ RetrieveRaises \/ EndAgentic \/ EndDeep
             \/ BeginBundle \/ BuildBundle \/ BundleFails
    BY <1>2, BeginRetrievalMoves, RetrieveDirectMoves, RetrieveRaisesMoves, EndAgenticMoves,
       EndDeepMoves, BeginBundleMoves, BuildBundleMoves, BundleFailsMoves
  <1>3. CASE EndRepack \/ AdapterFails \/ SaveFails \/ Answered
    BY <1>3, EndRepackMoves, AdapterFailsMoves, SaveFailsMoves, AnsweredMoves
  <1>4. CASE RunAgent \/ RunDeep \/ PackChunk \/ Vanish
    <2>1. Quiet /\ work' = work /\ pc' = pc
      BY <1>4 DEF RunAgent, RunDeep, PackChunk, Vanish, requestVars, Quiet, Still, SameAround, SameRows
    <2>2. QED
      BY <2>1, WorkParts DEF MovesOn, Move
  <1>5. CASE PackUseful \/ Repack \/ Synthesize \/ AdapterAnswers
    <2>1. Quiet /\ work' = work
      BY <1>5 DEF PackUseful, Repack, Synthesize, AdapterAnswers, requestRest, around, Quiet,
                  Still, SameAround, SameRows
    <2>2. \/ Enters("deep", "packing") \/ Enters("synthesize", "repacking")
          \/ Enters("synthesize", "ask") \/ Enters("ask", "save")
      BY <1>5 DEF PackUseful, Repack, Synthesize, AdapterAnswers, Goto, Enters
    <2>3. QED
      BY <2>1, <2>2, WorkParts DEF MovesOn, Move
  <1>6. CASE SaveExchange
    <2>1. Stores /\ work' = work
      BY <1>6 DEF SaveExchange, requestRest, around, Still, SameAround, Goto, Enters, Stores
    <2>2. QED
      BY <2>1, WorkParts DEF Move
  <1>7. CASE Crash
    <2>1. Dies /\ work' = NoWork
      BY <1>7 DEF Crash, Goto, SameRows, Dies
    <2>2. QED
      BY <2>1, NoWorkType DEF Move
  <1>8. CASE Resume
    <2>1. Resumes /\ work' = saved
      BY <1>8 DEF Resume, requestRest, around, Goto, SameRows, Quiet, Still, SameAround, Enters, Resumes
    <2>2. QED
      BY <2>1, WorkParts DEF Move
  <1>9. CASE DeepRetrievalEscapes \/ DeepSynthesisEscapes
    BY <1>9, EscapesMoves
  <1>10. QED
    BY <1>1, <1>2, <1>3, <1>4, <1>5, <1>6, <1>7, <1>8, <1>9
       DEF Next, Proceed, RetrievalNext, SynthesisNext

(***************************************************************************)
(* The loops, step by step                                                 *)
(***************************************************************************)
LEMMA AgentIdleRight ==
  ASSUME NEW a \in {AgentIdle, AgentStarts}
  PROVE  a \in Agents /\ AgentRules(a)
  <1>1. /\ <<>> \in ToolCalls /\ <<>> \in ResultLists /\ <<>> \in NoteLists /\ None \in Fallbacks
        /\ None \in Claimed /\ None \in AgentStops /\ {"idle", "deciding"} \subseteq AgentPlaces
    BY DEF ToolCalls, ResultLists, NoteLists, Fallbacks, Claimed, AgentStops, AgentPlaces
  <1>2. PICK at \in {"idle", "deciding"}, turn \in {0, 1} :
           a = [at |-> at, turn |-> turn, todo |-> <<>>, results |-> <<>>, fallback |-> None,
                done |-> 0, log |-> <<>>, claim |-> None, stop |-> None]
    BY DEF AgentIdle, AgentStarts
  <1>3. a \in Agents /\ a.log = <<>> /\ a.at # "calling"
    BY <1>1, <1>2 DEF Agents
  <1>4. DOMAIN a.log = {}
    BY <1>3
  <1>5. QED
    BY <1>3, <1>4 DEF AgentRules

\* Deep retrieval at its start.
LEMMA DeepIdleRight ==
  ASSUME NEW d \in {DeepIdle, DeepStarts}
  PROVE  d \in Deeps /\ DeepRules(d)
  <1>1. /\ <<>> \in NodeLists /\ <<>> \in RoundLists /\ <<>> \in ScoreLists /\ None \in DeepStops
        /\ {"idle", "planning"} \subseteq DeepPlaces
    BY DEF NodeLists, RoundLists, ScoreLists, DeepStops, DeepPlaces
  <1>2. PICK at \in {"idle", "planning"}, loops \in {0, 1} :
           /\ d = [at |-> at, loops |-> loops, invalid |-> 0, seen |-> {}, triaged |-> <<>>,
                   useful |-> <<>>, rounds |-> <<>>, scores |-> <<>>, stop |-> None]
           /\ at = "planning" => loops = 1
    BY DEF DeepIdle, DeepStarts
  <1>3. /\ d \in Deeps /\ d.at \in {"idle", "planning"} /\ d.triaged = <<>> /\ d.useful = <<>>
        /\ d.rounds = <<>> /\ d.invalid = 0 /\ d.seen = {} /\ (d.at = "planning" => d.loops = 1)
    BY <1>1, <1>2 DEF Deeps
  <1>4. DOMAIN <<>> = {} /\ Len(<<>>) = 0
    OBVIOUS
  <1>5. Members(<<>>) = {} /\ IsInjective(<<>>)
    BY <1>4 DEF Members, IsInjective
  <1>6. QED
    BY <1>3, <1>4, <1>5, MaxDeepType DEF DeepRules

\* The memory agent keeps to its rules whatever step is taken.
LEMMA AgentKeepsRules ==
  ASSUME Types, AgentInv, Next
  PROVE  agent' \in Agents /\ AgentInv' /\ nodes' \subseteq Node
  <1>1. /\ agent' \in {agent, AgentIdle, AgentStarts} \/ AgentNext
        /\ nodes' = nodes \/ (\E n \in nodes : nodes' = nodes \ {n})
    <2>1. CASE PlanNext
      BY <2>1 DEF PlanNext, RetrievalStep, AnswerStep, GatherStep, EndStep, EndPlan, idleLoops
    <2>2. CASE RetrievalNext
      BY <2>2 DEF RetrievalNext, BeginRetrieval, RetrieveDirect, RetrieveRaises, RunAgent,
            EndAgentic, RunDeep, PackUseful, PackChunk, EndDeep, BeginBundle, BuildBundle,
            BundleFails, DeepRetrievalEscapes, idleLoops, agentVars, AgentNext, Decide, CallTool,
            EndTurn
    <2>3. CASE SynthesisNext
      BY <2>3 DEF SynthesisNext, Repack, EndRepack, Synthesize, AdapterAnswers, AdapterFails,
            SaveExchange, SaveFails, Answered, DeepSynthesisEscapes, idleLoops, agentVars
    <2>4. CASE Vanish \/ Crash \/ Resume
      BY <2>4 DEF Vanish, Crash, Resume, idleLoops
    <2>5. QED
      BY <2>1, <2>2, <2>3, <2>4 DEF Next, Proceed
  <1>2. nodes' \subseteq Node
    BY <1>1 DEF Types
  <1>3. CASE AgentNext
    BY <1>2, <1>3, AgentStep
  <1>4. CASE agent' \in {agent, AgentIdle, AgentStarts}
    <2>1. agent \in Agents /\ AgentRules(agent)
      BY DEF Types, AgentInv, AgentRules, FallbackFirst
    <2>2. agent' \in Agents /\ AgentRules(agent')
      BY <1>4, <2>1, AgentIdleRight
    <2>3. QED
      BY <1>2, <2>2 DEF AgentInv, AgentRules, FallbackFirst
  <1>5. QED
    BY <1>1, <1>3, <1>4

\* So does deep retrieval.
LEMMA DeepKeepsRules ==
  ASSUME Types, DeepInv, Next
  PROVE  deep' \in Deeps /\ DeepInv'
  <1>1. deep' \in {deep, DeepIdle, DeepStarts} \/ DeepNext \/ Score \/ DoNotScore
    <2>1. CASE PlanNext
      BY <2>1 DEF PlanNext, RetrievalStep, AnswerStep, GatherStep, EndStep, EndPlan, idleLoops
    <2>2. CASE RetrievalNext
      BY <2>2 DEF RetrievalNext, BeginRetrieval, RetrieveDirect, RetrieveRaises, RunAgent,
            EndAgentic, RunDeep, PackUseful, PackChunk, EndDeep, BeginBundle, BuildBundle,
            BundleFails, DeepRetrievalEscapes, idleLoops, deepVars, KeepChunk, SkipChunk
    <2>3. CASE SynthesisNext
      BY <2>3 DEF SynthesisNext, Repack, EndRepack, Synthesize, AdapterAnswers, AdapterFails,
            SaveExchange, SaveFails, Answered, DeepSynthesisEscapes, idleLoops
    <2>4. CASE Vanish \/ Crash \/ Resume
      BY <2>4 DEF Vanish, Crash, Resume, idleLoops, deepVars
    <2>5. QED
      BY <2>1, <2>2, <2>3, <2>4 DEF Next, Proceed
  <1>2. CASE DeepNext \/ Score \/ DoNotScore
    BY <1>2, DeepStep
  <1>3. CASE deep' \in {deep, DeepIdle, DeepStarts}
    <2>1. deep \in Deeps /\ DeepRules(deep)
      BY DeepRulesAre DEF Types
    <2>2. deep' \in Deeps /\ DeepRules(deep')
      BY <1>3, <2>1, DeepIdleRight
    <2>3. QED
      BY <2>2 DEF DeepInv, DeepRules, StopIsNamed, IsInjective
  <1>4. QED
    BY <1>1, <1>2, <1>3

\* The prompt is packed: as PackRules has it, or not at all.
LEMMA PackingKeepsRules ==
  ASSUME Types, DeepInv, PackageInv, PackInv, Next
  PROVE  pack' \in Packs /\ PackInv'
  <1>1. /\ setting.budget \in BudgetPlan /\ setting.overhead \in Nat /\ setting.withHistory \in Nat
        /\ pack \in Packs /\ setting' = setting
    <2>1. setting' = setting
      BY DEF Next, Proceed, PlanNext, RetrievalStep, AnswerStep, GatherStep, EndStep, EndPlan,
            RetrievalNext, BeginRetrieval, RetrieveDirect, RetrieveRaises, RunAgent,
            EndAgentic, RunDeep, PackUseful, PackChunk, EndDeep, DeepRetrievalEscapes,
            BeginBundle, BuildBundle, BundleFails, SynthesisNext, Repack, EndRepack,
            DeepSynthesisEscapes, Synthesize, AdapterAnswers, AdapterFails, SaveExchange,
            SaveFails, Answered, Vanish, Crash, Resume, requestRest, around, requestVars
    <2>2. QED
      BY <2>1, SettingType DEF Types
  <1> DEFINE W(l) == IF l = "packing" THEN Members(deep'.useful) ELSE NodesOf(work'.draft.useful)
             O(l) == IF l = "packing" THEN setting.overhead ELSE setting.withHistory
  <1>2. ASSUME NEW l \in {"packing", "repacking"}, pc' = l, pack' \in Packs,
               PackRules(pack', W(l), setting.budget, O(l)),
               l = "repacking" => IsDeep(work'.draft)
        PROVE  pack' \in Packs /\ PackInv'
    <2>1. ToPack' = W(l) /\ Overhead' = O(l)
      BY <1>1, <1>2 DEF ToPack, Overhead
    <2>2. pc' # "ask"
      BY <1>2
    <2>3. LeftOutIsListed'
      BY <2>2 DEF LeftOutIsListed
    <2> HIDE DEF W, O
    <2>4. QED
      BY <1>1, <1>2, <2>1, <2>3 DEF PackInv, PackRules
  <1>3. ASSUME pc' \notin {"packing", "repacking"}, LeftOutIsListed', pack' \in Packs
        PROVE  pack' \in Packs /\ PackInv'
    BY <1>3 DEF PackInv
  <1>4. CASE PackUseful
    <2>1. deep.useful \in Seq(Node) /\ IsInjective(deep.useful)
      BY DEF Types, Deeps, NodeLists, DeepInv
    <2> DEFINE chunks == [i \in DOMAIN deep.useful |-> Chunk(deep.useful[i])]
    <2>2. chunks \in Seq(Chunks) /\ Distinct(chunks) /\ NodesOf(chunks) = Members(deep.useful)
      BY <2>1, UsefulChunks
    <2>3. /\ pack' = PackStarts(chunks, setting.budget, setting.overhead)
          /\ pc' = "packing" /\ deep' = deep
      BY <1>4 DEF PackUseful, Goto
    <2> HIDE DEF chunks
    <2>4. pack' \in Packs /\ PackRules(pack', W("packing"), setting.budget, O("packing"))
      BY <1>1, <2>2, <2>3, PackStartsRight
    <2> HIDE DEF O, W
    <2>5. QED
      BY <1>2, <2>3, <2>4
  <1>5. CASE Repack
    <2>1. work.draft.useful \in Seq(Chunks) /\ Distinct(work.draft.useful)
      BY WorkParts DEF Packages, ChunkLists, PackageInv, Accounted
    <2>2. /\ pack' = PackStarts(work.draft.useful, setting.budget, setting.withHistory)
          /\ pc' = "repacking" /\ work' = work /\ IsDeep(work.draft)
      BY <1>5 DEF Repack, Goto
    <2>3. pack' \in Packs /\ PackRules(pack', W("repacking"), setting.budget, O("repacking"))
      BY <1>1, <2>1, <2>2, PackStartsRight
    <2>4. IsDeep(work'.draft)
      BY <2>2
    <2> HIDE DEF O, W
    <2>5. QED
      BY <1>2, <2>2, <2>3, <2>4
  <1>6. CASE PackChunk
    <2>1. /\ pc \in {"packing", "repacking"} /\ pc' = pc /\ work' = work
          /\ KeepChunk \/ SkipChunk
      BY <1>6 DEF PackChunk, requestVars
    <2>2. PackRules(pack, ToPack, setting.budget, O(pc))
      BY <2>1 DEF PackInv, PackRules, Overhead
    <2> HIDE DEF O
    <2>3. pack' \in Packs /\ PackRules(pack', ToPack, setting.budget, O(pc)) /\ deep' = deep
      BY <1>1, <2>1, <2>2, PackChunkRight
    <2>4. ToPack = W(pc)
      BY <2>1, <2>3 DEF ToPack
    <2>5. pc = "repacking" => IsDeep(work'.draft)
      BY <2>1 DEF PackInv
    <2> HIDE DEF W
    <2>6. QED
      BY <1>2, <2>1, <2>3, <2>4, <2>5
  <1>7. CASE Vanish
    BY <1>1, <1>7 DEF Vanish, deepVars, requestVars, PackInv, LeftOutIsListed, ToPack, Overhead
  <1>8. CASE EndRepack
    <2>1. /\ pc = "repacking" /\ pc' = "ask" /\ pack' = PackIdle /\ pack.todo = <<>>
          /\ work' = [work EXCEPT !.draft.useful = pack.kept,
                                  !.draft.skipped = work.draft.skipped \cup pack.skipped]
      BY <1>8, WorkParts DEF EndRepack, Goto, Works, Packages
    <2>2. /\ work'.draft.useful = pack.kept
          /\ work'.draft.skipped = work.draft.skipped \cup pack.skipped
          /\ work'.draft.all = work.draft.all
      BY <2>1, WorkParts DEF Works, Packages
    <2>3. NodesOf(pack.todo) = {}
      BY <2>1, EmptyList
    <2>4. /\ NodesOf(pack.kept) \cup pack.skipped = NodesOf(work.draft.useful)
          /\ pack.skipped \cap NodesOf(pack.kept) = {}
          /\ Measured(setting.budget, setting.withHistory, pack.kept)
      BY <2>1, <2>3 DEF PackInv, ToPack, Overhead
    <2>5. /\ NodesOf(work.draft.useful) \cup work.draft.skipped = work.draft.all
          /\ NodesOf(work.draft.useful) \cap work.draft.skipped = {}
      BY DEF PackageInv, Accounted
    <2>6. /\ NodesOf(work'.draft.useful) \cup work'.draft.skipped = work'.draft.all
          /\ NodesOf(work'.draft.useful) \cap work'.draft.skipped = {}
      BY <2>2, <2>4, <2>5
    <2>7. Measured(setting'.budget, setting'.withHistory, work'.draft.useful)
      BY <1>1, <2>2, <2>4
    <2>8. LeftOutIsListed'
      BY <2>6, <2>7 DEF LeftOutIsListed, Measured
    <2>9. QED
      BY <1>3, <2>1, <2>8, PackIdleType
  <1>9. CASE Synthesize
    <2>1. pc' = "ask" /\ work' = work /\ pack' = pack /\ ~IsDeep(work.draft)
      BY <1>9 DEF Synthesize, Goto, idleLoops
    <2>2. LeftOutIsListed'
      BY <2>1 DEF LeftOutIsListed, IsDeep
    <2>3. QED
      BY <1>1, <1>3, <2>1, <2>2
  <1>10. CASE PlanNext \/ RunAgent \/ RunDeep \/ BeginRetrieval \/ RetrieveDirect
              \/ RetrieveRaises \/ EndAgentic \/ EndDeep \/ BeginBundle \/ BuildBundle
              \/ BundleFails \/ AdapterAnswers \/ AdapterFails \/ SaveExchange \/ SaveFails
              \/ Answered \/ Crash \/ Resume \/ DeepRetrievalEscapes \/ DeepSynthesisEscapes
    <2>1. pc' \notin {"packing", "repacking", "ask"}
      <3>1. CASE PlanNext
        BY <3>1 DEF PlanNext, RetrievalStep, AnswerStep, GatherStep, EndStep, EndPlan, StepEnds, Goto
      <3>2. CASE RunAgent \/ RunDeep \/ BeginRetrieval
        BY <3>2, ModeType DEF RunAgent, RunDeep, BeginRetrieval, requestVars, Goto
      <3>3. CASE RetrieveDirect \/ EndAgentic \/ EndDeep
        BY <3>3 DEF RetrieveDirect, EndAgentic, EndDeep, RetrievalEnds, Goto
      <3>4. CASE RetrieveRaises \/ BundleFails \/ AdapterFails \/ SaveFails \/ Answered
        BY <3>4 DEF RetrieveRaises, BundleFails, AdapterFails, SaveFails, Answered,
              RetrievalFailed, SynthesisFailed, PhaseEnds, HandlerReturns, Goto
      <3>5. CASE BeginBundle \/ BuildBundle \/ AdapterAnswers \/ SaveExchange \/ Crash \/ Resume
        BY <3>5 DEF BeginBundle, BuildBundle, AdapterAnswers, SaveExchange, Crash, Resume, Goto
      <3>6. CASE DeepRetrievalEscapes \/ DeepSynthesisEscapes
        BY <3>6 DEF DeepRetrievalEscapes, DeepSynthesisEscapes, PhaseRaises, StepEnds, Goto
      <3>7. QED
        BY <1>10, <3>1, <3>2, <3>3, <3>4, <3>5, <3>6
    <2>2. pack' \in {pack, PackIdle}
      <3>1. CASE PlanNext
        BY <3>1 DEF PlanNext, RetrievalStep, AnswerStep, GatherStep, EndStep, EndPlan, idleLoops
      <3>2. CASE RunAgent \/ RunDeep \/ BeginRetrieval \/ RetrieveDirect \/ EndAgentic
        BY <3>2 DEF RunAgent, RunDeep, BeginRetrieval, RetrieveDirect, EndAgentic, deepVars,
              idleLoops, DeepNext, PlannerStops, InvalidPlan, Search, Score, DoNotScore
      <3>3. CASE EndDeep \/ RetrieveRaises \/ BundleFails \/ AdapterFails \/ SaveFails \/ Answered
        BY <3>3 DEF EndDeep, RetrieveRaises, BundleFails, AdapterFails, SaveFails, Answered, idleLoops
      <3>4. CASE BeginBundle \/ BuildBundle \/ AdapterAnswers \/ SaveExchange \/ Crash \/ Resume
        BY <3>4 DEF BeginBundle, BuildBundle, AdapterAnswers, SaveExchange, Crash, Resume, idleLoops
      <3>5. CASE DeepRetrievalEscapes \/ DeepSynthesisEscapes
        BY <3>5 DEF DeepRetrievalEscapes, DeepSynthesisEscapes
      <3>6. QED
        BY <1>10, <3>1, <3>2, <3>3, <3>4, <3>5
    <2>3. LeftOutIsListed' /\ pack' \in Packs
      BY <1>1, <2>1, <2>2, PackIdleType DEF LeftOutIsListed
    <2>4. QED
      BY <1>3, <2>1, <2>3
  <1>11. QED
    BY <1>4, <1>5, <1>6, <1>7, <1>8, <1>9, <1>10 DEF Next, Proceed, RetrievalNext, SynthesisNext

(***************************************************************************)
(* The plan, the exchanges and the runs, move by move                      *)
(***************************************************************************)

\* Packages are made as Accounted and Claims have them.
LEMMA PackagesStayHonest ==
  ASSUME Types, PackageInv, Move
  PROVE  PackageInv'
  <1>1. /\ Accounted(work.draft) /\ Accounted(work.package) /\ Accounted(saved.package)
        /\ Claims(work.draft) /\ Claims(work.package) /\ Claims(saved.package)
        /\ Accounted(NoPackage) /\ Claims(NoPackage) /\ saved.draft = NoPackage
    BY NoPackageRight DEF PackageInv
  <1>2. SUFFICES /\ Accounted(work'.draft) /\ Accounted(work'.package) /\ Accounted(saved'.package)
                 /\ Claims(work'.draft) /\ Claims(work'.package) /\ Claims(saved'.package)
                 /\ pc' \in {"direct", "agentic", "deep", "packing", "envelope"} =>
                        work'.draft.action = None
                 /\ saved'.draft = NoPackage
    BY DEF PackageInv, Accounted, Claims
  <1>3. CASE MovesOn
    BY <1>1, <1>3 DEF MovesOn, Quiet, Enters, PackageInv
  <1>4. CASE EndsStep \/ TakesPackage \/ Retries
    BY <1>1, <1>4 DEF EndsStep, TakesPackage, Retries, SameArtifacts, Quiet, Enters
  <1>5. CASE Saves
    BY <1>1, <1>5 DEF Saves, Enters
  <1>6. CASE EndsPlan \/ Stores
    BY <1>1, <1>6 DEF EndsPlan, Stores, Enters
  <1>7. CASE Begins
    BY <1>1, <1>7 DEF Begins, SameArtifacts
  <1>8. CASE Retrieves
    <2>1. PICK package \in Packages :
           /\ Accounted(package) /\ Claims(package)
           /\ IF Planned THEN /\ pc' = "stepped" /\ work'.package = package
                              /\ work'.draft = NoPackage
              ELSE /\ pc' = "synthesize" /\ work'.draft = package
                   /\ work'.package = work.package
      BY <1>8 DEF Retrieves
    <2>2. saved' = saved
      BY <1>8 DEF Retrieves, Quiet
    <2>3. QED
      BY <1>1, <2>1, <2>2
  <1>9. CASE Drafts
    BY <1>1, <1>9 DEF Drafts, SameArtifacts, Quiet, Enters
  <1>10. CASE \E answer \in Replies : HandsBack(answer)
    <2>1. work'.draft = work.draft /\ work'.package = work.package /\ saved' = saved
          /\ pc' \in {"stepped", "done"}
      BY <1>10 DEF HandsBack
    <2>2. QED
      BY <1>1, <2>1
  <1>11. CASE Dies
    <2>1. work' = NoWork /\ saved' = saved /\ pc' = "down"
      BY <1>11 DEF Dies
    <2>2. work'.draft = NoPackage /\ work'.package = NoPackage
      BY <2>1 DEF NoWork
    <2>3. QED
      BY <1>1, <2>1, <2>2
  <1>12. CASE Resumes
    BY <1>1, <1>12 DEF Resumes, Quiet, Enters
  <1>13. CASE Escapes
    <2>1. /\ work'.draft = work.draft /\ work'.package = work.package /\ saved' = saved
          /\ pc' \in {"stepped", "done"}
      BY <1>13 DEF Escapes, SameArtifacts
    <2>2. QED
      BY <1>1, <2>1
  <1>14. QED
    BY <1>3, <1>4, <1>5, <1>6, <1>7, <1>8, <1>9, <1>10, <1>11, <1>12, <1>13 DEF Move

\* A plan goes through its steps one after the other.
LEMMA PlanIsFollowed ==
  ASSUME Types, PlanInv, Move
  PROVE  PlanInv'
  <1>1. work \in Works /\ setting' = setting /\ (Planned' <=> Planned)
    BY WorkParts DEF Move, MovesOn, EndsStep, TakesPackage, Retries, Saves, EndsPlan, Begins,
       Retrieves, Drafts, HandsBack, Escapes, Stores, Dies, Resumes, Quiet, Still, SameAround, Planned
  <1>2. work'.step = work.step => PlanOver' = PlanOver /\ PlanStep' = PlanStep
    BY <1>1 DEF PlanOver, PlanStep
  <1>3. CASE MovesOn
    <2>1. /\ work' = work /\ saved' = saved /\ PlanOver' = PlanOver /\ PlanStep' = PlanStep
          /\ crashes' = crashes
      BY <1>2, <1>3 DEF MovesOn, Quiet, Still, SameAround
    <2>2. work.retrieved \in {"yes", "no"}
      BY WorkParts DEF YesNo
    <2>3. CASE pc' = pc
      BY <1>1, <2>1, <2>3 DEF PlanInv
    <2>4. CASE /\ Enters("step", "retrieve") /\ ~PlanOver
               /\ PlanStep.kind = "retrieve" /\ work.retrieved # "yes"
      BY <1>1, <2>1, <2>2, <2>4 DEF PlanInv, Enters, RetrievalPcs, AnswerPcs
    <2>5. CASE Enters("step", "bundle") /\ ~PlanOver /\ PlanStep.kind = "answer" /\ work.answer = NoReply
      BY <1>1, <2>1, <2>5 DEF PlanInv, Enters, RetrievalPcs, AnswerPcs
    <2>6. CASE \/ Enters("deep", "packing") \/ Enters("ask", "save")
               \/ Enters("synthesize", "repacking") \/ Enters("synthesize", "ask")
      BY <1>1, <2>1, <2>6 DEF PlanInv, Enters, RetrievalPcs, AnswerPcs
    <2>7. QED
      BY <1>3, <2>3, <2>4, <2>5, <2>6 DEF MovesOn
  <1>4. CASE EndsStep \/ TakesPackage
    <2>1. /\ saved' = saved /\ PlanOver' = PlanOver /\ PlanStep' = PlanStep /\ SameArtifacts
          /\ crashes' = crashes /\ pc = "step" /\ ~PlanOver
          /\ \/ pc' = "stepped"
             \/ pc' = "synthesize" /\ PlanStep.kind = "answer"
      <3>1. /\ saved' = saved /\ SameArtifacts /\ crashes' = crashes /\ pc = "step" /\ ~PlanOver
            /\ \/ pc' = "stepped"
               \/ pc' = "synthesize" /\ PlanStep.kind = "answer"
        BY <1>4 DEF EndsStep, TakesPackage, Quiet, Still, SameAround, Enters
      <3>2. PlanOver' = PlanOver /\ PlanStep' = PlanStep
        BY <1>2, <3>1 DEF SameArtifacts
      <3>3. QED
        BY <3>1, <3>2
    <2>2. QED
      BY <1>1, <2>1 DEF PlanInv, SameArtifacts, RetrievalPcs, AnswerPcs
  <1>5. CASE Retries
    <2>1. saved' = saved /\ SameArtifacts /\ pc = "stepped" /\ pc' = "step"
      BY <1>5 DEF Retries, Quiet, Enters
    <2>2. QED
      BY <1>1, <2>1 DEF PlanInv, SameArtifacts, RetrievalPcs, AnswerPcs
  <1>6. CASE Saves
    <2>1. /\ saved' = work' /\ pc = "stepped" /\ pc' = "step" /\ work'.package = work.package
          /\ work'.answer = work.answer /\ work'.retrieved = work.retrieved
      BY <1>6 DEF Saves, Enters
    <2>2. QED
      BY <1>1, <2>1 DEF PlanInv, RetrievalPcs, AnswerPcs
  <1>7. CASE EndsPlan
    <2>1. work' = work /\ saved' = saved /\ pc' = "done"
      BY <1>7 DEF EndsPlan, Enters
    <2>2. QED
      BY <1>1, <2>1 DEF PlanInv, RetrievalPcs, AnswerPcs
  <1>8. CASE Begins
    <2>1. /\ saved' = saved /\ PlanOver' = PlanOver /\ PlanStep' = PlanStep /\ SameArtifacts
          /\ \/ pc = "retrieve" /\ pc' \in {"direct", "agentic", "deep"}
             \/ pc = "bundle" /\ pc' = "envelope"
      BY <1>2, <1>8 DEF Begins, SameArtifacts, Enters
    <2>2. QED
      BY <1>1, <2>1 DEF PlanInv, SameArtifacts, RetrievalPcs, AnswerPcs
  <1>9. CASE Retrieves
    <2>1. /\ saved' = saved /\ PlanOver' = PlanOver /\ work'.answer = work.answer
          /\ pc \in {"direct", "agentic", "packing"}
          /\ IF Planned THEN pc' = "stepped" /\ work'.retrieved = "yes"
             ELSE /\ pc' = "synthesize" /\ work'.package = work.package
                  /\ work'.retrieved = work.retrieved
      BY <1>2, <1>9 DEF Retrieves, Quiet
    <2>2. CASE Planned
      BY <1>1, <2>1, <2>2 DEF PlanInv, RetrievalPcs, AnswerPcs
    <2>3. CASE ~Planned
      BY <1>1, <2>1, <2>3 DEF PlanInv, RetrievalPcs, AnswerPcs
    <2>4. QED
      BY <2>2, <2>3
  <1>10. CASE Drafts
    <2>1. /\ saved' = saved /\ PlanOver' = PlanOver /\ PlanStep' = PlanStep /\ SameArtifacts
          /\ \/ pc = "envelope" /\ pc' = "synthesize"
             \/ pc = "repacking" /\ pc' = "ask"
      BY <1>2, <1>10 DEF Drafts, SameArtifacts, Enters, Quiet
    <2>2. QED
      BY <1>1, <2>1 DEF PlanInv, SameArtifacts, RetrievalPcs, AnswerPcs
  <1>11. CASE \E answer \in Replies : HandsBack(answer)
    <2>1. /\ saved' = saved /\ work'.step = work.step /\ work'.package = work.package
          /\ work'.retrieved = work.retrieved
          /\ pc \in {"direct", "agentic", "deep", "ask", "save", "saved", "envelope"}
          /\ IF Planned THEN pc' = "stepped" ELSE pc' = "done" /\ work' = work
      BY <1>11 DEF HandsBack
    <2>2. CASE Planned
      BY <1>1, <1>2, <2>1, <2>2 DEF PlanInv, RetrievalPcs, AnswerPcs
    <2>3. CASE ~Planned
      BY <1>1, <1>2, <2>1, <2>3 DEF PlanInv, RetrievalPcs, AnswerPcs
    <2>4. QED
      BY <2>2, <2>3
  <1>12. CASE Stores
    <2>1. work' = work /\ saved' = saved /\ pc = "save" /\ pc' = "saved"
          /\ PlanOver' = PlanOver /\ PlanStep' = PlanStep
      BY <1>2, <1>12 DEF Stores, Enters
    <2>2. QED
      BY <1>1, <2>1 DEF PlanInv, RetrievalPcs, AnswerPcs
  <1>13. CASE Dies
    <2>1. work' = NoWork /\ saved' = saved /\ pc' = "down" /\ crashes' = crashes + 1
          /\ crashes \in Nat
      BY <1>13 DEF Dies, Types
    <2>2. work'.retrieved = "no" /\ work'.package = NoPackage /\ work'.answer = NoReply
          /\ crashes' # 0
      BY <2>1 DEF NoWork
    <2>3. QED
      BY <1>1, <2>1, <2>2 DEF PlanInv, RetrievalPcs, AnswerPcs
  <1>14. CASE Resumes
    <2>1. work' = saved /\ saved' = saved /\ pc' = "step" /\ Planned
      BY <1>14 DEF Resumes, Quiet, Enters
    <2>2. QED
      BY <1>1, <2>1 DEF PlanInv, RetrievalPcs, AnswerPcs
  <1>15. CASE Escapes
    <2>1. /\ saved' = saved /\ PlanOver' = PlanOver /\ PlanStep' = PlanStep /\ SameArtifacts
          /\ pc \in {"deep", "packing", "synthesize", "repacking"}
          /\ IF Planned THEN pc' = "stepped" ELSE pc' = "done"
      BY <1>2, <1>15 DEF Escapes, SameArtifacts
    <2>2. QED
      BY <1>1, <2>1 DEF PlanInv, SameArtifacts, RetrievalPcs, AnswerPcs
  <1>16. QED
    BY <1>3, <1>4, <1>5, <1>6, <1>7, <1>8, <1>9, <1>10, <1>11, <1>12, <1>13, <1>14, <1>15 DEF Move

\* An exchange is stored only where there is none of this life and no answer.
LEMMA ExchangesAreFew ==
  ASSUME Types, PlanInv, OnceInv, Move
  PROVE  OnceInv'
  <1>1. /\ exchanges \in Seq(Exchange) /\ Len(exchanges) \in Nat /\ forgotten \in Nat
        /\ crashes \in Nat /\ DOMAIN exchanges = 1 .. Len(exchanges)
        /\ \A i \in DOMAIN exchanges : exchanges[i].life \in Nat
    <2>1. \A i \in DOMAIN exchanges : exchanges[i] \in Exchange
      BY WorkParts
    <2>2. QED
      BY <2>1, WorkParts DEF Types, Exchange
  <1>2. /\ Stored => pc \in {"saved", "done"} \/ work.answer # NoReply
        /\ pc \in AnswerPcs \cup {"saved"} => work.answer = NoReply
        /\ saved.answer # NoReply => pc = "down" \/ work.answer # NoReply
    BY DEF OnceInv
  <1>3. ASSUME exchanges' = exchanges, crashes' = crashes, forgotten' = forgotten,
               saved'.answer = saved.answer,
               Stored => pc' \in {"saved", "done"} \/ work'.answer # NoReply,
               pc' \in AnswerPcs \cup {"saved"} => work'.answer = NoReply,
               saved.answer # NoReply => pc' = "down" \/ work'.answer # NoReply,
               pc' = "saved" => pc = "saved" /\ work'.draft = work.draft
        PROVE  OnceInv'
    <2>1. Stored' <=> Stored
      BY <1>3 DEF Stored
    <2>2. QED
      BY <1>3, <2>1 DEF OnceInv
  <1>4. CASE MovesOn
    <2>1. /\ exchanges' = exchanges /\ crashes' = crashes /\ forgotten' = forgotten
          /\ saved' = saved /\ work' = work
      BY <1>4 DEF MovesOn, Quiet, Still, SameAround, SameRows
    <2>2. CASE pc' = pc
      BY <1>2, <1>3, <2>1, <2>2
    <2>3. CASE /\ Enters("step", "retrieve") /\ ~PlanOver
               /\ PlanStep.kind = "retrieve" /\ work.retrieved # "yes"
      BY <1>2, <1>3, <2>1, <2>3 DEF Enters, AnswerPcs
    <2>4. CASE Enters("step", "bundle") /\ ~PlanOver /\ PlanStep.kind = "answer" /\ work.answer = NoReply
      BY <1>2, <1>3, <2>1, <2>4 DEF Enters, AnswerPcs
    <2>5. CASE \/ Enters("deep", "packing") \/ Enters("ask", "save")
               \/ Enters("synthesize", "repacking") \/ Enters("synthesize", "ask")
      BY <1>2, <1>3, <2>1, <2>5 DEF Enters, AnswerPcs
    <2>6. QED
      BY <1>4, <2>2, <2>3, <2>4, <2>5 DEF MovesOn
  <1>5. CASE EndsStep \/ Retries
    <2>1. /\ exchanges' = exchanges /\ crashes' = crashes /\ forgotten' = forgotten
          /\ saved' = saved /\ work'.answer = work.answer
          /\ pc \in {"step", "stepped"} /\ pc' \in {"step", "stepped"}
      BY <1>5 DEF EndsStep, Retries, Quiet, Still, SameAround, SameRows, SameArtifacts, Enters
    <2>2. QED
      BY <1>2, <1>3, <2>1 DEF AnswerPcs
  <1>6. CASE TakesPackage
    <2>1. /\ exchanges' = exchanges /\ crashes' = crashes /\ forgotten' = forgotten
          /\ saved' = saved /\ work'.answer = work.answer /\ work.answer = NoReply
          /\ pc = "step" /\ pc' = "synthesize"
      BY <1>6 DEF TakesPackage, Quiet, Still, SameAround, SameRows, SameArtifacts, Enters
    <2>2. QED
      BY <1>2, <1>3, <2>1 DEF AnswerPcs
  <1>7. CASE Saves
    <2>1. /\ exchanges' = exchanges /\ crashes' = crashes /\ forgotten' = forgotten
          /\ saved'.answer = work.answer /\ work'.answer = work.answer
          /\ pc = "stepped" /\ pc' = "step"
      BY <1>7 DEF Saves, Still, SameAround, SameRows, Enters
    <2>2. Stored' <=> Stored
      BY <2>1 DEF Stored
    <2>3. Len(exchanges) <= forgotten + (IF Stored \/ work.answer # NoReply THEN 1 ELSE 0)
      BY <1>1, <1>2, <2>1 DEF OnceInv
    <2>4. QED
      BY <1>2, <2>1, <2>2, <2>3 DEF OnceInv, AnswerPcs
  <1>8. CASE EndsPlan
    <2>1. /\ exchanges' = exchanges /\ crashes' = crashes /\ forgotten' = forgotten
          /\ saved' = saved /\ work' = work /\ pc = "step" /\ pc' = "done"
      BY <1>8 DEF EndsPlan, Still, SameAround, SameRows, Enters
    <2>2. QED
      BY <1>2, <1>3, <2>1 DEF AnswerPcs
  <1>9. CASE Begins
    <2>1. /\ exchanges' = exchanges /\ crashes' = crashes /\ forgotten' = forgotten
          /\ saved' = saved /\ work'.answer = work.answer
          /\ \/ pc = "retrieve" /\ pc' \in {"direct", "agentic", "deep"}
             \/ pc = "bundle" /\ pc' = "envelope"
      BY <1>9 DEF Begins, Still, SameAround, SameArtifacts, Enters
    <2>2. QED
      BY <1>2, <1>3, <2>1 DEF AnswerPcs
  <1>10. CASE Retrieves
    <2>1. /\ exchanges' = exchanges /\ crashes' = crashes /\ forgotten' = forgotten
          /\ saved' = saved /\ work'.answer = work.answer
          /\ pc \in {"direct", "agentic", "packing"}
          /\ IF Planned THEN pc' = "stepped" ELSE pc' = "synthesize"
      BY <1>10 DEF Retrieves, Quiet, Still, SameAround, SameRows
    <2>2. ~Planned => work.answer = NoReply
      BY DEF PlanInv
    <2>3. QED
      BY <1>2, <1>3, <2>1, <2>2 DEF AnswerPcs
  <1>11. CASE Drafts
    <2>1. /\ exchanges' = exchanges /\ crashes' = crashes /\ forgotten' = forgotten
          /\ saved' = saved /\ work'.answer = work.answer
          /\ \/ pc = "envelope" /\ pc' = "synthesize"
             \/ pc = "repacking" /\ pc' = "ask"
      BY <1>11 DEF Drafts, SameArtifacts, Enters, Quiet, Still, SameAround, SameRows
    <2>2. QED
      BY <1>2, <1>3, <2>1 DEF AnswerPcs
  <1>12. CASE \E answer \in Replies : HandsBack(answer)
    <2>1. PICK answer \in Replies : HandsBack(answer)
      BY <1>12
    <2>2. /\ exchanges' = exchanges /\ crashes' = crashes /\ forgotten' = forgotten
          /\ saved' = saved /\ answer # NoReply
          /\ pc \in {"direct", "agentic", "deep", "ask", "save", "saved", "envelope"}
      BY <2>1 DEF HandsBack, Still, SameAround
    <2>3. CASE ~Planned
      <3>1. pc' = "done" /\ work' = work
        BY <2>1, <2>3 DEF HandsBack
      <3>2. saved.answer = NoReply
        BY <2>3 DEF PlanInv
      <3>3. QED
        BY <1>3, <2>2, <3>1, <3>2 DEF AnswerPcs
    <2>4. CASE Planned /\ PlanStep.kind = "answer"
      <3>1. pc' = "stepped" /\ work'.answer = answer
        BY <2>1, <2>4 DEF HandsBack
      <3>2. QED
        BY <1>3, <2>2, <3>1 DEF AnswerPcs
    <2>5. CASE Planned /\ PlanStep.kind # "answer"
      <3>1. pc' = "stepped" /\ work'.answer = work.answer
        BY <2>1, <2>5 DEF HandsBack
      <3>2. pc \notin AnswerPcs \cup {"saved"}
        BY <2>5 DEF PlanInv
      <3>3. pc # "saved" /\ pc # "done" /\ pc # "down"
        BY <2>2, <3>2
      <3>4. QED
        BY <1>2, <1>3, <2>2, <3>1, <3>3 DEF AnswerPcs
    <2>6. QED
      BY <2>3, <2>4, <2>5
  <1>13. CASE Stores
    <2> DEFINE new == [run |-> work.draft.run, life |-> crashes]
    <2>1. /\ exchanges' = Append(exchanges, new) /\ crashes' = crashes /\ forgotten' = forgotten
          /\ saved' = saved /\ work' = work /\ pc = "save" /\ pc' = "saved"
      BY <1>13 DEF Stores, Still, SameAround, Enters
    <2>2. work.answer = NoReply /\ saved.answer = NoReply /\ ~Stored
      BY <1>2, <2>1 DEF AnswerPcs
    <2>3. Len(exchanges) <= forgotten
      BY <1>1, <2>2 DEF OnceInv
    <2> HIDE DEF new
    <2>4. /\ Len(exchanges') = Len(exchanges) + 1 /\ exchanges' # <<>>
          /\ DOMAIN exchanges' = 1 .. Len(exchanges) + 1
          /\ exchanges'[Len(exchanges) + 1] = new
          /\ \A i \in DOMAIN exchanges : exchanges'[i] = exchanges[i]
      BY <1>1, <2>1
    <2>5. new.life = crashes /\ new.run = work.draft.run
      BY DEF new
    <2>6. Stored'
      BY <1>1, <2>1, <2>4, <2>5 DEF Stored
    <2>7. \A i \in DOMAIN exchanges' : exchanges'[i].life <= crashes'
      <3>1. TAKE i \in DOMAIN exchanges'
      <3>2. CASE i \in DOMAIN exchanges
        BY <2>1, <2>4, <3>2 DEF OnceInv
      <3>3. CASE i = Len(exchanges) + 1
        BY <1>1, <2>1, <2>4, <2>5, <3>3
      <3>4. QED
        BY <1>1, <2>4, <3>2, <3>3
    <2>8. Len(exchanges') <= forgotten' + 1
      BY <1>1, <2>1, <2>3, <2>4
    <2>9. QED
      BY <2>1, <2>2, <2>4, <2>5, <2>6, <2>7, <2>8 DEF OnceInv
  <1>14. CASE Dies
    <2>1. /\ exchanges' = exchanges /\ crashes' = crashes + 1 /\ saved' = saved /\ work' = NoWork
          /\ pc' = "down" /\ forgotten' = IF Unnoted THEN forgotten + 1 ELSE forgotten
      BY <1>14 DEF Dies, SameRows
    <2>2. \A i \in DOMAIN exchanges : exchanges[i].life <= crashes
      BY DEF OnceInv
    <2>3. \A i \in DOMAIN exchanges : exchanges[i].life <= crashes + 1 /\ exchanges[i].life # crashes + 1
      BY <1>1, <2>2
    <2>4. ~Stored'
      BY <2>1, <2>3 DEF Stored
    <2>5. Len(exchanges) <= forgotten' + (IF saved.answer # NoReply THEN 1 ELSE 0)
      <3>1. CASE saved.answer # NoReply
        BY <1>1, <2>1, <3>1 DEF OnceInv
      <3>2. CASE saved.answer = NoReply /\ Stored
        BY <1>1, <2>1, <3>2 DEF OnceInv, Unnoted, Stored
      <3>3. CASE saved.answer = NoReply /\ ~Stored
        BY <1>1, <2>1, <3>3 DEF OnceInv, Unnoted, Stored
      <3>4. QED
        BY <3>1, <3>2, <3>3
    <2>6. QED
      BY <2>1, <2>3, <2>4, <2>5 DEF OnceInv, AnswerPcs
  <1>15. CASE Resumes
    <2>1. /\ exchanges' = exchanges /\ crashes' = crashes /\ forgotten' = forgotten
          /\ saved' = saved /\ work' = saved /\ pc = "down" /\ pc' = "step"
      BY <1>15 DEF Resumes, Quiet, Still, SameAround, SameRows, Enters
    <2>2. work.answer = NoReply
      BY <2>1 DEF PlanInv, NoWork
    <2>3. QED
      BY <1>2, <1>3, <2>1, <2>2 DEF AnswerPcs
  <1>16. CASE Escapes
    <2>1. /\ exchanges' = exchanges /\ crashes' = crashes /\ forgotten' = forgotten
          /\ saved' = saved /\ work'.answer = work.answer
          /\ pc \in {"deep", "packing", "synthesize", "repacking"}
          /\ IF Planned THEN pc' = "stepped" ELSE pc' = "done"
      BY <1>16 DEF Escapes, SameAround, SameRows, SameArtifacts
    <2>2. ~Planned => saved.answer = NoReply
      BY DEF PlanInv
    <2>3. QED
      BY <1>2, <1>3, <2>1, <2>2 DEF AnswerPcs
  <1>17. QED
    BY <1>4, <1>5, <1>6, <1>7, <1>8, <1>9, <1>10, <1>11, <1>12, <1>13, <1>14, <1>15, <1>16 DEF Move

\* What a run tells of an answer.
Tells(rs, a) ==
    a.run # 0 /\ ~May("noupdate") =>
        rs[a.run] = [status |-> IF a.ok = "yes" THEN "completed" ELSE "blocked",
                     exchange |-> a.exchange]

KnownIn(rs, a) == a.run <= Len(rs) /\ Tells(rs, a)

\* RunInv, of given runs and exchanges.
RunsTell(rs, es) ==
    /\ \A i \in DOMAIN es : es[i].run <= Len(rs)
    /\ \A r \in DOMAIN rs : rs[r].exchange <= Len(es)
    /\ \A r \in DOMAIN rs :
           rs[r].status = "completed" => rs[r].exchange # 0 /\ es[rs[r].exchange].run = r

\* RunInv, part by part.
LEMMA RunInvIs ==
  RunInv <=>
      /\ RunsTell(runs, exchanges)
      /\ work.package.run <= Len(runs) /\ work.draft.run <= Len(runs)
      /\ saved.package.run <= Len(runs) /\ saved.draft.run <= Len(runs)
      /\ KnownIn(runs, work.answer) /\ KnownIn(runs, saved.answer) /\ KnownIn(runs, reply)
      /\ pc # "done" => reply = NoReply
      /\ pc \in DraftPcs /\ work.draft.run # 0 =>
             work.answer.run # work.draft.run /\ saved.answer.run # work.draft.run
  BY DEF RunInv, RunsTell, KnownIn, Tells, Told

\* RunInv of the next state, part by part.
LEMMA RunInvNext ==
  ASSUME setting' = setting, RunsTell(runs', exchanges'),
         work'.package.run <= Len(runs'), work'.draft.run <= Len(runs'),
         saved'.package.run <= Len(runs'), saved'.draft.run <= Len(runs'),
         KnownIn(runs', work'.answer), KnownIn(runs', saved'.answer), KnownIn(runs', reply'),
         pc' # "done" => reply' = NoReply,
         pc' \in DraftPcs /\ work'.draft.run # 0 =>
             work'.answer.run # work'.draft.run /\ saved'.answer.run # work'.draft.run
  PROVE  RunInv'
  BY DEF RunInv, RunsTell, KnownIn, Tells, Told, May

\* A run is finished with what its phase answers, and no other run is touched.
LEMMA RunsAreTold ==
  ASSUME Types, PlanInv, OnceInv, RunInv, Move, PackageInv
  PROVE  RunInv'
  <1>1. /\ runs \in Seq(Run) /\ exchanges \in Seq(Exchange) /\ Len(runs) \in Nat
        /\ Len(exchanges) \in Nat /\ DOMAIN runs = 1 .. Len(runs)
        /\ DOMAIN exchanges = 1 .. Len(exchanges)
        /\ work.draft.run \in Nat /\ work.package.run \in Nat /\ work.answer.run \in Nat
        /\ saved.answer.run \in Nat
    <2>1. saved.answer.run \in Nat
      BY WorkParts DEF Works, Replies
    <2>2. QED
      BY <2>1, WorkParts
  <1>2. setting' = setting
    BY DEF Move, MovesOn, EndsStep, TakesPackage, Retries, Saves, EndsPlan, Begins,
       Retrieves, Drafts, HandsBack, Escapes, Stores, Dies, Resumes, Quiet, Still, SameAround
  <1>3. /\ RunsTell(runs, exchanges)
        /\ work.package.run <= Len(runs) /\ work.draft.run <= Len(runs)
        /\ saved.package.run <= Len(runs) /\ saved.draft.run <= Len(runs)
        /\ KnownIn(runs, work.answer) /\ KnownIn(runs, saved.answer) /\ KnownIn(runs, reply)
        /\ pc # "done" => reply = NoReply
        /\ pc \in DraftPcs /\ work.draft.run # 0 =>
             work.answer.run # work.draft.run /\ saved.answer.run # work.draft.run
    BY RunInvIs
  <1>4. /\ NoReply.run = 0 /\ KnownIn(runs, NoReply)
        /\ NoPackage.run = 0 /\ NoWork.package = NoPackage /\ NoWork.draft = NoPackage
        /\ NoWork.answer = NoReply /\ 0 <= Len(runs)
    <2>1. NoReply.run = 0
      BY DEF NoReply
    <2>2. QED
      BY <1>1, <2>1 DEF NoPackage, NoWork, KnownIn, Tells
  <1>5. ASSUME runs' = runs, exchanges' = exchanges,
               work'.package.run <= Len(runs), work'.draft.run <= Len(runs),
               saved'.package.run <= Len(runs), saved'.draft.run <= Len(runs),
               KnownIn(runs, work'.answer), KnownIn(runs, saved'.answer), KnownIn(runs, reply'),
               pc' # "done" => reply' = NoReply,
               pc' \in DraftPcs /\ work'.draft.run # 0 =>
                   work'.answer.run # work'.draft.run /\ saved'.answer.run # work'.draft.run
        PROVE  RunInv'
    BY <1>2, <1>3, <1>5, RunInvNext
  <1>6. CASE MovesOn
    <2>1. /\ runs' = runs /\ exchanges' = exchanges /\ saved' = saved /\ work' = work
          /\ reply' = reply
      BY <1>6 DEF MovesOn, Quiet, SameRows
    <2>2. \/ pc' = pc
          \/ pc = "step" /\ pc' \in {"retrieve", "bundle"}
          \/ pc \in {"deep", "synthesize", "ask"} /\ pc' \in {"packing", "repacking", "ask", "save"}
      BY <1>6 DEF MovesOn, Enters
    <2>3. pc' # "done" => pc # "done"
      BY <2>2 DEF DraftPcs, RetrievalPcs, AnswerPcs
    <2>4. pc' \in DraftPcs => pc \in DraftPcs
      BY <2>2 DEF DraftPcs, RetrievalPcs, AnswerPcs
    <2>5. QED
      BY <1>3, <1>5, <2>1, <2>3, <2>4
  <1>7. CASE EndsStep \/ Retries
    <2>1. /\ runs' = runs /\ exchanges' = exchanges /\ saved' = saved
          /\ work'.answer = work.answer /\ work'.package = work.package
          /\ work'.draft = work.draft /\ reply' = reply
          /\ pc \in {"step", "stepped"} /\ pc' \in {"step", "stepped"}
      BY <1>7 DEF EndsStep, Retries, Quiet, SameRows, SameArtifacts, Enters
    <2>2. pc' \notin DraftPcs
      BY <2>1 DEF DraftPcs, RetrievalPcs, AnswerPcs
    <2>3. QED
      BY <1>3, <1>5, <2>1, <2>2
  <1>8. CASE TakesPackage
    <2>1. /\ runs' = runs /\ exchanges' = exchanges /\ saved' = saved
          /\ work'.answer = NoReply /\ work.answer = NoReply /\ work'.package = work.package
          /\ work'.draft = work.package /\ reply' = reply
          /\ pc = "step" /\ pc' = "synthesize"
      BY <1>8 DEF TakesPackage, Quiet, SameRows, SameArtifacts, Enters
    <2>2. saved.answer = NoReply
      BY <2>1 DEF OnceInv
    <2>3. QED
      BY <1>3, <1>4, <1>5, <2>1, <2>2
  <1>9. CASE Saves
    <2>1. /\ runs' = runs /\ exchanges' = exchanges /\ saved' = work'
          /\ work'.answer = work.answer /\ work'.package = work.package
          /\ work'.draft = NoPackage /\ reply' = reply /\ pc = "stepped" /\ pc' = "step"
      BY <1>9 DEF Saves, SameRows, Enters
    <2>2. pc' \notin DraftPcs
      BY <2>1 DEF DraftPcs, RetrievalPcs, AnswerPcs
    <2>3. QED
      BY <1>3, <1>4, <1>5, <2>1, <2>2
  <1>10. CASE EndsPlan
    <2>1. /\ runs' = runs /\ exchanges' = exchanges /\ saved' = saved /\ work' = work
          /\ reply' = work.answer \/ reply'.run = 0
      BY <1>10 DEF EndsPlan, SameRows, Enters
    <2>2. KnownIn(runs, reply') /\ pc' \notin DraftPcs /\ pc' = "done"
      <3>1. pc' = "done"
        BY <1>10 DEF EndsPlan, Enters
      <3>2. CASE reply' = work.answer
        BY <1>3, <3>1, <3>2 DEF DraftPcs, RetrievalPcs, AnswerPcs
      <3>3. CASE reply'.run = 0
        BY <1>1, <3>1, <3>3 DEF KnownIn, Tells, DraftPcs, RetrievalPcs, AnswerPcs
      <3>4. QED
        BY <2>1, <3>2, <3>3
    <2>3. QED
      BY <1>3, <1>5, <2>1, <2>2
  <1>11. CASE Begins
    <2>1. /\ exchanges' = exchanges /\ saved' = saved /\ reply' = reply
          /\ work'.answer = work.answer /\ work'.package = work.package
          /\ pc # "done" /\ pc' # "done"
      BY <1>11 DEF Begins, SameArtifacts, Enters
    <2>2. CASE work'.draft.run = 0 /\ runs' = runs
      BY <1>1, <1>3, <1>5, <2>1, <2>2
    <2>3. CASE /\ work'.draft.run = Len(runs) + 1
               /\ runs' = Append(runs, [status |-> "active", exchange |-> 0])
      <3> DEFINE new == [status |-> "active", exchange |-> 0]
      <3>1. runs' = Append(runs, new) /\ new.status = "active" /\ new.exchange = 0
        BY <2>3
      <3> HIDE DEF new
      <3>2. /\ Len(runs') = Len(runs) + 1 /\ DOMAIN runs' = 1 .. Len(runs) + 1
            /\ runs'[Len(runs) + 1] = new
            /\ \A r \in DOMAIN runs : runs'[r] = runs[r]
        BY <1>1, <3>1
      <3>3. \A a : a.run \in Nat /\ KnownIn(runs, a) => KnownIn(runs', a) /\ a.run # Len(runs) + 1
        <4>1. TAKE a
        <4>2. HAVE a.run \in Nat /\ KnownIn(runs, a)
        <4>3. a.run <= Len(runs)
          BY <4>2 DEF KnownIn
        <4>4. a.run <= Len(runs') /\ a.run # Len(runs) + 1
          BY <1>1, <3>2, <4>2, <4>3
        <4>5. a.run # 0 => runs'[a.run] = runs[a.run]
          BY <1>1, <3>2, <4>2, <4>3
        <4>6. QED
          BY <4>2, <4>4, <4>5 DEF KnownIn, Tells
      <3>4. RunsTell(runs', exchanges')
        <4>1. \A i \in DOMAIN exchanges : exchanges[i].run <= Len(runs')
          <5>1. TAKE i \in DOMAIN exchanges
          <5>2. exchanges[i].run <= Len(runs) /\ exchanges[i].run \in Nat
            <6>1. exchanges[i] \in Exchange
              BY <1>1
            <6>2. QED
              BY <1>3, <6>1 DEF RunsTell, Exchange
          <5>3. QED
            BY <1>1, <3>2, <5>2
        <4>2. ASSUME NEW r \in DOMAIN runs'
              PROVE  /\ runs'[r].exchange <= Len(exchanges)
                     /\ runs'[r].status = "completed" =>
                            runs'[r].exchange # 0 /\ exchanges[runs'[r].exchange].run = r
          <5>1. CASE r \in DOMAIN runs
            BY <1>3, <3>2, <5>1 DEF RunsTell
          <5>2. CASE r = Len(runs) + 1
            BY <1>1, <3>1, <3>2, <5>2
          <5>3. QED
            BY <1>1, <3>2, <5>1, <5>2
        <4>3. QED
          BY <2>1, <4>1, <4>2 DEF RunsTell
      <3>5. reply = NoReply /\ reply.run \in Nat
        BY <1>3, <1>4, <2>1
      <3>6. /\ work.package.run <= Len(runs') /\ work'.draft.run <= Len(runs')
            /\ saved.package.run <= Len(runs') /\ saved.draft.run <= Len(runs')
        <4>1. saved.package.run \in Nat /\ saved.draft.run \in Nat
          BY WorkParts DEF Works, Packages
        <4>2. QED
          BY <1>1, <1>3, <2>3, <3>2, <4>1
      <3>7. QED
        BY <1>1, <1>2, <1>3, <2>1, <2>3, <3>3, <3>4, <3>5, <3>6, RunInvNext
    <2>4. QED
      BY <1>11, <2>2, <2>3 DEF Begins
  <1>12. CASE Retrieves
    <2>1. /\ runs' = runs /\ exchanges' = exchanges /\ saved' = saved /\ reply' = reply
          /\ work'.answer = work.answer /\ pc \in {"direct", "agentic", "packing"}
      BY <1>12 DEF Retrieves, Quiet, SameRows
    <2>2. CASE Planned
      <3>1. pc' = "stepped" /\ work'.draft = NoPackage /\ work'.package.run = work.draft.run
        BY <1>12, <2>2 DEF Retrieves
      <3>2. pc' \notin DraftPcs
        BY <3>1 DEF DraftPcs, RetrievalPcs, AnswerPcs
      <3>3. QED
        BY <1>3, <1>4, <1>5, <2>1, <3>1, <3>2
    <2>3. CASE ~Planned
      <3>1. pc' = "synthesize" /\ work'.package = work.package /\ work'.draft.run = work.draft.run
        BY <1>12, <2>3 DEF Retrieves
      <3>2. work.answer = NoReply /\ saved.answer = NoReply
        BY <2>3 DEF PlanInv
      <3>3. QED
        BY <1>3, <1>4, <1>5, <2>1, <3>1, <3>2
    <2>4. QED
      BY <2>2, <2>3
  <1>13. CASE Drafts
    <2>1. /\ runs' = runs /\ exchanges' = exchanges /\ saved' = saved /\ reply' = reply
          /\ work'.answer = work.answer /\ work'.package = work.package
          /\ work'.draft.run = work.draft.run
          /\ pc \in {"envelope", "repacking"} /\ pc' # "done"
      BY <1>13 DEF Drafts, SameArtifacts, Enters, Quiet, SameRows
    <2>2. pc \in DraftPcs
      BY <2>1 DEF DraftPcs, AnswerPcs
    <2>3. QED
      BY <1>3, <1>5, <2>1, <2>2
  <1>14. CASE \E answer \in Replies : HandsBack(answer)
    <2>1. PICK answer \in Replies : HandsBack(answer)
      BY <1>14
    <2> DEFINE run == answer.run
               new == [status |-> IF answer.ok = "yes" THEN "completed" ELSE "blocked",
                       exchange |-> answer.exchange]
    <2>2. /\ exchanges' = exchanges /\ saved' = saved /\ work'.draft = work.draft
          /\ work'.package = work.package /\ work'.answer \in {work.answer, answer}
          /\ reply' \in {reply, answer}
          /\ IF Planned THEN pc' = "stepped" /\ reply' = reply ELSE pc' = "done"
          /\ pc \in {"direct", "agentic", "deep", "ask", "save", "saved", "envelope"}
      BY <2>1 DEF HandsBack
    <2>3. pc' \notin DraftPcs /\ pc \in DraftPcs /\ reply = NoReply
      BY <1>3, <2>2 DEF DraftPcs, RetrievalPcs, AnswerPcs
    <2>4. /\ run \in Nat /\ run \in {0, work.draft.run} /\ run <= Len(runs)
          /\ run # 0 => run \in DOMAIN runs /\ run = work.draft.run
      <3>1. run \in {0, work.draft.run}
        BY <2>1 DEF HandsBack
      <3>2. QED
        BY <1>1, <1>3, <3>1
    <2>5. \/ runs' = runs /\ (run = 0 \/ May("noupdate"))
          \/ run # 0 /\ runs' = [runs EXCEPT ![run] = new] /\ pc # "envelope"
      <3>1. pc = "envelope" => run = 0
        BY <2>1 DEF HandsBack
      <3>2. QED
        BY <2>1, <3>1 DEF HandsBack, Finishes
    <2>6. CASE runs' = runs /\ (run = 0 \/ May("noupdate"))
      <3>1. KnownIn(runs, answer)
        BY <2>4, <2>6 DEF KnownIn, Tells
      <3>2. pc' # "done" => reply' = NoReply
        BY <2>2, <2>3
      <3> HIDE DEF run, new
      <3>3. QED
        BY <1>3, <1>5, <2>2, <2>3, <2>6, <3>1, <3>2
    <2>7. CASE run # 0 /\ runs' = [runs EXCEPT ![run] = new] /\ pc # "envelope"
      <3> HIDE DEF run
      <3>1. /\ Len(runs') = Len(runs) /\ DOMAIN runs' = DOMAIN runs /\ runs'[run] = new
            /\ \A r \in DOMAIN runs : r # run => runs'[r] = runs[r]
        <4>1. new \in Run
          <5>1. answer.exchange \in Nat
            BY DEF Replies
          <5>2. QED
            BY <5>1 DEF Run
        <4> HIDE DEF new
        <4>2. runs' \in Seq(Run) /\ DOMAIN runs' = DOMAIN runs
          BY <1>1, <2>4, <2>7, <4>1
        <4>3. Len(runs') = Len(runs)
          BY <1>1, <4>2
        <4>4. QED
          BY <1>1, <2>4, <2>7, <4>2, <4>3
      <3>2. KnownIn(runs', answer)
        BY <2>4, <3>1 DEF KnownIn, Tells, run, new
      <3>3. \A a : a.run \in Nat /\ a.run # run /\ KnownIn(runs, a) => KnownIn(runs', a)
        <4>1. TAKE a
        <4>2. HAVE a.run \in Nat /\ a.run # run /\ KnownIn(runs, a)
        <4>3. a.run <= Len(runs)
          BY <4>2 DEF KnownIn
        <4>4. a.run # 0 => runs'[a.run] = runs[a.run]
          BY <1>1, <3>1, <4>2, <4>3
        <4>5. QED
          BY <3>1, <4>2, <4>3, <4>4 DEF KnownIn, Tells
      <3>4. /\ KnownIn(runs', work.answer) /\ KnownIn(runs', saved.answer)
            /\ KnownIn(runs', NoReply)
        <4>1. work.answer.run # run /\ saved.answer.run # run /\ NoReply.run # run
          BY <1>3, <1>4, <2>3, <2>4, <2>7
        <4>2. QED
          BY <1>1, <1>3, <1>4, <3>3, <4>1
      <3>5. /\ answer.exchange <= Len(exchanges)
            /\ answer.ok = "yes" => /\ answer.exchange # 0 /\ exchanges[answer.exchange].run = run
        <4>1. \/ answer.ok = "no" /\ answer.exchange = 0
              \/ pc = "saved" /\ answer.run = work.draft.run /\ answer.exchange = Len(exchanges)
          BY <2>1, <2>7 DEF HandsBack
        <4>2. CASE answer.ok = "no" /\ answer.exchange = 0
          BY <1>1, <4>2
        <4>3. CASE pc = "saved" /\ answer.run = work.draft.run /\ answer.exchange = Len(exchanges)
          <5>1. exchanges # <<>> /\ exchanges[Len(exchanges)].run = work.draft.run
            BY <4>3 DEF OnceInv
          <5>2. Len(exchanges) # 0
            BY <1>1, <5>1
          <5>3. QED
            BY <1>1, <4>3, <5>1, <5>2 DEF run
        <4>4. QED
          BY <4>1, <4>2, <4>3
      <3>6. RunsTell(runs', exchanges')
        <4>1. ASSUME NEW r \in DOMAIN runs'
              PROVE  /\ runs'[r].exchange <= Len(exchanges)
                     /\ runs'[r].status = "completed" =>
                            runs'[r].exchange # 0 /\ exchanges[runs'[r].exchange].run = r
          <5>1. CASE r # run
            BY <1>3, <3>1, <5>1 DEF RunsTell
          <5>2. CASE r = run
            <6>1. /\ runs'[r].exchange = answer.exchange
                  /\ runs'[r].status = "completed" => answer.ok = "yes"
              BY <3>1, <5>2
            <6>2. QED
              BY <3>5, <5>2, <6>1
          <5>3. QED
            BY <5>1, <5>2
        <4>2. \A i \in DOMAIN exchanges : exchanges[i].run <= Len(runs')
          BY <1>3, <3>1 DEF RunsTell
        <4>3. QED
          BY <2>2, <4>1, <4>2 DEF RunsTell
      <3>7. KnownIn(runs', work'.answer) /\ KnownIn(runs', reply')
        BY <2>2, <2>3, <3>2, <3>4
      <3>8. pc' # "done" => reply' = NoReply
        BY <2>2, <2>3
      <3> HIDE DEF new
      <3>9. QED
        BY <1>2, <1>3, <2>2, <2>3, <3>1, <3>4, <3>6, <3>7, <3>8, RunInvNext
    <2>8. QED
      BY <2>5, <2>6, <2>7
  <1>15. CASE Stores
    <2> DEFINE new == [run |-> work.draft.run, life |-> crashes]
    <2>1. /\ exchanges' = Append(exchanges, new) /\ runs' = runs /\ reply' = reply
          /\ saved' = saved /\ work' = work /\ pc = "save" /\ pc' = "saved"
      BY <1>15 DEF Stores, Enters
    <2>2. new.run = work.draft.run
      OBVIOUS
    <2> HIDE DEF new
    <2>3. /\ Len(exchanges') = Len(exchanges) + 1
          /\ DOMAIN exchanges' = 1 .. Len(exchanges) + 1
          /\ exchanges'[Len(exchanges) + 1] = new
          /\ \A i \in DOMAIN exchanges : exchanges'[i] = exchanges[i]
      BY <1>1, <2>1
    <2>4. RunsTell(runs', exchanges')
      <3>1. ASSUME NEW i \in DOMAIN exchanges'
            PROVE  exchanges'[i].run <= Len(runs)
        <4>1. CASE i \in DOMAIN exchanges
          BY <1>3, <2>3, <4>1 DEF RunsTell
        <4>2. CASE i = Len(exchanges) + 1
          BY <1>3, <2>2, <2>3, <4>2
        <4>3. QED
          BY <1>1, <2>3, <4>1, <4>2
      <3>2. ASSUME NEW r \in DOMAIN runs
            PROVE  /\ runs[r].exchange <= Len(exchanges')
                   /\ runs[r].status = "completed" =>
                          runs[r].exchange # 0 /\ exchanges'[runs[r].exchange].run = r
        <4>1. runs[r].exchange \in Nat
          <5>1. runs[r] \in Run
            BY <1>1
          <5>2. QED
            BY <5>1 DEF Run
        <4>2. /\ runs[r].exchange <= Len(exchanges)
              /\ runs[r].status = "completed" =>
                     runs[r].exchange # 0 /\ exchanges[runs[r].exchange].run = r
          BY <1>3 DEF RunsTell
        <4>3. QED
          BY <1>1, <2>3, <4>1, <4>2
      <3>3. QED
        BY <2>1, <3>1, <3>2 DEF RunsTell
    <2>5. pc \in DraftPcs
      BY <2>1 DEF DraftPcs, AnswerPcs
    <2>6. QED
      BY <1>2, <1>3, <2>1, <2>4, <2>5, RunInvNext
  <1>16. CASE Dies
    <2>1. /\ runs' = runs /\ exchanges' = exchanges /\ saved' = saved /\ reply' = reply
          /\ work' = NoWork /\ pc # "done" /\ pc' = "down"
      BY <1>16 DEF Dies, SameRows
    <2>2. pc' \notin DraftPcs
      BY <2>1 DEF DraftPcs, RetrievalPcs, AnswerPcs
    <2>3. QED
      BY <1>3, <1>4, <1>5, <2>1, <2>2
  <1>17. CASE Resumes
    <2>1. /\ runs' = runs /\ exchanges' = exchanges /\ saved' = saved /\ reply' = reply
          /\ work' = saved /\ pc = "down" /\ pc' = "step"
      BY <1>17 DEF Resumes, Quiet, SameRows, Enters
    <2>2. pc' \notin DraftPcs
      BY <2>1 DEF DraftPcs, RetrievalPcs, AnswerPcs
    <2>3. QED
      BY <1>3, <1>5, <2>1, <2>2
  <1>18. CASE Escapes
    <2>1. /\ runs' = runs /\ exchanges' = exchanges /\ saved' = saved
          /\ work'.answer = work.answer /\ work'.package = work.package
          /\ work'.draft = work.draft
          /\ pc \in {"deep", "packing", "synthesize", "repacking"}
          /\ \/ pc' = "stepped" /\ reply' = reply
             \/ pc' = "done" /\ reply'.run = 0
      BY <1>18 DEF Escapes, SameRows, SameArtifacts
    <2>2. pc' \notin DraftPcs /\ pc # "done"
      BY <2>1 DEF DraftPcs, RetrievalPcs, AnswerPcs
    <2>3. KnownIn(runs, reply') /\ (pc' # "done" => reply' = NoReply)
      <3>1. CASE pc' = "stepped" /\ reply' = reply
        BY <1>3, <2>2, <3>1
      <3>2. CASE pc' = "done" /\ reply'.run = 0
        BY <1>1, <3>2 DEF KnownIn, Tells
      <3>3. QED
        BY <2>1, <3>1, <3>2
    <2>4. QED
      BY <1>3, <1>5, <2>1, <2>2, <2>3
  <1>19. QED
    BY <1>6, <1>7, <1>8, <1>9, <1>10, <1>11, <1>12, <1>13, <1>14, <1>15, <1>16, <1>17, <1>18 DEF Move

\* Updating a row of the table, there or not, leaves a table of runs.
LEMMA RowsStayRuns ==
  ASSUME NEW rows \in Seq(Run), NEW row, NEW new \in Run
  PROVE  [rows EXCEPT ![row] = new] \in Seq(Run)
  <1>1. rows \in [1 .. Len(rows) -> Run] /\ Len(rows) \in Nat
    OBVIOUS
  <1>2. [rows EXCEPT ![row] = new] \in [1 .. Len(rows) -> Run]
    BY <1>1
  <1>3. QED
    BY <1>1, <1>2, IsASeq

\* A run stays active only with the phase at work, with the package that waits, or
\* where an exception went past it.
LEMMA OpenRunsAreKnown ==
  ASSUME Types, PlanInv, OnceInv, OpenInv, Move
  PROVE  OpenInv'
  <1>1. SUFFICES ASSUME crashes' = 0, ~May("noupdate")'
                 PROVE  \A r \in DOMAIN runs' : runs'[r].status = "active" =>
                            \/ pc' \in DraftPcs /\ r = work'.draft.run
                            \/ r = work'.package.run
                            \/ r \in abandoned'
    BY DEF OpenInv
  <1>2. setting' = setting /\ crashes = 0
    <2>1. setting' = setting
      BY DEF Move, MovesOn, EndsStep, TakesPackage, Retries, Saves, EndsPlan, Begins,
         Retrieves, Drafts, HandsBack, Escapes, Stores, Dies, Resumes, Quiet, Still, SameAround
    <2>2. crashes' = crashes \/ crashes' = crashes + 1
      BY DEF Move, MovesOn, EndsStep, TakesPackage, Retries, Saves, EndsPlan, Begins,
         Retrieves, Drafts, HandsBack, Escapes, Stores, Dies, Resumes, Quiet, Still, SameAround
    <2>3. crashes \in Nat
      BY DEF Types
    <2>4. QED
      BY <1>1, <2>1, <2>2, <2>3
  <1>3. ~May("noupdate") /\ abandoned \subseteq abandoned'
    <2>1. ~May("noupdate")
      BY <1>1, <1>2 DEF May
    <2>2. abandoned' = abandoned \/ Leaves(work.draft.run)
      BY DEF Move, MovesOn, EndsStep, TakesPackage, Retries, Saves, EndsPlan, Begins,
         Retrieves, Drafts, HandsBack, Escapes, Stores, Dies, Resumes, Quiet, Still
    <2>3. QED
      BY <2>1, <2>2 DEF Leaves
  <1>4. /\ runs \in Seq(Run) /\ Len(runs) \in Nat /\ DOMAIN runs = 1 .. Len(runs)
        /\ NoPackage.run = 0
        /\ \A r \in DOMAIN runs : r # 0
    <2>1. runs \in Seq(Run)
      BY WorkParts
    <2>2. QED
      BY <2>1 DEF NoPackage
  <1>5. \A r \in DOMAIN runs : runs[r].status = "active" =>
               \/ pc \in DraftPcs /\ r = work.draft.run
               \/ r = work.package.run
               \/ r \in abandoned
    BY <1>2, <1>3 DEF OpenInv
  <1>6. CASE MovesOn
    <2>1. runs' = runs /\ work' = work
      BY <1>6 DEF MovesOn, Quiet, SameRows
    <2>2. \/ pc' = pc
          \/ pc = "step" /\ pc' \in {"retrieve", "bundle"}
          \/ pc \in {"deep", "synthesize", "ask"} /\ pc' \in {"packing", "repacking", "ask", "save"}
      BY <1>6 DEF MovesOn, Enters
    <2>3. pc \in DraftPcs => pc' \in DraftPcs
      BY <2>2 DEF DraftPcs, RetrievalPcs, AnswerPcs
    <2>4. QED
      BY <1>3, <1>5, <2>1, <2>3
  <1>7. CASE EndsStep \/ Retries \/ TakesPackage
    <2>1. /\ runs' = runs /\ work'.package = work.package
          /\ pc \in {"step", "stepped"}
      BY <1>7 DEF EndsStep, Retries, TakesPackage, Quiet, SameRows, SameArtifacts, Enters
    <2>2. pc \notin DraftPcs
      BY <2>1 DEF DraftPcs, RetrievalPcs, AnswerPcs
    <2>3. QED
      BY <1>3, <1>5, <2>1, <2>2
  <1>8. CASE Saves
    <2>1. runs' = runs /\ work'.package = work.package /\ pc = "stepped"
      BY <1>8 DEF Saves, SameRows, Enters
    <2>2. pc \notin DraftPcs
      BY <2>1 DEF DraftPcs, RetrievalPcs, AnswerPcs
    <2>3. QED
      BY <1>3, <1>5, <2>1, <2>2
  <1>9. CASE EndsPlan
    <2>1. runs' = runs /\ work' = work /\ pc = "step"
      BY <1>9 DEF EndsPlan, SameRows, Enters
    <2>2. pc \notin DraftPcs
      BY <2>1 DEF DraftPcs, RetrievalPcs, AnswerPcs
    <2>3. QED
      BY <1>3, <1>5, <2>1, <2>2
  <1>10. CASE Begins
    <2>1. /\ work'.package = work.package
          /\ pc \in {"retrieve", "bundle"} /\ pc' \in {"direct", "agentic", "deep", "envelope"}
      BY <1>10 DEF Begins, SameArtifacts, Enters
    <2>2. pc \notin DraftPcs /\ pc' \in DraftPcs
      BY <2>1 DEF DraftPcs, RetrievalPcs, AnswerPcs
    <2>3. CASE runs' = runs
      BY <1>3, <1>5, <2>1, <2>2, <2>3
    <2>4. CASE /\ work'.draft.run = Len(runs) + 1
               /\ runs' = Append(runs, [status |-> "active", exchange |-> 0])
      <3> DEFINE new == [status |-> "active", exchange |-> 0]
      <3>1. runs' = Append(runs, new)
        BY <2>4
      <3> HIDE DEF new
      <3>2. /\ DOMAIN runs' = 1 .. Len(runs) + 1
            /\ \A r \in DOMAIN runs : runs'[r] = runs[r]
        BY <1>4, <3>1
      <3>3. \A r \in DOMAIN runs' : r \in DOMAIN runs \/ r = work'.draft.run
        BY <1>4, <2>4, <3>2
      <3>4. QED
        BY <1>3, <1>5, <2>1, <2>2, <3>2, <3>3
    <2>5. QED
      BY <1>10, <2>3, <2>4 DEF Begins
  <1>11. CASE Retrieves
    <2>1. runs' = runs /\ pc \in {"direct", "agentic", "packing"}
      BY <1>11 DEF Retrieves, Quiet, SameRows
    <2>2. CASE Planned
      <3>1. pc' = "stepped" /\ work'.package.run = work.draft.run
        BY <1>11, <2>2 DEF Retrieves
      <3>2. work.package = NoPackage
        BY <2>1, <2>2 DEF PlanInv, RetrievalPcs
      <3>3. \A r \in DOMAIN runs : r # work.package.run
        BY <1>4, <3>2
      <3>4. QED
        BY <1>3, <1>5, <2>1, <3>1, <3>3
    <2>3. CASE ~Planned
      <3>1. /\ pc' = "synthesize" /\ work'.draft.run = work.draft.run
            /\ work'.package = work.package
        BY <1>11, <2>3 DEF Retrieves
      <3>2. pc' \in DraftPcs
        BY <3>1 DEF DraftPcs, AnswerPcs
      <3>3. QED
        BY <1>3, <1>5, <2>1, <3>1, <3>2
    <2>4. QED
      BY <2>2, <2>3
  <1>12. CASE Drafts
    <2>1. /\ runs' = runs /\ work'.package = work.package
          /\ work'.draft.run = work.draft.run /\ pc' \in {"synthesize", "ask"}
      BY <1>12 DEF Drafts, SameArtifacts, Enters, Quiet, SameRows
    <2>2. pc' \in DraftPcs
      BY <2>1 DEF DraftPcs, AnswerPcs
    <2>3. QED
      BY <1>3, <1>5, <2>1, <2>2
  <1>13. CASE \E answer \in Replies : HandsBack(answer)
    <2>1. PICK answer \in Replies : HandsBack(answer)
      BY <1>13
    <2>2. /\ work'.package = work.package
          /\ pc \in {"direct", "agentic", "deep", "ask", "save", "saved", "envelope"}
      BY <2>1 DEF HandsBack
    <2>3. CASE pc = "envelope"
      <3>1. runs' = runs /\ Leaves(work.draft.run)
        BY <2>1, <2>3 DEF HandsBack, Finishes
      <3>2. \A r \in DOMAIN runs : r = work.draft.run => r \in abandoned'
        BY <1>4, <3>1 DEF Leaves
      <3>3. QED
        BY <1>3, <1>5, <2>2, <3>1, <3>2
    <2>4. CASE pc # "envelope" /\ answer.run = 0
      <3>1. runs' = runs /\ work.draft.run = 0
        BY <2>1, <2>4 DEF HandsBack, Finishes
      <3>2. QED
        BY <1>3, <1>4, <1>5, <2>2, <3>1
    <2>5. CASE pc # "envelope" /\ answer.run # 0
      <3> DEFINE new == [status |-> IF answer.ok = "yes" THEN "completed" ELSE "blocked",
                         exchange |-> answer.exchange]
      <3>1. answer.run = work.draft.run /\ runs' = [runs EXCEPT ![answer.run] = new]
        BY <1>3, <2>1, <2>5 DEF HandsBack, Finishes
      <3>2. new.status # "active"
        OBVIOUS
      <3> HIDE DEF new
      <3>3. /\ DOMAIN runs' = DOMAIN runs
            /\ \A r \in DOMAIN runs : r # answer.run => runs'[r] = runs[r]
            /\ \A r \in DOMAIN runs : r = answer.run => runs'[r] = new
        BY <1>4, <3>1
      <3>4. QED
        BY <1>3, <1>5, <2>2, <3>1, <3>2, <3>3
    <2>6. QED
      BY <2>3, <2>4, <2>5
  <1>14. CASE Stores
    <2>1. runs' = runs /\ work' = work /\ pc' = "saved"
      BY <1>14 DEF Stores, Enters
    <2>2. pc' \in DraftPcs
      BY <2>1 DEF DraftPcs
    <2>3. QED
      BY <1>3, <1>5, <2>1, <2>2
  <1>15. CASE Dies
    <2>1. crashes' = crashes + 1
      BY <1>15 DEF Dies
    <2>2. QED
      BY <1>1, <1>2, <2>1
  <1>16. CASE Resumes
    BY <1>2, <1>16 DEF Resumes, Enters, PlanInv
  <1>17. CASE Escapes
    <2>1. runs' = runs /\ work'.package = work.package /\ Leaves(work.draft.run)
      BY <1>17 DEF Escapes, SameRows, SameArtifacts
    <2>2. \A r \in DOMAIN runs : r = work.draft.run => r \in abandoned'
      BY <1>4, <2>1 DEF Leaves
    <2>3. QED
      BY <1>3, <1>5, <2>1, <2>2
  <1>18. QED
    BY <1>6, <1>7, <1>8, <1>9, <1>10, <1>11, <1>12, <1>13, <1>14, <1>15, <1>16, <1>17 DEF Move

\* An exception goes past the run of a deep request, or of a plan that gathers.
LEMMA AbandonedAreKnown ==
  ASSUME Types, PlanInv, RunInv, AbandonInv, Move
  PROVE  AbandonInv'
  <1>1. /\ setting' = setting /\ (AsksDeep' <=> AsksDeep) /\ (Gathers' <=> Gathers)
        /\ (May("raise")' <=> May("raise"))
    <2>1. setting' = setting
      BY DEF Move, MovesOn, EndsStep, TakesPackage, Retries, Saves, EndsPlan, Begins,
         Retrieves, Drafts, HandsBack, Escapes, Stores, Dies, Resumes, Quiet, Still, SameAround
    <2>2. QED
      BY <2>1 DEF AsksDeep, Mode, Gathers, May
  <1>2. /\ \A r \in abandoned : r # 0 /\ r <= Len(runs)
        /\ abandoned # {} => May("raise") /\ (AsksDeep \/ Gathers)
        /\ pc \in {"deep", "packing"} => AsksDeep
        /\ pc \in {"bundle", "envelope"} => Gathers
        /\ IsDeep(work.draft) \/ IsDeep(work.package) => AsksDeep
        /\ IsDeep(saved.draft) \/ IsDeep(saved.package) => AsksDeep
        /\ work.bundle # <<>> => Gathers
        /\ saved.bundle # <<>> => Gathers
    BY DEF AbandonInv
  <1>3. /\ runs \in Seq(Run) /\ Len(runs) \in Nat /\ abandoned \in SUBSET Nat
        /\ work.draft.run \in Nat /\ work.draft.run <= Len(runs)
        /\ ~IsDeep(NoPackage) /\ NoWork.draft = NoPackage /\ NoWork.package = NoPackage
        /\ NoWork.bundle = <<>>
    BY WorkParts DEF Types, RunInv, NoPackage, NoWork, IsDeep
  <1>4. Len(runs') \in Nat /\ Len(runs') >= Len(runs)
    <2>1. \/ runs' = runs
          \/ runs' = Append(runs, [status |-> "active", exchange |-> 0])
          \/ \E answer \in Replies :
                 runs' = [runs EXCEPT ![answer.run] =
                             [status |-> IF answer.ok = "yes" THEN "completed" ELSE "blocked",
                              exchange |-> answer.exchange]]
      BY DEF Move, MovesOn, EndsStep, TakesPackage, Retries, Saves, EndsPlan, Begins,
         Retrieves, Drafts, HandsBack, Finishes, Escapes, Stores, Dies, Resumes, Quiet, SameRows
    <2>2. CASE runs' = runs
      BY <1>3, <2>2
    <2>3. CASE runs' = Append(runs, [status |-> "active", exchange |-> 0])
      <3> DEFINE new == [status |-> "active", exchange |-> 0]
      <3>1. runs' = Append(runs, new)
        BY <2>3
      <3> HIDE DEF new
      <3>2. Len(runs') = Len(runs) + 1
        BY <1>3, <3>1
      <3>3. QED
        BY <1>3, <3>2
    <2>4. CASE \E answer \in Replies :
                 runs' = [runs EXCEPT ![answer.run] =
                             [status |-> IF answer.ok = "yes" THEN "completed" ELSE "blocked",
                              exchange |-> answer.exchange]]
      <3>1. PICK answer \in Replies :
                 runs' = [runs EXCEPT ![answer.run] =
                             [status |-> IF answer.ok = "yes" THEN "completed" ELSE "blocked",
                              exchange |-> answer.exchange]]
        BY <2>4
      <3> DEFINE new == [status |-> IF answer.ok = "yes" THEN "completed" ELSE "blocked",
                         exchange |-> answer.exchange]
      <3>2. new \in Run
        BY DEF Run, Replies
      <3>3. runs' = [runs EXCEPT ![answer.run] = new]
        BY <3>1
      <3> HIDE DEF new
      <3>4. runs' \in Seq(Run) /\ DOMAIN runs' = DOMAIN runs
        BY <1>3, <3>2, <3>3, RowsStayRuns
      <3>5. Len(runs') = Len(runs)
        BY <1>3, <3>4
      <3>6. QED
        BY <1>3, <3>5
    <2>5. QED
      BY <2>1, <2>2, <2>3, <2>4
  <1>5. \A r \in abandoned : r # 0 /\ r <= Len(runs')
    <2>1. TAKE r \in abandoned
    <2>2. r \in Nat
      BY <1>3
    <2>3. QED
      BY <1>2, <1>3, <1>4, <2>2
  <1>6. /\ \A r \in abandoned' : r # 0 /\ r <= Len(runs')
        /\ abandoned' # {} => May("raise") /\ (AsksDeep \/ Gathers)
    <2>1. CASE abandoned' = abandoned
      BY <1>2, <1>5, <2>1
    <2>2. CASE Leaves(work.draft.run) /\ May("raise") /\ (AsksDeep \/ Gathers)
      <3>1. work.draft.run <= Len(runs')
        BY <1>3, <1>4
      <3>2. \A r \in abandoned' : r \in abandoned \/ (r = work.draft.run /\ r # 0)
        BY <2>2 DEF Leaves
      <3>3. QED
        BY <1>5, <2>2, <3>1, <3>2
    <2>3. CASE Escapes
      <3>1. AsksDeep
        BY <1>2, <2>3 DEF Escapes
      <3>2. QED
        BY <2>2, <2>3, <3>1 DEF Escapes
    <2>4. CASE \E answer \in Replies : HandsBack(answer)
      <3>1. PICK answer \in Replies : HandsBack(answer)
        BY <2>4
      <3>2. CASE pc = "envelope"
        <4>1. Leaves(work.draft.run) /\ May("raise") /\ Gathers
          BY <1>2, <3>1, <3>2 DEF HandsBack
        <4>2. QED
          BY <2>2, <4>1
      <3>3. CASE pc # "envelope"
        <4>1. abandoned' = abandoned
          BY <3>1, <3>3 DEF HandsBack
        <4>2. QED
          BY <2>1, <4>1
      <3>4. QED
        BY <3>2, <3>3
    <2>5. CASE \/ MovesOn \/ EndsStep \/ TakesPackage \/ Retries \/ Saves \/ EndsPlan
               \/ Begins \/ Retrieves \/ Drafts \/ Stores \/ Dies \/ Resumes
      <3>1. abandoned' = abandoned
        BY <2>5 DEF MovesOn, EndsStep, TakesPackage, Retries, Saves, EndsPlan, Begins,
           Retrieves, Drafts, Stores, Dies, Resumes, Quiet, Still
      <3>2. QED
        BY <2>1, <3>1
    <2>6. QED
      BY <2>3, <2>4, <2>5 DEF Move
  <1>7. SUFFICES /\ pc' \in {"deep", "packing"} => AsksDeep
                 /\ pc' \in {"bundle", "envelope"} => Gathers
                 /\ IsDeep(work'.draft) \/ IsDeep(work'.package) => AsksDeep
                 /\ IsDeep(saved'.draft) \/ IsDeep(saved'.package) => AsksDeep
                 /\ work'.bundle # <<>> => Gathers
                 /\ saved'.bundle # <<>> => Gathers
    BY <1>1, <1>6 DEF AbandonInv, IsDeep
  <1>8. CASE MovesOn
    <2>1. work' = work /\ saved' = saved
      BY <1>8 DEF MovesOn, Quiet
    <2>2. /\ pc' \in {"deep", "packing"} => pc \in {"deep", "packing"}
          /\ pc' \in {"bundle", "envelope"} => pc \in {"bundle", "envelope"} \/ work.bundle # <<>>
      BY <1>8 DEF MovesOn, Enters
    <2>3. QED
      BY <1>2, <2>1, <2>2
  <1>9. CASE EndsStep \/ Retries \/ TakesPackage
    <2>1. /\ saved' = saved /\ SameBundle /\ work'.package = work.package
          /\ work'.draft \in {work.draft, work.package}
          /\ pc' \in {"step", "stepped", "synthesize"}
      BY <1>9 DEF EndsStep, Retries, TakesPackage, Quiet, SameArtifacts, Enters
    <2>2. QED
      BY <1>2, <2>1 DEF SameBundle
  <1>10. CASE Saves
    <2>1. /\ saved' = work' /\ SameBundle /\ work'.package = work.package
          /\ work'.draft = NoPackage /\ pc' = "step"
      BY <1>10 DEF Saves, Enters
    <2>2. QED
      BY <1>2, <1>3, <2>1 DEF SameBundle
  <1>11. CASE EndsPlan \/ Stores
    <2>1. saved' = saved /\ work' = work /\ pc' \in {"done", "saved"}
      BY <1>11 DEF EndsPlan, Stores, Enters
    <2>2. QED
      BY <1>2, <2>1
  <1>12. CASE Begins
    <2>1. /\ saved' = saved /\ SameBundle /\ work'.package = work.package /\ ~IsDeep(work'.draft)
          /\ \/ pc' \in {"direct", "agentic", "deep"} /\ (pc' = "deep" => AsksDeep)
             \/ pc = "bundle" /\ pc' = "envelope"
      BY <1>12 DEF Begins, SameArtifacts, Enters
    <2>2. QED
      BY <1>2, <2>1 DEF SameBundle
  <1>13. CASE Retrieves
    <2>1. PICK package \in Packages :
           /\ IsDeep(package) => pc = "packing" \/ IsDeep(work.draft)
           /\ IF Planned THEN /\ pc' = "stepped" /\ work'.package = package
                              /\ work'.draft = NoPackage
              ELSE /\ pc' = "synthesize" /\ work'.draft = package
                   /\ work'.package = work.package
      BY <1>13 DEF Retrieves
    <2>2. saved' = saved /\ SameBundle
      BY <1>13 DEF Retrieves, Quiet
    <2>3. IsDeep(package) => AsksDeep
      BY <1>2, <2>1
    <2>4. QED
      BY <1>2, <1>3, <2>1, <2>2, <2>3 DEF SameBundle
  <1>14. CASE Drafts
    <2>1. /\ saved' = saved /\ SameBundle /\ work'.package = work.package
          /\ work'.draft.deep = work.draft.deep /\ pc' \in {"synthesize", "ask"}
      BY <1>14 DEF Drafts, Quiet, SameArtifacts, Enters
    <2>2. IsDeep(work'.draft) <=> IsDeep(work.draft)
      BY <2>1 DEF IsDeep
    <2>3. QED
      BY <1>2, <2>1, <2>2 DEF SameBundle
  <1>15. CASE Escapes \/ \E answer \in Replies : HandsBack(answer)
    <2>1. /\ saved' = saved /\ SameBundle /\ work'.package = work.package
          /\ work'.draft = work.draft /\ pc' \in {"stepped", "done"}
      BY <1>15 DEF Escapes, HandsBack, SameArtifacts, SameBundle
    <2>2. QED
      BY <1>2, <2>1 DEF SameBundle
  <1>16. CASE Dies
    <2>1. saved' = saved /\ work' = NoWork /\ pc' = "down"
      BY <1>16 DEF Dies
    <2>2. QED
      BY <1>2, <1>3, <2>1
  <1>17. CASE Resumes
    <2>1. saved' = saved /\ work' = saved /\ pc' = "step"
      BY <1>17 DEF Resumes, Quiet, Enters
    <2>2. QED
      BY <1>2, <2>1
  <1>18. QED
    BY <1>8, <1>9, <1>10, <1>11, <1>12, <1>13, <1>14, <1>15, <1>16, <1>17 DEF Move

\* Whatever a step does, every variable keeps its type.
LEMMA TypesAreKept ==
  ASSUME Types, AgentInv, DeepInv, PackageInv, PackInv, Next, Move, work' \in Works
  PROVE  Types'
  <1>1. agent' \in Agents /\ nodes' \subseteq Node /\ deep' \in Deeps /\ pack' \in Packs
    BY AgentKeepsRules, DeepKeepsRules, PackingKeepsRules
  <1>2. setting' \in Setting /\ crashes' \in 0 .. MaxCrashes /\ forgotten' \in Nat
    <2>1. /\ setting' = setting
          /\ \/ crashes' = crashes /\ forgotten' = forgotten
             \/ /\ crashes < MaxCrashes /\ crashes' = crashes + 1
                /\ forgotten' \in {forgotten, forgotten + 1}
      BY DEF Move, MovesOn, EndsStep, TakesPackage, Retries, Saves, EndsPlan, Begins,
         Retrieves, Drafts, HandsBack, Escapes, Stores, Dies, Resumes, Quiet, Still, SameAround
    <2>2. setting \in Setting /\ crashes \in 0 .. MaxCrashes /\ forgotten \in Nat
      BY DEF Types
    <2>3. QED
      BY <2>1, <2>2, PipelineAssumption
  <1>3. pc' \in Pcs
    <2>1. CASE MovesOn \/ EndsStep \/ TakesPackage \/ Retries \/ Saves \/ EndsPlan \/ Begins
      BY <2>1 DEF MovesOn, EndsStep, TakesPackage, Retries, Saves, EndsPlan, Begins, Enters,
         Types, Pcs
    <2>2. CASE Retrieves \/ Drafts \/ (\E answer \in Replies : HandsBack(answer)) \/ Stores
               \/ Dies \/ Resumes \/ Escapes
      BY <2>2 DEF Retrieves, Drafts, HandsBack, Escapes, Stores, Dies, Resumes, Enters, Pcs
    <2>3. QED
      BY <2>1, <2>2 DEF Move
  <1>4. saved' \in Works /\ reply' \in Replies
    <2>1. saved' \in {saved, work'}
      BY DEF Move, MovesOn, EndsStep, TakesPackage, Retries, Saves, EndsPlan, Begins,
         Retrieves, Drafts, HandsBack, Escapes, Stores, Dies, Resumes, Quiet
    <2>2. reply' = reply \/ reply' \in Replies
      BY DEF Move, MovesOn, EndsStep, TakesPackage, Retries, Saves, EndsPlan, Begins,
         Retrieves, Drafts, HandsBack, Escapes, Stores, Dies, Resumes, Quiet
    <2>3. QED
      BY <2>1, <2>2 DEF Types
  <1>5. runs' \in Seq(Run)
    <2>1. \/ runs' = runs
          \/ runs' = Append(runs, [status |-> "active", exchange |-> 0])
          \/ \E answer \in Replies :
                 runs' = [runs EXCEPT ![answer.run] =
                             [status |-> IF answer.ok = "yes" THEN "completed" ELSE "blocked",
                              exchange |-> answer.exchange]]
      BY DEF Move, MovesOn, EndsStep, TakesPackage, Retries, Saves, EndsPlan, Begins,
         Retrieves, Drafts, HandsBack, Finishes, Escapes, Stores, Dies, Resumes, Quiet, SameRows
    <2>2. runs \in Seq(Run)
      BY WorkParts
    <2>3. CASE runs' = Append(runs, [status |-> "active", exchange |-> 0])
      <3>1. [status |-> "active", exchange |-> 0] \in Run
        BY DEF Run
      <3>2. QED
        BY <2>2, <2>3, <3>1
    <2>4. CASE \E answer \in Replies :
                 runs' = [runs EXCEPT ![answer.run] =
                             [status |-> IF answer.ok = "yes" THEN "completed" ELSE "blocked",
                              exchange |-> answer.exchange]]
      <3>1. PICK answer \in Replies :
                 runs' = [runs EXCEPT ![answer.run] =
                             [status |-> IF answer.ok = "yes" THEN "completed" ELSE "blocked",
                              exchange |-> answer.exchange]]
        BY <2>4
      <3> DEFINE new == [status |-> IF answer.ok = "yes" THEN "completed" ELSE "blocked",
                         exchange |-> answer.exchange]
      <3>2. new \in Run
        BY DEF Run, Replies
      <3> HIDE DEF new
      <3>3. runs' = [runs EXCEPT ![answer.run] = new]
        BY <3>1 DEF new
      <3>4. [runs EXCEPT ![answer.run] = new] \in Seq(Run)
        BY <2>2, <3>2, RowsStayRuns
      <3>5. QED
        BY <3>3, <3>4
    <2>5. QED
      BY <2>1, <2>2, <2>3, <2>4
  <1>6. exchanges' \in Seq(Exchange)
    <2>1. \/ exchanges' = exchanges
          \/ exchanges' = Append(exchanges, [run |-> work.draft.run, life |-> crashes])
      BY DEF Move, MovesOn, EndsStep, TakesPackage, Retries, Saves, EndsPlan, Begins,
         Retrieves, Drafts, HandsBack, Escapes, Stores, Dies, Resumes, Quiet, SameRows
    <2> DEFINE new == [run |-> work.draft.run, life |-> crashes]
    <2>2. new \in Exchange
      BY WorkParts DEF Exchange, Types
    <2>3. exchanges' = exchanges \/ exchanges' = Append(exchanges, new)
      BY <2>1
    <2> HIDE DEF new
    <2>4. exchanges \in Seq(Exchange)
      BY DEF Types
    <2>5. Append(exchanges, new) \in Seq(Exchange)
      BY <2>2, <2>4
    <2>6. QED
      BY <2>3, <2>4, <2>5
  <1>7. active' \in Seq(Document)
    <2>1. active' = active \/ active' \in Referenced(UsedDocuments(work.draft))
      <3>1. CASE PlanNext
        BY <3>1 DEF PlanNext, RetrievalStep, AnswerStep, GatherStep, EndStep, EndPlan
      <3>2. CASE RetrievalNext
        BY <3>2 DEF RetrievalNext, BeginRetrieval, RetrieveDirect, RetrieveRaises, RunAgent,
              EndAgentic, RunDeep, PackUseful, PackChunk, EndDeep, BeginBundle, BuildBundle,
              BundleFails, DeepRetrievalEscapes, requestVars
      <3>3. CASE SynthesisNext
        BY <3>3 DEF SynthesisNext, Repack, EndRepack, Synthesize, AdapterAnswers, AdapterFails,
              SaveExchange, SaveFails, Answered, DeepSynthesisEscapes
      <3>4. CASE Vanish \/ Crash \/ Resume
        BY <3>4 DEF Vanish, Crash, Resume, requestVars
      <3>5. QED
        BY <3>1, <3>2, <3>3, <3>4 DEF Next, Proceed
    <2>2. QED
      BY <2>1, UsedDocumentsType, ReferencedType DEF Types
  <1>8. abandoned' \in SUBSET Nat
    <2>1. abandoned' = abandoned \/ Leaves(work.draft.run)
      BY DEF Move, MovesOn, EndsStep, TakesPackage, Retries, Saves, EndsPlan, Begins,
         Retrieves, Drafts, HandsBack, Escapes, Stores, Dies, Resumes, Quiet, Still
    <2>2. abandoned \in SUBSET Nat /\ work.draft.run \in Nat
      BY WorkParts DEF Types
    <2>3. QED
      BY <2>1, <2>2 DEF Leaves
  <1>9. QED
    BY <1>1, <1>2, <1>3, <1>4, <1>5, <1>6, <1>7, <1>8 DEF Types

(***************************************************************************)
(* The invariant and what it says                                          *)
(***************************************************************************)
LEMMA InitRight ==
  ASSUME Init
  PROVE  Inv
  <1>1. pc \in {"step", "retrieve"} /\ (pc = "step" <=> Planned)
    BY DEF Init
  <1>2. /\ work = NoWork /\ saved = NoWork /\ reply = NoReply /\ runs = <<>> /\ exchanges = <<>>
        /\ crashes = 0 /\ forgotten = 0 /\ abandoned = {} /\ agent = AgentIdle
        /\ deep = DeepIdle /\ pack = PackIdle
        /\ nodes = Node /\ setting \in Setting /\ active = setting.active
    BY DEF Init, AgentInit, DeepInit
  <1>3. Types
    <2>1. setting.active \in Seq(Document)
      BY <1>2, PipelineAssumption DEF Request
    <2>2. /\ agent \in Agents /\ deep \in Deeps /\ pack \in Packs
          /\ work \in Works /\ saved \in Works /\ reply \in Replies
      BY <1>2, AgentIdleRight, DeepIdleRight, PackIdleType, NoWorkType, NoReplyType
    <2>3. runs \in Seq(Run) /\ exchanges \in Seq(Exchange)
      BY <1>2
    <2>4. crashes \in 0 .. MaxCrashes /\ forgotten \in Nat
      BY <1>2, PipelineAssumption
    <2>5. pc \in Pcs
      BY <1>1 DEF Pcs
    <2>6. QED
      BY <1>2, <2>1, <2>2, <2>3, <2>4, <2>5 DEF Types
  <1>4. AgentInv
    BY <1>2, AgentIdleRight DEF AgentRules, AgentInv, FallbackFirst
  <1>5. DeepInv
    BY <1>2, DeepIdleRight, DeepRulesAre
  <1>6. /\ work.draft = NoPackage /\ work.package = NoPackage /\ saved.package = NoPackage
        /\ saved.draft = NoPackage /\ work.answer = NoReply /\ saved.answer = NoReply
        /\ work.retrieved = "no" /\ work.step = 1 /\ work.bundle = <<>> /\ saved.bundle = <<>>
    BY <1>2 DEF NoWork
  <1>7. PackageInv
    BY <1>1, <1>6, NoPackageRight DEF PackageInv
  <1>8. PackInv
    BY <1>1 DEF PackInv, LeftOutIsListed
  <1>9. PlanInv
    <2>1. setting.plan \in Seq([kind : {"retrieve", "answer", "search", "compile"}, tries : Nat])
      BY <1>3, SettingType
    <2>2. Planned => ~PlanOver
      BY <1>6, <2>1 DEF Planned, PlanOver
    <2>3. QED
      BY <1>1, <1>2, <1>6, <2>2 DEF PlanInv, RetrievalPcs, AnswerPcs
  <1>10. OnceInv
    BY <1>1, <1>2, <1>6 DEF OnceInv, Stored, AnswerPcs
  <1>11. RunInv
    BY <1>1, <1>2, <1>6 DEF RunInv, Told, DraftPcs, RetrievalPcs, AnswerPcs, NoReply, NoPackage
  <1>12. OpenInv
    BY <1>1, <1>2, <1>6 DEF OpenInv
  <1>13. AbandonInv
    <2>1. ~IsDeep(NoPackage)
      BY DEF NoPackage, IsDeep
    <2>2. QED
      BY <1>1, <1>2, <1>6, <2>1 DEF AbandonInv
  <1>14. QED
    BY <1>3, <1>4, <1>5, <1>7, <1>8, <1>9, <1>10, <1>11, <1>12, <1>13 DEF Inv

\* Nothing happens, or one of the moves.
LEMMA InvIsKept ==
  ASSUME Inv, [Next]_vars
  PROVE  Inv'
  <1>1. CASE Next
    <2>1. /\ Types /\ AgentInv /\ DeepInv /\ PackageInv /\ PackInv
          /\ PlanInv /\ OnceInv /\ RunInv /\ OpenInv /\ AbandonInv
      BY DEF Inv
    <2>2. Move /\ work' \in Works
      BY <1>1, <2>1, Moves
    <2>3. Types'
      BY <1>1, <2>1, <2>2, TypesAreKept
    <2>4. AgentInv' /\ DeepInv' /\ PackInv'
      BY <1>1, <2>1, AgentKeepsRules, DeepKeepsRules, PackingKeepsRules
    <2>5. PackageInv' /\ PlanInv' /\ OnceInv'
      BY <2>1, <2>2, PackagesStayHonest, PlanIsFollowed, ExchangesAreFew
    <2>6. RunInv' /\ OpenInv' /\ AbandonInv'
      BY <2>1, <2>2, RunsAreTold, OpenRunsAreKnown, AbandonedAreKnown
    <2>7. QED
      BY <2>3, <2>4, <2>5, <2>6 DEF Inv
  <1>2. CASE UNCHANGED vars
    <2>1. /\ UNCHANGED <<setting, pc, active, runs, exchanges, work, saved, reply, crashes,
                        forgotten, abandoned>>
          /\ UNCHANGED <<nodes, agent, deep, pack>>
      BY <1>2 DEF vars, agentVars, deepVars, requestVars
    <2>2. Types' /\ AgentInv' /\ DeepInv' /\ PackageInv'
      BY <2>1 DEF Inv, Types, AgentInv, FallbackFirst, DeepInv, StopIsNamed, PackageInv
    <2>3. PackInv'
      BY <2>1 DEF Inv, PackInv, ToPack, Overhead, LeftOutIsListed
    <2>4. PlanInv' /\ OnceInv'
      BY <2>1 DEF Inv, PlanInv, Planned, PlanOver, PlanStep, OnceInv, Stored
    <2>5. RunInv' /\ OpenInv' /\ AbandonInv'
      BY <2>1 DEF Inv, RunInv, Told, OpenInv, AbandonInv, AsksDeep, Mode, Gathers, May
    <2>6. QED
      BY <2>2, <2>3, <2>4, <2>5 DEF Inv
  <1>3. QED
    BY <1>1, <1>2

\* The inductive invariant holds of every behaviour.
LEMMA Invariance == Spec => []Inv
  <1>1. Init => Inv
    BY InitRight
  <1>2. Inv /\ [Next]_vars => Inv'
    BY InvIsKept
  <1>3. QED
    BY <1>1, <1>2, PTL DEF Spec

\* A list whose members are in a set is a list over it.
LEMMA ElementsMakeList ==
  ASSUME NEW S, NEW s \in Seq(S), NEW T, \A i \in 1 .. Len(s) : s[i] \in T
  PROVE  s \in Seq(T)
  OBVIOUS

(***************************************************************************)
(* Whatever the model decides and whatever fails, every variable has its   *)
(* type; no run names an exchange that is not stored, no exchange, answer  *)
(* or package a run that was not begun, and no exchange is of a life yet   *)
(* to come; an exception goes past runs that were begun.                   *)
(***************************************************************************)
THEOREM TypeCorrect == Spec => []TypeOK
  <1>1. Inv => TypeOK
    <2>1. SUFFICES ASSUME Inv PROVE TypeOK
      OBVIOUS
    <2>2. Types /\ OnceInv /\ RunInv /\ AbandonInv
      BY <2>1 DEF Inv
    <2>3. /\ agent.at \in {"idle", "deciding", "calling", "stopped"}
          /\ deep.at \in {"idle", "planning", "scoring", "stopped"}
      BY <2>2 DEF Types, Agents, AgentPlaces, Deeps, DeepPlaces
    <2>4. Members(active) \subseteq Document
      BY <2>2 DEF Types, Members
    <2>5. runs \in Seq(Run) /\ exchanges \in Seq(Exchange)
      BY <2>2 DEF Types
    <2>6. /\ Len(runs) \in Nat /\ Len(exchanges) \in Nat
          /\ DOMAIN runs = 1 .. Len(runs) /\ DOMAIN exchanges = 1 .. Len(exchanges)
          /\ \A r \in DOMAIN runs : runs[r] \in Run
          /\ \A i \in DOMAIN exchanges : exchanges[i] \in Exchange
      BY <2>5
    <2>7. \A r \in DOMAIN runs :
              runs[r] \in [status : {"active", "blocked", "completed"}, exchange : 0 .. Len(exchanges)]
      <3>1. TAKE r \in DOMAIN runs
      <3>2. runs[r] \in Run /\ runs[r].exchange <= Len(exchanges)
        BY <2>2, <2>6 DEF RunInv
      <3>3. QED
        BY <2>6, <3>2 DEF Run
    <2>8. \A i \in DOMAIN exchanges :
              exchanges[i] \in [run : 0 .. Len(runs), life : 0 .. MaxCrashes]
      <3>1. TAKE i \in DOMAIN exchanges
      <3>2. /\ exchanges[i] \in Exchange /\ exchanges[i].run <= Len(runs)
            /\ exchanges[i].life <= crashes
        BY <2>2, <2>6 DEF RunInv, OnceInv
      <3>3. crashes \in 0 .. MaxCrashes
        BY <2>2 DEF Types
      <3>4. QED
        BY <2>6, <3>2, <3>3, PipelineAssumption DEF Exchange
    <2>9. runs \in Seq([status : {"active", "blocked", "completed"}, exchange : 0 .. Len(exchanges)])
      <3> DEFINE T == [status : {"active", "blocked", "completed"}, exchange : 0 .. Len(exchanges)]
      <3>1. \A r \in 1 .. Len(runs) : runs[r] \in T
        BY <2>6, <2>7
      <3> HIDE DEF T
      <3>2. runs \in Seq(T)
        BY <2>5, <2>6, <3>1, ElementsMakeList
      <3>3. QED
        BY <3>2 DEF T
    <2>10. exchanges \in Seq([run : 0 .. Len(runs), life : 0 .. MaxCrashes])
      <3> DEFINE T == [run : 0 .. Len(runs), life : 0 .. MaxCrashes]
      <3>1. \A i \in 1 .. Len(exchanges) : exchanges[i] \in T
        BY <2>6, <2>8
      <3> HIDE DEF T
      <3>2. exchanges \in Seq(T)
        BY <2>5, <2>6, <3>1, ElementsMakeList
      <3>3. QED
        BY <3>2 DEF T
    <2>11. \A w \in {work, saved} : w.answer \in Replies /\ w.package.run \in 0 .. Len(runs)
      <3>1. TAKE w \in {work, saved}
      <3>2. w \in Works /\ w.package.run <= Len(runs)
        BY <2>2 DEF Types, RunInv
      <3>3. w.answer \in Replies /\ w.package.run \in Nat
        BY <3>2 DEF Works, Packages
      <3>4. QED
        BY <2>6, <3>2, <3>3
    <2>12. abandoned \subseteq DOMAIN runs
      <3>1. \A r \in abandoned : r \in Nat /\ r # 0 /\ r <= Len(runs)
        BY <2>2 DEF Types, AbandonInv
      <3>2. QED
        BY <2>6, <3>1
    <2>13. QED
      BY <2>2, <2>3, <2>4, <2>9, <2>10, <2>11, <2>12 DEF TypeOK, Types, Pcs
  <1>2. QED
    BY <1>1, Invariance, PTL

(***************************************************************************)
(* However often an answer step is retried or answered with a failure, and *)
(* however often its execution is resumed, an execution stores one         *)
(* exchange, and one more only for each death between the storing of one   *)
(* and the saving of the step that says so.                                *)
(***************************************************************************)
THEOREM AnsweredAtMostOnce == Spec => []AnsweredOnce
  <1>1. Inv => AnsweredOnce
    <2>1. SUFFICES ASSUME Inv PROVE AnsweredOnce
      OBVIOUS
    <2>2. Len(exchanges) <= forgotten + (IF Stored \/ saved.answer # NoReply THEN 1 ELSE 0)
      BY <2>1 DEF Inv, OnceInv
    <2>3. forgotten \in Nat /\ Len(exchanges) \in Nat
      BY <2>1 DEF Inv, Types
    <2>4. QED
      BY <2>2, <2>3 DEF AnsweredOnce
  <1>2. QED
    BY <1>1, Invariance, PTL

(***************************************************************************)
(* A completed run has its exchange, and what a finished request says, its *)
(* run says too.  Where nothing died and nothing was refused, a run that   *)
(* is left active is that of a package which nobody asked an answer of, or *)
(* one that an exception went past; and exceptions go past the runs of     *)
(* deep requests, and of plans that gather a bundle, only.                 *)
(***************************************************************************)
THEOREM OutcomeIsTold == Spec => []RunTellsOutcome
  <1>1. Inv => RunTellsOutcome
    <2>1. SUFFICES ASSUME Inv PROVE RunTellsOutcome
      OBVIOUS
    <2>2. Types /\ RunInv /\ OpenInv /\ AbandonInv
      BY <2>1 DEF Inv
    <2>3. \A r \in DOMAIN runs :
              runs[r].status = "completed" => /\ runs[r].exchange # 0
                                              /\ exchanges[runs[r].exchange].run = r
      BY <2>2 DEF RunInv
    <2>4. pc = "done" /\ reply.run # 0 /\ ~May("noupdate") =>
              runs[reply.run] = [status |-> IF reply.ok = "yes" THEN "completed" ELSE "blocked",
                                 exchange |-> reply.exchange]
      BY <2>2 DEF RunInv, Told
    <2>5. ASSUME pc = "done", ~May("noupdate"), crashes = 0,
                 NEW r \in DOMAIN runs, runs[r].status = "active"
          PROVE  (r = work.package.run /\ r # reply.run) \/ r \in abandoned
      <3>1. \/ pc \in DraftPcs /\ r = work.draft.run
            \/ r = work.package.run
            \/ r \in abandoned
        BY <2>2, <2>5 DEF OpenInv
      <3>2. pc \notin DraftPcs
        BY <2>5 DEF DraftPcs, RetrievalPcs, AnswerPcs
      <3>3. r # 0
        BY <2>2, <2>5 DEF Types
      <3>4. r # reply.run
        <4>1. SUFFICES ASSUME r = reply.run PROVE FALSE
          OBVIOUS
        <4>2. runs[r].status \in {"completed", "blocked"}
          BY <2>4, <2>5, <3>3, <4>1
        <4>3. QED
          BY <2>5, <4>2
      <3>5. QED
        BY <3>1, <3>2, <3>4
    <2>6. abandoned # {} => May("raise") /\ (Mode(setting.mode) = "deep" \/ Gathers)
      BY <2>2 DEF AbandonInv, AsksDeep
    <2>7. QED
      BY <2>3, <2>4, <2>5, <2>6 DEF RunTellsOutcome
  <1>2. QED
    BY <1>1, Invariance, PTL

(***************************************************************************)
(* When a deep answer is asked for, every useful chunk is in the prompt or *)
(* listed as left out, and the prompt keeps the budgets that its chunks    *)
(* were measured against; if it does not, it is a single chunk that was    *)
(* cut to an estimate of them, which may be one character over, and a      *)
(* token or two over where tokens are counted from characters.  And an     *)
(* agentic or bundled prompt announces a repository context only if it has *)
(* records of it or names the best match of a search.                      *)
(***************************************************************************)
THEOREM PromptsAreHonest == Spec => []PromptIsHonest
  <1>1. Inv => PromptIsHonest
    BY DEF Inv, PackInv, PackageInv, Claims, PromptIsHonest, ClaimsWhatItHas
  <1>2. QED
    BY <1>1, Invariance, PTL

(***************************************************************************)
(* Whatever the model says, the memory agent falls back to a search of its *)
(* own at its first tool or never, and deep retrieval ends for a reason it *)
(* names and never shows the model a candidate twice: the cap on its turns *)
(* is never what ends it.                                                  *)
(***************************************************************************)
THEOREM LoopsKeepDiscipline == Spec => []LoopsAreDisciplined
  <1>1. Inv => LoopsAreDisciplined
    BY DEF Inv, AgentInv, DeepInv, LoopsAreDisciplined
  <1>2. QED
    BY <1>1, Invariance, PTL

================================================================================

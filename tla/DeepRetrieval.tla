---------------------------- MODULE DeepRetrieval ----------------------------
(***************************************************************************)
(* Deep retrieval, retrieval/deep.py: run_deep_retrieval lets a model plan *)
(* one primitive at a time, hides from it what it has seen, lets a model   *)
(* keep candidates, and stops by deterministic signals; then               *)
(* pack_synthesis_chunks fits what was kept into the budget of the prompt, *)
(* once after retrieval and once more when the conversation's history is   *)
(* known.  A block is measured twice, in characters and in tokens, against *)
(* a budget of each; texts have no blanks at their ends, and the estimated *)
(* number of characters of a token is whole.  A sufficiency score is in    *)
(* tenths.                                                                 *)
(***************************************************************************)
EXTENDS MemoryAgent

CONSTANTS
    Returned,        \* lists of nodes that a primitive may return
    Text,            \* characters of each node's text
    Header,          \* characters of each node's block without its text
    Titled,          \* nodes that have a title
    Encoded,         \* tokens of each node's block as an encoder counts them, by
                     \* the characters of text in it
    DeepIterations,  \* config.retrieval.deep_max_iterations
    Shortlist,       \* config.retrieval.deep_shortlist_size
    Novelty,         \* low_novelty: fewer than one in Novelty are new
    SufficiencyStop, \* config.retrieval.deep_sufficiency_stop
    PlateauFloor,    \* config.retrieval.deep_sufficiency_plateau_floor
    PlateauPasses,   \* config.retrieval.deep_plateau_passes
    PlateauEpsilon,  \* config.retrieval.deep_plateau_epsilon
    Scores           \* sufficiency scores that a model may give

ASSUME DeepAssumption ==
    /\ Returned \subseteq Seq(Node)
    /\ Text \in [Node -> Nat] /\ Header \in [Node -> Nat \ {0}] /\ Titled \subseteq Node
    /\ \A n \in Node : \A k \in 0 .. Text[n] : Encoded[n][k] \in Nat \ {0}
    /\ {DeepIterations, Shortlist, Novelty, PlateauPasses, PlateauEpsilon} \subseteq Nat
    /\ Scores \subseteq Nat

VARIABLES
    deep,    \* the session and its loop
    pack     \* the packing under way

deepVars == <<deep, pack>>

MaxDeep == IF DeepIterations < 1 THEN 1 ELSE DeepIterations
HardCap == 2 * MaxDeep + 2

DeepIdle ==
    [at |-> "idle", loops |-> 0, invalid |-> 0, seen |-> {}, triaged |-> <<>>, useful |-> <<>>,
     rounds |-> <<>>, scores |-> <<>>, stop |-> None]

\* BudgetPlan: the budgets of a request, and how its tokens are counted.
NoPlan == [chars |-> 0, available |-> 0, tokenizer |-> "approx", ratio |-> 1]

PackIdle ==
    [todo |-> <<>>, kept |-> <<>>, skipped |-> {}, plan |-> NoPlan, overhead |-> 0, chars |-> 0,
     tokens |-> 0]

DeepInit == deep = DeepIdle /\ pack = PackIdle
DeepStarts == [DeepIdle EXCEPT !.at = "planning", !.loops = 1]

StopDeep(d, reason) == [d EXCEPT !.at = "stopped", !.stop = reason]

\* The loop goes round again, if the cap leaves it a turn.
AgainDeep(d) ==
    IF d.loops < HardCap THEN [d EXCEPT !.at = "planning", !.loops = @ + 1]
    ELSE [d EXCEPT !.at = "stopped"]

Least(a, b) == IF a < b THEN a ELSE b

Members(s) == {s[i] : i \in DOMAIN s}

(***************************************************************************)
(* DeepRetrievalSession                                                    *)
(***************************************************************************)
\* filter_new: each node once, and none of those seen.
FilterNew(found, seen) ==
    LET fresh == {i \in DOMAIN found :
                     found[i] \notin seen /\ \A j \in 1 .. i - 1 : found[j] # found[i]}
        nth(k) == CHOOSE i \in fresh : Cardinality({j \in fresh : j <= i}) = k
    IN  [k \in 1 .. Cardinality(fresh) |-> found[nth(k)]]

FirstOf(s, k) == SubSeq(s, 1, Least(k, Len(s)))

\* The members of s that are in keep, in the order of s.
Keeping(s, keep) ==
    LET at == {i \in DOMAIN s : s[i] \in keep}
        nth(k) == CHOOSE i \in at : Cardinality({j \in at : j <= i}) = k
    IN  [k \in 1 .. Cardinality(at) |-> s[nth(k)]]

AddUseful(useful, kept) == useful \o Keeping(kept, Members(kept) \ Members(useful))

ShouldStop(d) ==
    LET last == d.rounds[Len(d.rounds)]
    IN  CASE Len(d.rounds) >= MaxDeep -> "max_iterations"
          [] Len(d.rounds) < MaxDeep /\ last.new = 0 -> "no_new_candidates"
          [] Len(d.rounds) < MaxDeep /\ last.new > 0 /\ last.new * Novelty < last.total -> "low_novelty"
          [] OTHER -> None

(***************************************************************************)
(* run_deep_retrieval                                                      *)
(***************************************************************************)
PlannerStops ==
    /\ deep.at = "planning"
    /\ deep' = StopDeep(deep, "planner_stop")
    /\ UNCHANGED pack

\* An unknown primitive, a bad argument, an answer that cannot be read.
InvalidPlan ==
    /\ deep.at = "planning"
    /\ LET d == [deep EXCEPT !.invalid = @ + 1]
       IN  deep' = IF d.invalid > MaxDeep THEN StopDeep(d, "repeated_invalid_plans")
                   ELSE AgainDeep(d)
    /\ UNCHANGED pack

\* Mutant: only what is kept counts as seen.
SearchSeeingKept ==
    /\ deep.at = "planning"
    /\ \E found \in Returned :
       \E new \in {FilterNew(found, deep.seen)} :
       \E keep \in SUBSET Members(FirstOf(new, Shortlist)) :
           deep' = [deep EXCEPT
               !.at = "scoring",
               !.seen = @ \cup keep,
               !.triaged = @ \o FirstOf(new, Shortlist),
               !.useful = AddUseful(@, Keeping(FirstOf(new, Shortlist), keep)),
               !.rounds = Append(@, [new |-> Len(new), total |-> Len(found)])]
    /\ UNCHANGED pack

\* One primitive, and the triage of the shortlist that comes of it: nodes
\* beyond the shortlist are seen too.
Search ==
    /\ deep.at = "planning"
    /\ \E found \in Returned :
       \E new \in {FilterNew(found, deep.seen)} :
       \E keep \in SUBSET Members(FirstOf(new, Shortlist)) :
           deep' = [deep EXCEPT
               !.at = "scoring",
               !.seen = @ \cup Members(new),
               !.triaged = @ \o FirstOf(new, Shortlist),
               !.useful = AddUseful(@, Keeping(FirstOf(new, Shortlist), keep)),
               !.rounds = Append(@, [new |-> Len(new), total |-> Len(found)])]
    /\ UNCHANGED pack

DetectPlateau(scores) ==
    /\ PlateauPasses > 0
    /\ Len(scores) > PlateauPasses
    /\ scores[Len(scores)] <= scores[Len(scores) - PlateauPasses] + PlateauEpsilon

SufficiencyStops(d) ==
    LET value == d.scores[Len(d.scores)]
    IN  CASE value >= SufficiencyStop -> "sufficiency_high"
          [] value < SufficiencyStop /\ value >= PlateauFloor /\ DetectPlateau(d.scores) ->
               "sufficiency_plateau"
          [] OTHER -> None

AfterRound(d, reason) ==
    IF reason # None THEN StopDeep(d, reason)
    ELSE IF ShouldStop(d) # None THEN StopDeep(d, ShouldStop(d))
    ELSE AgainDeep(d)

\* make_scorer: the model's score, or a count when the model fails.
Score ==
    /\ deep.at = "scoring"
    /\ \E value \in Scores \cup {Least(85, 35 + 10 * Len(deep.useful))} :
       \E d \in {[deep EXCEPT !.scores = Append(@, value)]} :
           deep' = AfterRound(d, SufficiencyStops(d))
    /\ UNCHANGED pack

DoNotScore ==
    /\ deep.at = "scoring"
    /\ deep' = AfterRound(deep, None)
    /\ UNCHANGED pack

(***************************************************************************)
(* pack_synthesis_chunks, one chunk at a time                              *)
(***************************************************************************)
\* text: the characters of the node's text that it shows; cut: whether it was made
\* to fit.
Chunk(n) == [node |-> n, text |-> Text[n], cut |-> "no"]

\* _synthesis_block: the blank after the name of a node without a title is there
\* unless it ends the block.
BlockChars(chunk) ==
    Header[chunk.node] + (IF chunk.text = 0 THEN 0
                          ELSE chunk.text + (IF chunk.node \in Titled THEN 1 ELSE 2))

\* BudgetPlan.count, of a block and the newline after it.
BlockTokens(plan, chunk) ==
    IF plan.tokenizer = "approx" THEN (BlockChars(chunk) + plan.ratio) \div plan.ratio
    ELSE Encoded[chunk.node][chunk.text]

\* overhead: the tokens of the prompt without any context.
PackStarts(chunks, plan, overhead) ==
    [PackIdle EXCEPT !.todo = chunks, !.plan = plan, !.overhead = overhead, !.tokens = overhead]

Fits(chunk) ==
    /\ pack.chars + BlockChars(chunk) <= pack.plan.chars
    /\ pack.tokens + BlockTokens(pack.plan, chunk) <= pack.plan.available

\* The characters that a chunk may be cut to: those of the budget, or those that the
\* tokens left are estimated to be.
TokenRoom ==
    IF pack.plan.available > pack.overhead
    THEN (pack.plan.available - pack.overhead) * pack.plan.ratio ELSE 0

Room == Least(pack.plan.chars, TokenRoom)

\* A first chunk that does not fit is cut to what its header leaves of them, and is
\* kept without being measured again.
MayCut(chunk) ==
    /\ ~Fits(chunk) /\ pack.kept = <<>>
    /\ Room > Header[chunk.node] + 1

CutShort(chunk) ==
    [chunk EXCEPT !.text = Least(@, Room - (Header[chunk.node] + 1)), !.cut = "yes"]

Keep(chunk) ==
    pack' = [pack EXCEPT !.todo = Tail(@), !.kept = Append(@, chunk),
                         !.chars = @ + BlockChars(chunk),
                         !.tokens = @ + BlockTokens(pack.plan, chunk)]

KeepChunk ==
    /\ pack.todo # <<>>
    /\ \/ Fits(Head(pack.todo)) /\ Keep(Head(pack.todo))
       \/ MayCut(Head(pack.todo)) /\ Keep(CutShort(Head(pack.todo)))
    /\ UNCHANGED deep

SkipChunk ==
    /\ pack.todo # <<>>
    /\ ~Fits(Head(pack.todo)) /\ ~MayCut(Head(pack.todo))
    /\ pack' = [pack EXCEPT !.todo = Tail(@), !.skipped = @ \cup {Head(pack.todo).node}]
    /\ UNCHANGED deep

DeepNext == PlannerStops \/ InvalidPlan \/ Search

(***************************************************************************)
(* A session always says why it ended: the cap that guards the loop is     *)
(* never what ends it (run_deep_retrieval, "Guaranteed to terminate").     *)
(* And no candidate is put before the triage model twice.                  *)
(***************************************************************************)
StopIsNamed ==
    /\ deep.at = "stopped" => deep.stop # None
    /\ \A i, j \in DOMAIN deep.triaged : deep.triaged[i] = deep.triaged[j] => i = j

=============================================================================

-------------------------- MODULE SemanticCandidates --------------------------
(***************************************************************************)
(* Where reviewed edges come from.  Sweeps over the nodes of a document    *)
(* (db/repositories.py enqueue_* and the scans of retrieval/) queue pairs  *)
(* of nodes that look related or contradictory, a model may be asked to    *)
(* confirm them, the definition-drift report queues pairs of definitions   *)
(* that disagree, and an operator accepts a pair, which makes an edge, or  *)
(* rejects it.  All of it happens beside the rebuilds of DocumentTrees.    *)
(***************************************************************************)
EXTENDS DocumentTrees

CONSTANTS
    Similar,       \* pairs of contents whose embeddings are near
    Opposed,       \* those of which one side negates what both claim
    Labelled,      \* pairs of contents that share a label
    Drifting,      \* pairs of contents that define a term differently
    Kinds,         \* the sweeps that are looked at
    ByHand,        \* relation types of the edges that an operator makes by hand
    Symmetric,     \* relation types without a direction
    RelationOf,    \* the relation type that each kind of sweep proposes
    Cursors,       \* places where a sweep goes on
    FocusLimit,    \* nodes of a batch
    PerNode        \* candidates of a node

ASSUME CandidatesAssumption ==
    /\ Opposed \subseteq Similar
    /\ Kinds \subseteq {"label", "vector", "contradiction", "confirmed"}
    /\ Symmetric \cup ByHand \subseteq Relation
    /\ RelationOf \in [Kinds \cup {"drift"} -> Relation]
    /\ Cursors \subseteq Tree \X (0 .. Width)
    /\ {FocusLimit, PerNode} \subseteq Nat \ {0}

VARIABLES
    candidates,  \* the queue of pairs, judged or not
    born         \* history: candidates of which an edge was made

queueVars == <<candidates, born>>
vars == <<treeVars, queueVars>>

Pair(s, d, r) == [src |-> s, dst |-> d, rel |-> r]
PairOf(c) == [src |-> c.src, dst |-> c.dst, rel |-> c.rel]
Pending(p) == [src |-> p.src, dst |-> p.dst, rel |-> p.rel, status |-> "pending"]

\* Two pairs with one pair_key.
SamePair(p, q) ==
    /\ p.rel = q.rel
    /\ \/ p.src = q.src /\ p.dst = q.dst
       \/ p.rel \in Symmetric /\ p.src = q.dst /\ p.dst = q.src

Exists(p) == \E c \in candidates : SamePair(c, p)

(***************************************************************************)
(* Scans.  Nodes are read in the order of their identifiers.               *)
(***************************************************************************)
Before(n, m) == n[1] < m[1] \/ (n[1] = m[1] /\ n[2] < m[2])
First(nodes, k) == {n \in nodes : Cardinality({m \in nodes : Before(m, n)}) < k}
Least(nodes) == CHOOSE n \in nodes : \A m \in nodes \ {n} : Before(n, m)
Related(n, m, relation) == {ContentOf(n), ContentOf(m)} \in relation

\* Nodes beside n itself, of other documents only unless the sweep is within one.
Others(n, within) ==
    {m \in Node : m # n /\ Findable(m) /\ (within \/ Ours(m) # Ours(n))}

\* Of nodes with one text the first counts, and none with the text of n.
Distinct(n, nodes) ==
    {m \in nodes : /\ ContentOf(m) # ContentOf(n)
                   /\ \A o \in nodes : ContentOf(o) = ContentOf(m) => ~Before(o, m)}

Neighbours(n, within) ==
    {m \in Distinct(n, Others(n, within)) : Related(n, m, Similar)}

Scan(kind, n, within) ==
    CASE kind = "label" -> First({m \in Others(n, within) : Related(n, m, Labelled)}, PerNode)
      [] kind = "vector" -> First(Neighbours(n, within), PerNode)
      [] OTHER -> First({m \in First(Neighbours(n, within), 5 * PerNode) : Related(n, m, Opposed)},
                        PerNode)

(***************************************************************************)
(* A sweep: of one node, or of a batch of the active nodes after a cursor. *)
(* A dry run writes nothing and says how many pairs a run would queue.     *)
(***************************************************************************)
FocusNodes(kind, cursor) ==
    IF kind = "label" THEN {{n} : n \in {m \in Node : row[m] # "absent"}}
    ELSE {First({n \in Node : row[n] = "active" /\ Before(cursor, n)}, FocusLimit)}

BeginSweep(t) ==
    /\ \E kind \in Kinds, within \in BOOLEAN, cursor \in Cursors, dry \in BOOLEAN :
        \E focus \in FocusNodes(kind, cursor) :
            /\ kind = "label" => ~dry /\ cursor = CHOOSE c \in Cursors : TRUE
            /\ Enter(t, "sweep", {Queue},
                     [op |-> "sweep", kind |-> kind, within |-> within, dry |-> dry,
                      left |-> focus, keys |-> {}, docs |-> {}, count |-> 0, deaf |-> FALSE])
    /\ UNCHANGED <<storeVars, queueVars>>

\* The pairs of a node that are new: to the queue and, in a dry run, to the batch.
Fresh(c, n) ==
    {p \in {Pair(n, m, RelationOf[c.kind]) : m \in Scan(c.kind, n, c.within)} :
        ~Exists(p) /\ \A q \in c.keys : ~SamePair(p, q)}

\* The model may turn pairs down; once it has failed it is not asked again.
Verdicts(c, fresh) ==
    IF c.kind # "confirmed" THEN {[taken |-> fresh, deaf |-> FALSE]}
    ELSE IF c.deaf \/ fresh = {} THEN {[taken |-> {}, deaf |-> c.deaf]}
    ELSE [taken : SUBSET fresh, deaf : {FALSE}] \cup [taken : (SUBSET fresh) \ {fresh}, deaf : {TRUE}]

LookAround(t) ==
    /\ LET c == call[t]
           n == Least(c.left)
       IN /\ pc[t] = "sweep" /\ c.left # {} /\ ~c.dry
          /\ \E v \in Verdicts(c, Fresh(c, n)) :
                /\ Goto(t, "sweep", IF v.taken = {} THEN "sweep" ELSE "queue")
                /\ call' = [call EXCEPT ![t] =
                      [c EXCEPT !.left = @ \ {n}, !.docs = v.taken, !.deaf = v.deaf]]
    /\ UNCHANGED <<storeVars, queueVars>>

\* A dry run counts, and remembers the pairs that a run would have queued or asked about.
Foresee(t) ==
    /\ LET c == call[t]
           n == Least(c.left)
           fresh == Fresh(c, n)
       IN /\ pc[t] = "sweep" /\ c.left # {} /\ c.dry
          /\ \E v \in Verdicts(c, fresh) :
                /\ Goto(t, "sweep", "sweep")
                /\ call' = [call EXCEPT ![t] =
                      [c EXCEPT !.left = @ \ {n}, !.keys = @ \cup fresh,
                                !.count = @ + Cardinality(v.taken), !.deaf = v.deaf]]
    /\ UNCHANGED <<storeVars, queueVars>>

\* insert_many stops, and raises, at the first row that the queue has.
Taken(p) == \E c \in candidates : PairOf(c) = p
Inserted(docs) == {p \in docs : \A q \in docs : Taken(q) => Before(p.dst, q.dst)}

QueuePairs(t) ==
    /\ pc[t] = "queue"
    /\ LET c == call[t]
       IN /\ candidates' = candidates \cup {Pending(p) : p \in Inserted(c.docs)}
          /\ IF \E p \in c.docs : Taken(p)
             THEN Leave(t)
             ELSE /\ Goto(t, "queue", "sweep")
                  /\ call' = [call EXCEPT ![t] = [c EXCEPT !.docs = {}, !.count = @ + Cardinality(c.docs)]]
    /\ UNCHANGED <<storeVars, born>>

EndSweep(t) ==
    /\ pc[t] = "sweep" /\ call[t].left = {}
    /\ Leave(t)
    /\ UNCHANGED <<storeVars, queueVars>>

(***************************************************************************)
(* The definition-drift report, applied.  Pairs of one report are compared *)
(* with the queue but not with each other.                                 *)
(***************************************************************************)
Definitions ==
    {p \in {Pair(n, m, RelationOf["drift"]) : n, m \in {o \in Node : row[o] = "active"}} :
        p.src # p.dst /\ Related(p.src, p.dst, Drifting)}

Reports == {<<p>> : p \in Definitions} \cup {<<p, q>> : p, q \in Definitions}

BeginDrift(t) ==
    /\ \E report \in Reports, unconfirmed \in SUBSET (1 .. 2) :
        Enter(t, "drift", {Queue},
              [op |-> "drift", left |-> {<<i, report[i]>> : i \in DOMAIN report \ unconfirmed},
               docs |-> {}])
    /\ UNCHANGED <<storeVars, queueVars>>

CompareReport(t) ==
    /\ Goto(t, "drift", "queueReport")
    /\ call' = [call EXCEPT ![t].docs = {d \in call[t].left : ~Exists(d[2])}]
    /\ UNCHANGED <<storeVars, queueVars>>

QueueReport(t) ==
    /\ pc[t] = "queueReport"
    /\ LET docs == call[t].docs
           Repeated(d) == Taken(d[2]) \/ \E e \in docs : e[1] < d[1] /\ e[2] = d[2]
           kept == {d \in docs : \A e \in docs : Repeated(e) => d[1] < e[1]}
       IN candidates' = candidates \cup {Pending(d[2]) : d \in kept}
    /\ Leave(t)
    /\ UNCHANGED <<storeVars, born>>

(***************************************************************************)
(* Review.  To accept a pair makes its edge and then marks it.             *)
(***************************************************************************)
BeginReview(t) ==
    /\ \E c \in candidates, verdict \in {"accepted", "rejected"} :
        /\ c.status = "pending"
        /\ Enter(t, IF verdict = "accepted" THEN "checkEdge" ELSE "judge", {Triple(c)},
                 [op |-> "review", pair |-> PairOf(c), verdict |-> verdict])
    /\ UNCHANGED <<storeVars, queueVars>>

BeginEdge(t) ==
    /\ \E n, m \in {o \in Node : row[o] # "absent"}, r \in ByHand :
        /\ n # m
        /\ Enter(t, "checkEdge", {}, [op |-> "edge", pair |-> Pair(n, m, r)])
    /\ UNCHANGED <<storeVars, queueVars>>

Present(p) == \E e \in edges : Triple(e) = <<p.src, p.dst, p.rel>>
Missing(p) == "absent" \in {row[p.src], row[p.dst]}

\* Mutant: an edge that is there already will do.
CheckEnds(t) ==
    /\ pc[t] = "checkEdge"
    /\ LET p == call[t].pair
       IN IF Missing(p)
          THEN Leave(t)
          ELSE Goto(t, "checkEdge", IF Present(p) /\ call[t].op = "review" THEN "judge" ELSE "insertEdge")
               /\ UNCHANGED call
    /\ UNCHANGED <<storeVars, queueVars>>

CheckEdge(t) ==
    /\ pc[t] = "checkEdge"
    /\ LET p == call[t].pair
       IN IF Missing(p) \/ Present(p)
          THEN Leave(t)
          ELSE Goto(t, "checkEdge", "insertEdge") /\ UNCHANGED call
    /\ UNCHANGED <<storeVars, queueVars>>

Rebuilding == \E u \in Thread : call[u].op = "rebuild"

ReviewedEdge(p) ==
    [id |-> minted + 1, src |-> p.src, dst |-> p.dst, rel |-> p.rel, home |-> Ours(p.src),
     reviewed |-> TRUE, flagged |-> FALSE,
     late |-> Rebuilding \/ {"absent", "superseded"} \cap {row[p.src], row[p.dst]} # {}]

\* The unique index refuses an edge made meanwhile: that raises.
InsertEdge(t) ==
    /\ pc[t] = "insertEdge"
    /\ minted < MaxEdges
    /\ LET c == call[t]
       IN IF Present(c.pair)
          THEN Leave(t) /\ UNCHANGED <<edges, minted, born>>
          ELSE /\ edges' = edges \cup {ReviewedEdge(c.pair)}
               /\ minted' = minted + 1
               /\ IF c.op = "review"
                  THEN born' = born \cup {c.pair} /\ Goto(t, "insertEdge", "judge") /\ UNCHANGED call
                  ELSE UNCHANGED born /\ Leave(t)
    /\ UNCHANGED <<document, tree, layout, row, made, shown, candidates>>

\* Mutant: an accepted pair leaves the queue.
JudgeAndForget(t) ==
    /\ pc[t] = "judge"
    /\ LET c == call[t]
       IN candidates' = {[d EXCEPT !.status = IF PairOf(d) = c.pair THEN c.verdict ELSE @] :
                            d \in {d \in candidates : PairOf(d) # c.pair \/ c.verdict = "rejected"}}
    /\ Leave(t)
    /\ UNCHANGED <<storeVars, born>>

Judge(t) ==
    /\ pc[t] = "judge"
    /\ LET c == call[t]
       IN candidates' = {IF PairOf(d) = c.pair THEN [d EXCEPT !.status = c.verdict] ELSE d :
                            d \in candidates}
    /\ Leave(t)
    /\ UNCHANGED <<storeVars, born>>

CandidateNext ==
    \E t \in Thread :
        \/ BeginSweep(t) \/ LookAround(t) \/ Foresee(t) \/ QueuePairs(t) \/ EndSweep(t)
        \/ BeginDrift(t) \/ CompareReport(t) \/ QueueReport(t)
        \/ BeginReview(t) \/ BeginEdge(t) \/ CheckEdge(t) \/ InsertEdge(t) \/ Judge(t)

Next == (TreeNext /\ UNCHANGED queueVars) \/ CandidateNext

Init == TreesInit /\ candidates = {} /\ born = {}

Spec == Init /\ [][Next]_vars

(***************************************************************************)
(* Correctness.                                                            *)
(***************************************************************************)
TypeOK ==
    /\ TreesTypeOK
    /\ candidates \subseteq [src : Node, dst : Node, rel : Relation,
                             status : {"pending", "accepted", "rejected"}]
    /\ born \subseteq {PairOf(c) : c \in candidates}

\* A rejected pair has made no edge and an accepted one has, whatever was
\* refused or rebuilt meanwhile, unless two operators judged it at once or one died.
VerdictsHaveEffect ==
    \A c \in candidates : Triple(c) \notin torn =>
        /\ c.status = "accepted" => PairOf(c) \in born
        /\ c.status = "rejected" => PairOf(c) \notin born

================================================================================

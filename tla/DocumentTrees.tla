----------------------------- MODULE DocumentTrees -----------------------------
(***************************************************************************)
(* The versions of a document.  A full rebuild (db/repositories.py         *)
(* rebuild_document) supersedes every tree of the document, inserts a new  *)
(* one and moves the edges that a human has reviewed onto it; when a write *)
(* fails it puts back what it read at its start.  A tree that a model has  *)
(* proposed waits for an operator to promote or reject it.  Requests run   *)
(* in threads of their own and nothing is a transaction: each write to a   *)
(* collection is an action, and a process may die between any two.         *)
(***************************************************************************)
EXTENDS Naturals, Sequences, FiniteSets

CONSTANTS
    Thread,      \* requests and commands that run at once
    Content,     \* what a node holds, up to its content hash and structural label
    Layouts,     \* trees a source may be parsed into: sequences of contents
    Hinted,      \* those whose first node has a relation hint to its second
    Far,         \* the content of the only node of another document
    Statuses,    \* tree_status of a parse: active, or pending_review of a model's
    Relation,    \* relation types
    HintType,    \* the relation type of a hint
    MaxTrees,    \* bound on the trees of the document
    MaxEdges,    \* bound on the edges ever inserted
    Budgets      \* how many requests of each kind are looked at together, how many at
                 \* once, and how many writes fail and processes die

Width == 2
Tree == 0 .. MaxTrees        \* 0: the tree of the other document
Version == 1 .. MaxTrees     \* the trees of the document, in the order of their parses
Node == Tree \X (1 .. Width)
TreeStatus == {"absent", "active", "pending_review", "rejected", "superseded"}

ASSUME TreesAssumption ==
    /\ Layouts \subseteq [1 .. 1 -> Content] \cup [1 .. Width -> Content]
    /\ Hinted \subseteq Layouts \cap [1 .. Width -> Content]
    /\ Far \in Content
    /\ Statuses \subseteq {"active", "pending_review"}
    /\ HintType \in Relation
    /\ MaxTrees \in Nat \ {0} /\ MaxEdges \in Nat
    /\ Budgets \subseteq [{"rebuild", "treeReview", "edge", "sweep", "drift", "review", "atOnce",
                           "failure", "crash"} -> Nat]

VARIABLES
    budget,    \* requests, failures and crashes that are still to come
    document,  \* the parse that title, summary and source are from
    tree,      \* status of each tree
    layout,    \* what each tree was parsed into
    row,       \* status of each node
    edges,     \* the graph edges
    made, minted,  \* trees and edges so far
    pc, call,  \* each thread's next step, and its locals
    touch,     \* what each thread's request reads and writes
    torn,      \* history: what two requests at once have touched, or one that died, and
               \* Edges when a rebuild that failed could not put one back
    shown      \* history: trees that have been active

storeVars == <<document, tree, layout, row, edges, made, minted, shown>>
threadVars == <<budget, pc, call, touch, torn>>
treeVars == <<storeVars, threadVars>>

NoCall == [op |-> "none"]
Live == {"active", "pending_review"}

\* A node that embedding or label queries still find: see is_superseded_node.
Findable(n) == row[n] \notin {"absent", "superseded"}
ContentOf(n) == layout[n[1]][n[2]]
Rows(i) == {<<i, k>> : k \in 1 .. Len(layout[i])}
Ours(n) == n[1] # 0

(***************************************************************************)
(* Requests, and what they may disturb each other at: the document, the    *)
(* queue of candidates, or one candidate.                                  *)
(***************************************************************************)
Document == <<"document">>
Queue == <<"queue">>
Edges == <<"edges">>

Busy == {t \in Thread : pc[t] # "idle"}

Enter(t, step, resources, locals) ==
    /\ t \notin Busy
    /\ budget[locals.op] > 0 /\ Cardinality(Busy) < budget.atOnce
    /\ budget' = [budget EXCEPT ![locals.op] = @ - 1]
    /\ pc' = [pc EXCEPT ![t] = step]
    /\ call' = [call EXCEPT ![t] = locals]
    /\ touch' = [touch EXCEPT ![t] = resources]
    /\ torn' = torn \cup (resources \cap UNION {touch[u] : u \in Thread})

Goto(t, from, to) ==
    /\ pc[t] = from
    /\ pc' = [pc EXCEPT ![t] = to]
    /\ UNCHANGED <<budget, touch, torn>>

Leave(t) ==
    /\ pc' = [pc EXCEPT ![t] = "idle"]
    /\ call' = [call EXCEPT ![t] = NoCall]
    /\ touch' = [touch EXCEPT ![t] = {}]
    /\ UNCHANGED <<budget, torn>>

Crash(t) ==
    /\ pc[t] # "idle"
    /\ budget.crash > 0
    /\ budget' = [budget EXCEPT !.crash = @ - 1]
    /\ pc' = [pc EXCEPT ![t] = "idle"]
    /\ call' = [call EXCEPT ![t] = NoCall]
    /\ touch' = [touch EXCEPT ![t] = {}]
    /\ torn' = torn \cup touch[t]
    /\ UNCHANGED storeVars

TreesInit ==
    /\ budget \in Budgets
    /\ \E l \in Layouts, s \in Statuses :
        /\ tree = [i \in Tree |-> IF i = 0 THEN "active" ELSE IF i = 1 THEN s ELSE "absent"]
        /\ layout = [i \in Tree |-> IF i = 0 THEN <<Far>> ELSE IF i = 1 THEN l ELSE <<>>]
        /\ row = [n \in Node |-> IF n = <<0, 1>> THEN "active"
                                 ELSE IF n[1] = 1 /\ n[2] <= Len(l) THEN s ELSE "absent"]
        /\ shown = IF s = "active" THEN {0, 1} ELSE {0}
    /\ document = 1 /\ made = 1
    /\ edges = {} /\ minted = 0
    /\ pc = [t \in Thread |-> "idle"]
    /\ call = [t \in Thread |-> NoCall]
    /\ touch = [t \in Thread |-> {}]
    /\ torn = {}

(***************************************************************************)
(* Graph edges.  An edge keeps its identifier when it moves; at most one   *)
(* has a given source, target and relation type.                           *)
(***************************************************************************)
Triple(e) == <<e.src, e.dst, e.rel>>
Clashes(e, others) == \E f \in others : f.id # e.id /\ Triple(f) = Triple(e)
Ids(es) == {e.id : e \in es}

(***************************************************************************)
(* A full rebuild.                                                         *)
(***************************************************************************)
\* A request with its parse, which has read nothing yet.
Rebuild(new, l, s) ==
    [op |-> "rebuild", new |-> new, layout |-> l, status |-> s, key |-> 1, document |-> new,
     tree |-> [i \in Tree |-> "absent"], row |-> [n \in Node |-> "absent"],
     edges |-> {}, reviewed |-> {}, map |-> {}, left |-> {}]

BeginRebuild(t) ==
    /\ made < MaxTrees
    /\ \E l \in Layouts, s \in Statuses :
        Enter(t, "readRows", {Document, Queue}, Rebuild(made + 1, l, s))
    /\ made' = made + 1
    /\ UNCHANGED <<document, tree, layout, row, edges, minted, shown>>

ReadRows(t) ==
    /\ Goto(t, "readRows", "readEdges")
    /\ call' = [call EXCEPT ![t] = [@ EXCEPT !.document = document, !.tree = tree, !.row = row]]
    /\ UNCHANGED storeVars

OldNodes(c) == {n \in Node : Ours(n) /\ c.row[n] = "active"}
ReviewedTouching(nodes) == {e \in edges : e.reviewed /\ {e.src, e.dst} \cap nodes # {}}

ReadEdges(t) ==
    /\ Goto(t, "readEdges", "supersedeTrees")
    /\ call' = [call EXCEPT ![t] = [@ EXCEPT !.edges = {e \in edges : e.home},
                                            !.reviewed = ReviewedTouching(OldNodes(call[t]))]]
    /\ UNCHANGED storeVars

Superseded(s) == IF s = "absent" THEN s ELSE "superseded"

SupersedeTrees(t) ==
    /\ Goto(t, "supersedeTrees", "supersedeNodes")
    /\ tree' = [i \in Tree |-> IF i = 0 THEN tree[i] ELSE Superseded(tree[i])]
    /\ UNCHANGED <<document, layout, row, edges, made, minted, shown, call>>

SupersedeNodes(t) ==
    /\ Goto(t, "supersedeNodes", "writeDocument")
    /\ row' = [n \in Node |-> IF Ours(n) THEN Superseded(row[n]) ELSE row[n]]
    /\ UNCHANGED <<document, tree, layout, edges, made, minted, shown, call>>

WriteDocument(t) ==
    /\ Goto(t, "writeDocument", "insertTree")
    /\ document' = call[t].new
    /\ UNCHANGED <<tree, layout, row, edges, made, minted, shown, call>>

InsertTree(t) ==
    /\ Goto(t, "insertTree", "insertNodes")
    /\ LET c == call[t]
       IN /\ tree' = [tree EXCEPT ![c.new] = c.status]
          /\ layout' = [layout EXCEPT ![c.new] = c.layout]
          /\ shown' = IF c.status = "active" THEN shown \cup {c.new} ELSE shown
    /\ UNCHANGED <<document, row, edges, made, minted, call>>

\* Node by node, each with the status that the parse came with.
InsertNode(t) ==
    /\ LET c == call[t]
       IN /\ Goto(t, "insertNodes", IF c.key = Len(c.layout) THEN "insertHints" ELSE "insertNodes")
          /\ row' = [row EXCEPT ![<<c.new, c.key>>] = c.status]
          /\ call' = [call EXCEPT ![t].key = @ + 1]
    /\ UNCHANGED <<document, tree, layout, edges, made, minted, shown>>

Hints(c) ==
    IF c.layout \in Hinted
    THEN {[id |-> minted + 1, src |-> <<c.new, 1>>, dst |-> <<c.new, 2>>, rel |-> HintType,
           home |-> TRUE, reviewed |-> FALSE, flagged |-> FALSE, late |-> FALSE]}
    ELSE {}

\* The unique index refuses a hint at which an operator has made an edge meanwhile.
InsertHints(t) ==
    /\ pc[t] = "insertHints"
    /\ LET hints == Hints(call[t])
       IN IF \E h \in hints : Clashes(h, edges)
          THEN Goto(t, "insertHints", "restoreDocument") /\ UNCHANGED <<edges, minted>>
          ELSE /\ Goto(t, "insertHints", "mapNodes")
               /\ minted + Cardinality(hints) <= MaxEdges
               /\ edges' = edges \cup hints
               /\ minted' = minted + Cardinality(hints)
    /\ UNCHANGED <<document, tree, layout, row, made, shown, call>>

\* The old nodes whose content exactly one old and one new node have.
Counterparts(c) ==
    LET new == {n \in Rows(c.new) : row[n] # "absent"}
        Same(n, nodes) == {m \in nodes : ContentOf(m) = ContentOf(n)}
    IN {p \in OldNodes(c) \X new :
          Same(p[1], OldNodes(c)) = {p[1]} /\ Same(p[1], new) = {p[2]}}

MapNodes(t) ==
    /\ pc[t] = "mapNodes"
    /\ IF call[t].reviewed = {}
       THEN Leave(t)
       ELSE /\ Goto(t, "mapNodes", "carryEdges")
            /\ call' = [call EXCEPT ![t] = [@ EXCEPT !.map = Counterparts(call[t]),
                                                    !.left = call[t].reviewed]]
    /\ UNCHANGED storeVars

\* Mutant: an end without a counterpart is not looked for.
LostNever(c, n) == FALSE

Lost(c, n) == n \in OldNodes(c) /\ \A p \in c.map : p[1] # n

Moved(c, n) == IF \E p \in c.map : p[1] = n THEN (CHOOSE p \in c.map : p[1] = n)[2] ELSE n

\* The edge goes to the counterparts of both its ends, as they were read; an end
\* that has none, or an edge that is there already, leaves it flagged.
Carried(c, old, e) ==
    LET moved == [e EXCEPT !.src = IF old.src \in OldNodes(c) THEN Moved(c, old.src) ELSE @,
                           !.dst = IF old.dst \in OldNodes(c) THEN Moved(c, old.dst) ELSE @]
    IN IF Lost(c, old.src) \/ Lost(c, old.dst) \/ Clashes(moved, edges)
       THEN [e EXCEPT !.flagged = TRUE] ELSE moved

CarryEdge(t) ==
    /\ pc[t] = "carryEdges"
    /\ LET c == call[t]
       IN \E old \in c.left :
            /\ \A other \in c.left : old.id <= other.id
            /\ edges' = {IF e.id = old.id THEN Carried(c, old, e) ELSE e : e \in edges}
            /\ IF c.left = {old}
               THEN Leave(t)
               ELSE /\ Goto(t, "carryEdges", "carryEdges")
                    /\ call' = [call EXCEPT ![t].left = @ \ {old}]
    /\ UNCHANGED <<document, tree, layout, row, made, minted, shown>>

(***************************************************************************)
(* The way back: what was added is deleted, what was read is put back.     *)
(***************************************************************************)
Trying == {"supersedeTrees", "supersedeNodes", "writeDocument", "insertTree", "insertNodes",
           "insertHints", "mapNodes", "carryEdges"}

Fail(t) ==
    /\ pc[t] \in Trying /\ budget.failure > 0
    /\ budget' = [budget EXCEPT !.failure = @ - 1]
    /\ pc' = [pc EXCEPT ![t] = "restoreDocument"]
    /\ UNCHANGED <<storeVars, call, touch, torn>>

RestoreDocument(t) ==
    /\ Goto(t, "restoreDocument", "restoreTrees")
    /\ document' = call[t].document
    /\ UNCHANGED <<tree, layout, row, edges, made, minted, shown, call>>

RestoreTrees(t) ==
    /\ Goto(t, "restoreTrees", "restoreNodes")
    /\ tree' = [i \in Tree |-> IF i = 0 THEN tree[i] ELSE call[t].tree[i]]
    /\ UNCHANGED <<document, layout, row, edges, made, minted, shown, call>>

\* Mutant: nodes that the rebuild has added stay.
RestoreOldNodes(t) ==
    /\ Goto(t, "restoreNodes", "restoreEdges")
    /\ row' = [n \in Node |-> IF Ours(n) /\ call[t].row[n] # "absent" THEN call[t].row[n] ELSE row[n]]
    /\ UNCHANGED <<document, tree, layout, edges, made, minted, shown, call>>

RestoreNodes(t) ==
    /\ Goto(t, "restoreNodes", "restoreEdges")
    /\ row' = [n \in Node |-> IF Ours(n) THEN call[t].row[n] ELSE row[n]]
    /\ UNCHANGED <<document, tree, layout, edges, made, minted, shown, call>>

\* Row by row in the order of their identifiers, until one has the triple of an edge
\* that is not put back before it: that raises.
Refused(r, rows, kept) ==
    \E f \in kept : f.id # r.id /\ Triple(f) = Triple(r) /\ (f.id \in Ids(rows) => r.id < f.id)
Returned(rows, kept) == {r \in rows : \A s \in rows : s.id <= r.id => ~Refused(s, rows, kept)}

\* Mutant: edges that are still there are left as the rebuild has moved them.
PutBackMissing(rows, kept) == kept \cup {e \in rows : e.id \notin Ids(kept)}

PutBack(rows, kept) ==
    {e \in kept : e.id \notin Ids(Returned(rows, kept))} \cup Returned(rows, kept)

LeaveRestored(t, whole) ==
    /\ pc' = [pc EXCEPT ![t] = "idle"]
    /\ call' = [call EXCEPT ![t] = NoCall]
    /\ touch' = [touch EXCEPT ![t] = {}]
    /\ torn' = IF whole THEN torn ELSE torn \cup {Edges}
    /\ UNCHANGED budget

RestoreEdges(t) ==
    /\ pc[t] = "restoreEdges"
    /\ LET read == call[t].edges
           kept == {e \in edges : e.home => e.id \in Ids(read)}
       IN /\ edges' = PutBack(read, kept)
          /\ IF Returned(read, kept) = read
             THEN Goto(t, "restoreEdges", "restoreReviewed") /\ UNCHANGED call
             ELSE LeaveRestored(t, FALSE)
    /\ UNCHANGED <<document, tree, layout, row, made, minted, shown>>

RestoreReviewed(t) ==
    /\ pc[t] = "restoreReviewed"
    /\ LET read == call[t].reviewed
       IN /\ edges' = PutBack(read, edges)
          /\ LeaveRestored(t, Returned(read, edges) = read)
    /\ UNCHANGED <<document, tree, layout, row, made, minted, shown>>

RebuildStep(t) ==
    \/ ReadRows(t) \/ ReadEdges(t)
    \/ SupersedeTrees(t) \/ SupersedeNodes(t) \/ WriteDocument(t)
    \/ InsertTree(t) \/ InsertNode(t) \/ InsertHints(t)
    \/ MapNodes(t) \/ CarryEdge(t)
    \/ Fail(t)
    \/ RestoreDocument(t) \/ RestoreTrees(t) \/ RestoreNodes(t)
    \/ RestoreEdges(t) \/ RestoreReviewed(t)

(***************************************************************************)
(* Promotion and rejection of a proposed tree: the tree, then its nodes.   *)
(***************************************************************************)
FindTree(t) ==
    /\ \E i \in Version, verdict \in {"active", "rejected"} :
        /\ tree[i] = "pending_review"
        /\ Enter(t, "reviewTree", {Document, Queue},
                 [op |-> "treeReview", tree |-> i, verdict |-> verdict])
    /\ UNCHANGED storeVars

ReviewTree(t) ==
    /\ Goto(t, "reviewTree", "reviewNodes")
    /\ LET c == call[t]
       IN /\ tree' = [tree EXCEPT ![c.tree] = IF @ = "absent" THEN @ ELSE c.verdict]
          /\ shown' = IF c.verdict = "active" THEN shown \cup {c.tree} ELSE shown
    /\ UNCHANGED <<document, layout, row, edges, made, minted, call>>

ReviewNodes(t) ==
    /\ pc[t] = "reviewNodes"
    /\ LET c == call[t]
       IN row' = [n \in Node |-> IF n[1] = c.tree /\ row[n] # "absent" THEN c.verdict ELSE row[n]]
    /\ Leave(t)
    /\ UNCHANGED <<document, tree, layout, edges, made, minted, shown>>

TreeNext ==
    \E t \in Thread :
        \/ BeginRebuild(t) \/ RebuildStep(t)
        \/ FindTree(t) \/ ReviewTree(t) \/ ReviewNodes(t)
        \/ Crash(t)

(***************************************************************************)
(* Correctness.                                                            *)
(***************************************************************************)
TreesTypeOK ==
    /\ budget \in [DOMAIN budget -> Nat]
    /\ document \in Version
    /\ tree \in [Tree -> TreeStatus]
    /\ layout \in [Tree -> Layouts \cup {<<>>, <<Far>>}]
    /\ row \in [Node -> TreeStatus]
    /\ \A e \in edges : e.id \in 1 .. minted /\ {e.src, e.dst} \subseteq Node /\ e.rel \in Relation
    /\ made \in Version /\ minted \in 0 .. MaxEdges
    /\ \A t \in Thread : pc[t] = "idle" <=> call[t] = NoCall
    /\ shown \subseteq Tree

\* No request is at the document, none was at the same time as another, none died.
AtRest ==
    /\ \A t \in Thread : Document \notin touch[t]
    /\ Document \notin torn

\* At rest the document has one version that is not superseded, its record is of
\* that version, and every tree has all of its nodes, in the status of the tree:
\* rebuilds, rebuilds that fail and are taken back, and reviews leave nothing half done.
TreesAreWhole ==
    AtRest =>
        /\ Cardinality({i \in Version : tree[i] \notin {"absent", "superseded"}}) = 1
        /\ tree[document] # "superseded"
        /\ \A n \in Node : row[n] = IF n \in Rows(n[1]) THEN tree[n[1]] ELSE "absent"

\* An edge that a human has reviewed, on nodes that were active, is on active nodes or
\* flagged for another review, whatever rebuilds the document has been through.
\* Excepted are edges made while a rebuild was running or on nodes superseded before,
\* ends in a version that was superseded or rejected before it was ever active, and
\* what a rebuild that failed could not put back.
EdgesFollow ==
    AtRest /\ Edges \notin torn =>
        \A e \in edges : e.reviewed /\ ~e.flagged /\ ~e.late =>
            \A n \in {e.src, e.dst} : row[n] = "active" \/ n[1] \notin shown

\* A rebuild that fails leaves the document, its trees and nodes, and every edge it
\* read, as it found them, whatever is done to edges and candidates meanwhile.
FailedRebuildLeavesNoTrace ==
    [][\A t \in Thread :
        pc[t] = "restoreReviewed" /\ pc'[t] = "idle" /\ {Document, Edges} \cap torn' = {} =>
            LET c == call[t]
            IN /\ document = c.document /\ tree = c.tree /\ row = c.row
               /\ \A e \in c.edges \cup c.reviewed : e \in edges']_treeVars

================================================================================

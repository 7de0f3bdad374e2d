------------------------- MODULE SemanticCandidatesProofs -------------------------
(***************************************************************************)
(* Theorems about SemanticCandidates, and with it about DocumentTrees, for *)
(* any contents, layouts, threads, bounds and budgets: the types, the      *)
(* effect of verdicts, that trees are whole and reviewed edges on active   *)
(* nodes when a document is at rest, and that a failed rebuild leaves no   *)
(* trace.                                                                  *)
(*                                                                         *)
(* None of the four invariants is inductive: each speaks of a document     *)
(* that nobody is at, or of a pair that is not torn, and has to be carried *)
(* through the steps of whoever is.  Types to Endings say, for every next  *)
(* step of a request, what its locals have to do with the store.  They     *)
(* rest on each other: Touches gives the document to one request at a      *)
(* time, Layered that no row or end is where nothing was parsed, Versions  *)
(* that a rebuild has read all there is and what it has written so far,    *)
(* and Endings which edges are still to be carried.                        *)
(***************************************************************************)
EXTENDS SemanticCandidates, FiniteSetTheorems, SequenceTheorems, WellFoundedInduction, TLAPS

DocumentOps == {"rebuild", "treeReview"}
Restoring == {"restoreDocument", "restoreTrees", "restoreNodes", "restoreEdges",
              "restoreReviewed"}

(* The inductive invariant, part by part *)

\* The rows, and the locals of each kind of request.
EdgeRow ==
    [id : 1 .. MaxEdges, src : Node, dst : Node, rel : Relation,
     home : BOOLEAN, reviewed : BOOLEAN, flagged : BOOLEAN, late : BOOLEAN]

PairRow == [src : Node, dst : Node, rel : Relation]
CandidateRow == [src : Node, dst : Node, rel : Relation, status : {"pending", "accepted", "rejected"}]

RebuildCall ==
    [op : {"rebuild"}, new : Version, layout : Layouts, status : Statuses, key : 1 .. Width + 1,
     document : Version, tree : [Tree -> TreeStatus], row : [Node -> TreeStatus],
     edges : SUBSET EdgeRow, reviewed : SUBSET EdgeRow,
     map : SUBSET (Node \X Node), left : SUBSET EdgeRow]

TreeReviewCall == [op : {"treeReview"}, tree : Version, verdict : {"active", "rejected"}]

SweepCall(c) ==
    c \in [op : {"sweep"}, kind : Kinds, within : {c.within}, dry : {c.dry}, left : SUBSET Node,
           keys : {c.keys}, docs : SUBSET PairRow, count : {c.count}, deaf : {c.deaf}]

DriftCall == [op : {"drift"}, left : SUBSET (Nat \X PairRow), docs : SUBSET (Nat \X PairRow)]
ReviewCall == [op : {"review"}, pair : PairRow, verdict : {"accepted", "rejected"}]
EdgeCall == [op : {"edge"}, pair : PairRow]

RebuildSteps == {"readRows", "readEdges"} \cup Trying \cup Restoring

\* A rebuild that inserts a node has one left to insert.
Counted(p, c) ==
    /\ p \in {"readRows", "readEdges", "supersedeTrees", "supersedeNodes", "writeDocument",
              "insertTree"} => c.key = 1
    /\ p = "insertNodes" => c.key <= Len(c.layout)

CallTypes(p, c) ==
    \/ p = "idle" /\ c = NoCall
    \/ p \in RebuildSteps /\ c \in RebuildCall /\ Counted(p, c)
    \/ p \in {"reviewTree", "reviewNodes"} /\ c \in TreeReviewCall
    \/ p \in {"sweep", "queue"} /\ SweepCall(c)
    \/ p \in {"drift", "queueReport"} /\ c \in DriftCall
    \/ p \in {"checkEdge", "insertEdge", "judge"} /\ c \in ReviewCall
    \/ p \in {"checkEdge", "insertEdge"} /\ c \in EdgeCall

Types ==
    /\ budget \in [{"rebuild", "treeReview", "edge", "sweep", "drift", "review", "atOnce",
                    "failure", "crash"} -> Nat]
    /\ document \in Version
    /\ tree \in [Tree -> TreeStatus]
    /\ layout \in [Tree -> Layouts \cup {<<>>, <<Far>>}]
    /\ row \in [Node -> TreeStatus]
    /\ edges \subseteq EdgeRow
    /\ made \in Version /\ minted \in 0 .. MaxEdges
    /\ shown \subseteq Tree
    /\ DOMAIN pc = Thread /\ DOMAIN call = Thread /\ DOMAIN touch = Thread
    /\ \A t \in Thread : CallTypes(pc[t], call[t])
    /\ candidates \subseteq CandidateRow

\* The pairs of the queue.
Reviewed == {PairOf(c) : c \in candidates}

\* Edges are made of pairs in the queue, which has each once.
Queued ==
    /\ born \subseteq Reviewed
    /\ \A t \in Thread : call[t].op = "review" => call[t].pair \in Reviewed
    /\ \A c, d \in candidates : PairOf(c) = PairOf(d) => c = d

\* Who is at a document, or judges a pair, touches it; what two touch is torn.
Touches ==
    /\ \A t \in Thread :
        /\ call[t].op \in DocumentOps => Document \in touch[t]
        /\ call[t].op \notin DocumentOps => Document \notin touch[t]
        /\ call[t].op = "review" => Triple(call[t].pair) \in touch[t]
    /\ \A t, u \in Thread : t # u => touch[t] \cap touch[u] \subseteq torn

\* A review that has made the edge of its pair and has yet to mark it.
Accepts(s, c, p) == s = "judge" /\ c.op = "review" /\ c.pair = p /\ c.verdict = "accepted"

\* A pending pair is one of which no edge was made, but for the review that is about
\* to mark it.
Judged ==
    /\ \A c \in candidates : Triple(c) \notin torn =>
        /\ c.status = "accepted" => PairOf(c) \in born
        /\ c.status = "rejected" => PairOf(c) \notin born
        /\ c.status = "pending" /\ PairOf(c) \in born => \E t \in Thread : Accepts(pc[t], call[t], PairOf(c))
    /\ \A t \in Thread : call[t].op = "review" =>
        /\ call[t].verdict = "rejected" => pc[t] = "judge"
        /\ Triple(call[t].pair) \notin torn =>
             /\ call[t].pair \in born <=> Accepts(pc[t], call[t], call[t].pair)
             /\ \A c \in candidates : PairOf(c) = call[t].pair => c.status = "pending"

\* Nodes that a parse has put there.
Laid(n) == n[2] <= Len(layout[n[1]])
EndsLaid(es) == \A e \in es : Laid(e.src) /\ Laid(e.dst)

\* A rebuild has a number to itself, at which nothing is until it inserts the tree.
RebuildLaid(p, c) ==
    /\ c.new <= made
    /\ p \in {"readRows", "readEdges", "supersedeTrees", "supersedeNodes", "writeDocument",
              "insertTree"} => layout[c.new] = <<>>
    /\ p \in {"insertNodes", "insertHints", "mapNodes", "carryEdges"} => layout[c.new] = c.layout
    /\ \A i \in Tree : c.tree[i] # "absent" => layout[i] # <<>>
    /\ \A n \in Node : c.row[n] # "absent" => Laid(n)
    /\ EndsLaid(c.edges) /\ EndsLaid(c.reviewed)
    /\ c.left \subseteq c.reviewed
    /\ p \in {"readRows", "readEdges"} => c.left = {}
    /\ p = "carryEdges" => \A q \in c.map : q[2][1] = c.new /\ Laid(q[2])

\* Statuses, ends and what a rebuild has read are of nodes that there are.
Layered ==
    /\ layout[0] = <<Far>> /\ tree[0] = "active"
    /\ \A n \in Node : n[1] = 0 => row[n] = IF n[2] = 1 THEN "active" ELSE "absent"
    /\ \A i \in Version : i > made => layout[i] = <<>>
    /\ \A i \in Tree : tree[i] # "absent" \/ i \in shown => layout[i] # <<>>
    /\ \A n \in Node : row[n] # "absent" => Laid(n)
    /\ EndsLaid(edges)
    /\ \A t \in Thread : call[t].op = "rebuild" => RebuildLaid(pc[t], call[t])
    /\ \A t \in Thread : call[t].op = "treeReview" => layout[call[t].tree] # <<>>
    /\ \A t \in Thread : pc[t] = "insertEdge" => Laid(call[t].pair.src) /\ Laid(call[t].pair.dst)
    /\ \A t, u \in Thread :
        t # u /\ call[t].op = "rebuild" /\ call[u].op = "rebuild" => call[t].new # call[u].new

\* One edge of an identifier, also of what a rebuild has read.
Apiece(es) == \A e, f \in es : e.id = f.id => e = f

Identified ==
    /\ Apiece(edges)
    /\ \A e \in edges : e.id <= minted
    /\ \A t \in Thread : call[t].op = "rebuild" =>
        /\ Apiece(call[t].edges \cup call[t].reviewed)
        /\ \A e \in call[t].edges \cup call[t].reviewed : e.id <= minted

\* With these statuses the document is whole, and of the version d.
Whole(d, tr, rw) ==
    /\ \A i \in Version : tr[i] \in {"absent", "superseded"} <=> i # d
    /\ \A n \in Node : rw[n] = IF Laid(n) THEN tr[n[1]] ELSE "absent"

\* A tree that waits for an operator, or was rejected, has never been active.
Hidden(tr) == \A i \in Version : tr[i] \in {"pending_review", "rejected"} => i \notin shown

\* What a rebuild makes of the statuses that it has read.
Retired(tr) == [i \in Tree |-> IF i = 0 THEN tr[i] ELSE Superseded(tr[i])]
RetiredRows(rw) == [n \in Node |-> IF Ours(n) THEN Superseded(rw[n]) ELSE rw[n]]

\* A rebuild has read a whole document.
Snapshot(c) ==
    /\ Whole(c.document, c.tree, c.row)
    /\ Hidden(c.tree)
    /\ c.tree[0] = "active" /\ c.tree[c.new] = "absent"

\* What the store is, at each step of a rebuild, in terms of what it has read.
RebuildPhase(p, c) ==
    /\ p # "readRows" => Snapshot(c)
    /\ p = "readRows" => Whole(document, tree, row)
    /\ p \in {"readEdges", "supersedeTrees"} =>
           document = c.document /\ tree = c.tree /\ row = c.row
    /\ p = "supersedeNodes" => document = c.document /\ tree = Retired(c.tree) /\ row = c.row
    /\ p \in {"writeDocument", "insertTree"} => tree = Retired(c.tree) /\ row = RetiredRows(c.row)
    /\ p = "insertTree" => document = c.new
    /\ p = "insertNodes" =>
           /\ document = c.new
           /\ tree = [Retired(c.tree) EXCEPT ![c.new] = c.status]
           /\ row = [n \in Node |-> IF n[1] = c.new /\ n[2] < c.key
                                    THEN c.status ELSE RetiredRows(c.row)[n]]
    /\ p \in {"insertHints", "mapNodes", "carryEdges"} =>
           document = c.new /\ tree[c.new] = c.status /\ Whole(document, tree, row)
    /\ p \in Restoring \ {"restoreDocument"} => document = c.document
    /\ p \in {"restoreNodes", "restoreEdges", "restoreReviewed"} => tree = c.tree
    /\ p \in {"restoreEdges", "restoreReviewed"} => row = c.row
    /\ p = "restoreReviewed" => c.edges \subseteq edges

\* The same of a review of a tree: its nodes are as before until it writes them.
ReviewPhase(p, c) ==
    /\ p = "reviewTree" => Whole(document, tree, row) /\ tree[c.tree] = "pending_review"
    /\ p = "reviewNodes" =>
           /\ Whole(document, [tree EXCEPT ![c.tree] = "pending_review"], row)
           /\ tree[c.tree] = c.verdict

\* The document is whole, or as far from it as the one request at it has come.
Versions ==
    Document \notin torn =>
        /\ Hidden(tree)
        /\ (\A t \in Thread : call[t].op \notin DocumentOps) => Whole(document, tree, row)
        /\ \A t \in Thread : call[t].op = "rebuild" => RebuildPhase(pc[t], call[t])
        /\ \A t \in Thread : call[t].op = "treeReview" => ReviewPhase(pc[t], call[t])

\* The edges that EdgesFollow is about, and the nodes that it allows their ends.
Standing(e) == e.reviewed /\ ~e.flagged /\ ~e.late
Ends(e) == {e.src, e.dst}
Ended(n) == row[n] = "active" \/ n[1] \notin shown
\* Nodes that no rebuild supersedes, or never shown.
Apart(n) == n[1] = 0 \/ n[1] \notin shown

AllEnded == \A e \in edges : Standing(e) => \A n \in Ends(e) : Ended(n)

\* What a rebuild has read of the edges: those on active nodes are among the reviewed.
ReadEnds(c) ==
    /\ \A e \in c.edges \cup c.reviewed : Standing(e) => \A n \in Ends(e) : n \in OldNodes(c) \/ Apart(n)
    /\ \A e \in c.edges : e.reviewed /\ Ends(e) \cap OldNodes(c) # {} => e \in c.reviewed

\* The edges that it has not read as reviewed stand apart from the document.
KeptApart(c) ==
    \A e \in edges : Standing(e) /\ e.id \notin Ids(c.reviewed) => \A n \in Ends(e) : Apart(n)

Arrived(c, n) == Apart(n) \/ (n[1] = c.new /\ row[n] = "active")

\* An edge that stands is still to be carried, or is on active nodes of the new tree.
OnTheWay(left, c) ==
    \A e \in edges : Standing(e) => e \in left \/ \A n \in Ends(e) : Arrived(c, n)

ToCarry(p, c) == IF p = "carryEdges" THEN c.left ELSE c.reviewed

RebuildEdges(p, c) ==
    /\ p \in {"readRows", "readEdges"} => AllEnded
    /\ p \notin {"readRows", "readEdges"} => ReadEnds(c) /\ KeptApart(c)
    /\ p \in Trying => OnTheWay(ToCarry(p, c), c)

\* A promoted tree's nodes are about to be active.
ReviewEdges(p, c) ==
    \A e \in edges : Standing(e) =>
        \A n \in Ends(e) :
            Ended(n) \/ (p = "reviewNodes" /\ c.verdict = "active" /\ n[1] = c.tree)

\* The ends of reviewed edges are where EdgesFollow wants them, or somebody is about it.
Endings ==
    {Document, Edges} \cap torn = {} =>
        /\ (\A t \in Thread : call[t].op \notin DocumentOps) => AllEnded
        /\ \A t \in Thread : call[t].op = "rebuild" => RebuildEdges(pc[t], call[t])
        /\ \A t \in Thread : call[t].op = "treeReview" => ReviewEdges(pc[t], call[t])

\* What a rebuild may write into its locals leaves them locals of a rebuild.
LEMMA RebuildEdits ==
  ASSUME NEW c \in RebuildCall
  PROVE  /\ \A d \in Version, tr \in [Tree -> TreeStatus], rw \in [Node -> TreeStatus] :
                [c EXCEPT !.document = d, !.tree = tr, !.row = rw] \in RebuildCall
         /\ \A es, rs \in SUBSET EdgeRow : [c EXCEPT !.edges = es, !.reviewed = rs] \in RebuildCall
         /\ \A k \in 1 .. Width + 1 : [c EXCEPT !.key = k] \in RebuildCall
         /\ \A m \in SUBSET (Node \X Node), es \in SUBSET EdgeRow :
                [c EXCEPT !.map = m, !.left = es] \in RebuildCall
         /\ \A es \in SUBSET EdgeRow : [c EXCEPT !.left = es] \in RebuildCall
  BY DEF RebuildCall

\* The next step of a thread and the kind of its locals tell each other.
LEMMA CallKinds ==
  ASSUME NEW p, NEW c, CallTypes(p, c)
  PROVE  /\ p = "idle" <=> c = NoCall
         /\ p \in RebuildSteps <=> c.op = "rebuild"
         /\ c.op = "rebuild" => c \in RebuildCall /\ Counted(p, c)
         /\ p \in {"reviewTree", "reviewNodes"} <=> c.op = "treeReview"
         /\ c.op = "treeReview" => c \in TreeReviewCall
         /\ p \in {"sweep", "queue"} <=> c.op = "sweep"
         /\ c.op = "sweep" => SweepCall(c)
         /\ p \in {"drift", "queueReport"} <=> c.op = "drift"
         /\ c.op = "drift" => c \in DriftCall
         /\ p \in {"checkEdge", "insertEdge", "judge"} <=> c.op \in {"review", "edge"}
         /\ c.op = "review" => c \in ReviewCall
         /\ c.op = "edge" => c \in EdgeCall /\ p # "judge"
         /\ c.op \in {"none", "rebuild", "treeReview", "sweep", "drift", "review", "edge"}
         /\ c.op = "none" => p = "idle"
  BY DEF CallTypes, NoCall, RebuildCall, TreeReviewCall, SweepCall, DriftCall, ReviewCall, EdgeCall,
         RebuildSteps, Trying, Restoring

Alone(t) ==
    /\ DOMAIN pc' = Thread /\ DOMAIN call' = Thread /\ DOMAIN touch' = Thread
    /\ \A u \in Thread \ {t} : pc'[u] = pc[u] /\ call'[u] = call[u] /\ touch'[u] = touch[u]

CandidateStep(t) ==
    \/ BeginSweep(t) \/ LookAround(t) \/ Foresee(t) \/ QueuePairs(t) \/ EndSweep(t)
    \/ BeginDrift(t) \/ CompareReport(t) \/ QueueReport(t)
    \/ BeginReview(t) \/ BeginEdge(t) \/ CheckEdge(t) \/ InsertEdge(t) \/ Judge(t)

TreeStep(t) ==
    \/ BeginRebuild(t) \/ RebuildStep(t)
    \/ FindTree(t) \/ ReviewTree(t) \/ ReviewNodes(t)
    \/ Crash(t)

\* To begin, to leave and to go on change the locals of one thread only.
LEMMA EnterAlone ==
  ASSUME Types, NEW t \in Thread, NEW s, NEW r, NEW c, Enter(t, s, r, c)
  PROVE  Alone(t) /\ pc'[t] = s /\ call'[t] = c /\ touch'[t] = r
  BY DEF Types, Enter, Alone

LEMMA LeaveAlone ==
  ASSUME Types, NEW t \in Thread, Leave(t)
  PROVE  Alone(t) /\ pc'[t] = "idle" /\ call'[t] = NoCall /\ touch'[t] = {}
  BY DEF Types, Leave, Alone

LEMMA GotoAlone ==
  ASSUME Types, NEW t \in Thread, NEW p, NEW q, Goto(t, p, q)
  PROVE  /\ UNCHANGED call => Alone(t) /\ pc'[t] = q /\ call'[t] = call[t] /\ touch'[t] = touch[t]
         /\ \A c : call' = [call EXCEPT ![t] = c] =>
                Alone(t) /\ pc'[t] = q /\ call'[t] = c /\ touch'[t] = touch[t]
  BY DEF Types, Goto, Alone

\* A thread whose locals have their type leaves all locals typed when it moves alone.
LEMMA AloneTypes ==
  ASSUME Types, NEW t \in Thread, Alone(t), CallTypes(pc'[t], call'[t])
  PROVE  /\ DOMAIN pc' = Thread /\ DOMAIN call' = Thread /\ DOMAIN touch' = Thread
         /\ \A u \in Thread : CallTypes(pc'[u], call'[u])
  <1>1. \A u \in Thread : CallTypes(pc[u], call[u])
    BY DEF Types
  <1>2. QED
    BY <1>1 DEF Alone

\* Layouts are sequences of one or two contents.
LEMMA Lengths ==
  /\ \A l \in Layouts : DOMAIN l = 1 .. Len(l) /\ Len(l) \in 1 .. Width /\ l # <<>>
  /\ Len(<<Far>>) = 1 /\ <<Far>> # <<>> /\ Len(<<>>) = 0
  <1>1. \A n \in 1 .. Width : \A l \in [1 .. n -> Content] :
            DOMAIN l = 1 .. Len(l) /\ Len(l) = n /\ l # <<>>
    <2>1. TAKE n \in 1 .. Width
    <2>6. TAKE l \in [1 .. n -> Content]
    <2>2. l \in Seq(Content)
      BY SeqDef DEF Width
    <2>3. Len(l) \in Nat /\ DOMAIN l = 1 .. Len(l) /\ DOMAIN l = 1 .. n
      BY <2>2, LenProperties
    <2>4. Len(l) = n
      BY <2>3 DEF Width
    <2>5. QED
      BY <2>3, <2>4, EmptySeq DEF Width
  <1>2. \A l \in Layouts : l \in [1 .. 1 -> Content] \/ l \in [1 .. Width -> Content]
    BY TreesAssumption
  <1>3. 1 \in 1 .. Width /\ Width \in 1 .. Width
    BY DEF Width
  <1>4. QED
    BY <1>1, <1>2, <1>3

\* The types hold at the start.
LEMMA TypesInit == Init => Types
  <1> SUFFICES ASSUME Init PROVE Types
    OBVIOUS
  <1> USE TreesAssumption DEF Init, TreesInit
  <1>1. PICK l \in Layouts, s \in Statuses :
          /\ tree = [i \in Tree |-> IF i = 0 THEN "active" ELSE IF i = 1 THEN s ELSE "absent"]
          /\ layout = [i \in Tree |-> IF i = 0 THEN <<Far>> ELSE IF i = 1 THEN l ELSE <<>>]
          /\ row = [n \in Node |-> IF n = <<0, 1>> THEN "active"
                                   ELSE IF n[1] = 1 /\ n[2] <= Len(l) THEN s ELSE "absent"]
          /\ shown = IF s = "active" THEN {0, 1} ELSE {0}
    OBVIOUS
  <1>2. s \in {"active", "pending_review"} /\ s \in TreeStatus
    BY DEF TreeStatus
  <1>3. tree \in [Tree -> TreeStatus] /\ row \in [Node -> TreeStatus] /\ shown \subseteq Tree
    BY <1>1, <1>2 DEF TreeStatus, Tree
  <1>4. layout \in [Tree -> Layouts \cup {<<>>, <<Far>>}]
    BY <1>1
  <1>5. \A t \in Thread : CallTypes(pc[t], call[t])
    BY DEF CallTypes
  <1>6. QED
    BY <1>3, <1>4, <1>5 DEF Types, Version

\* A sweep's next node is one of those it has left.
LEMMA LeastIsThere ==
  ASSUME NEW S, S \subseteq Node, S # {}
  PROVE  Least(S) \in S
  <1> DEFINE place(n) == 3 * n[1] + n[2]
             Less == OpToRel(<, Nat)
             T == {place(n) : n \in S}
  <1>1. \A n \in Node : /\ n[1] \in Nat /\ n[2] \in 1 .. 2 /\ place(n) \in Nat
                        /\ n = <<n[1], n[2]>>
    BY TreesAssumption DEF Node, Tree, Width
  <1>2. T \subseteq Nat /\ T # {}
    BY <1>1
  <1>3. \E x \in T : \A y \in T : <<y, x>> \notin Less
    <2>1. IsWellFoundedOn(Less, Nat)
      BY NatLessThanWellFounded
    <2> HIDE DEF T, Less
    <2>2. QED
      BY <1>2, <2>1, WFMin
  <1>4. \A x, y \in Nat : y < x => <<y, x>> \in Less
    BY DEF OpToRel
  <1>5. PICK n \in S : \A m \in S : <<place(m), place(n)>> \notin Less
    BY <1>3
  <1>6. \A m \in S \ {n} : Before(n, m)
    <2> HIDE DEF Less
    <2>1. TAKE m \in S \ {n}
    <2>2. ~ (place(m) < place(n))
      BY <1>1, <1>4, <1>5
    <2>3. n[1] # m[1] \/ n[2] # m[2]
      BY <1>1
    <2>4. QED
      BY <1>1, <2>2, <2>3 DEF Before
  <1>7. QED
    BY <1>6 DEF Least

\* The types survive the begin of a rebuild, and of every other request.
LEMMA BeginRebuildTypes ==
  ASSUME Types, NEW t \in Thread, BeginRebuild(t), UNCHANGED queueVars
  PROVE  Types'
  <1>1. PICK l \in Layouts, s \in Statuses :
          Enter(t, "readRows", {Document, Queue}, Rebuild(made + 1, l, s))
    BY DEF BeginRebuild
  <1>2. made + 1 \in Version
    BY TreesAssumption DEF Types, BeginRebuild, Version
  <1>3. Rebuild(made + 1, l, s) \in RebuildCall
    <2>1. [i \in Tree |-> "absent"] \in [Tree -> TreeStatus]
      BY DEF TreeStatus
    <2>2. [n \in Node |-> "absent"] \in [Node -> TreeStatus]
      BY DEF TreeStatus
    <2>3. QED
      BY <1>2, <2>1, <2>2 DEF Rebuild, RebuildCall, Width
  <1> DEFINE c == Rebuild(made + 1, l, s)
  <1> HIDE DEF c
  <1>4. CallTypes("readRows", c)
    BY <1>3 DEF CallTypes, RebuildSteps, Counted, Rebuild, c
  <1>5. Alone(t) /\ pc'[t] = "readRows" /\ call'[t] = c
    BY <1>1, EnterAlone DEF c
  <1>6. /\ DOMAIN pc' = Thread /\ DOMAIN call' = Thread /\ DOMAIN touch' = Thread
        /\ \A u \in Thread : CallTypes(pc'[u], call'[u])
    BY <1>4, <1>5, AloneTypes
  <1>7. budget' \in [{"rebuild", "treeReview", "edge", "sweep", "drift", "review", "atOnce",
                      "failure", "crash"} -> Nat]
    BY <1>1 DEF Enter, Rebuild, Types
  <1>8. QED
    BY <1>2, <1>6, <1>7 DEF BeginRebuild, Types, queueVars

LEMMA OtherBeginTypes ==
  ASSUME Types, NEW t \in Thread, UNCHANGED <<storeVars, queueVars>>,
         NEW s, NEW r, NEW c, Enter(t, s, r, c), CallTypes(s, c),
         c.op \in {"treeReview", "edge", "sweep", "drift", "review"}
  PROVE  Types'
  <1>1. Alone(t) /\ pc'[t] = s /\ call'[t] = c
    BY EnterAlone
  <1>2. /\ DOMAIN pc' = Thread /\ DOMAIN call' = Thread /\ DOMAIN touch' = Thread
        /\ \A u \in Thread : CallTypes(pc'[u], call'[u])
    BY <1>1, AloneTypes
  <1>3. budget' \in [{"rebuild", "treeReview", "edge", "sweep", "drift", "review", "atOnce",
                      "failure", "crash"} -> Nat]
    BY DEF Enter, Types
  <1>4. QED
    BY <1>2, <1>3 DEF Types, queueVars, storeVars

LEMMA BeginTypes ==
  ASSUME Types, NEW t \in Thread,
         \/ FindTree(t) /\ UNCHANGED queueVars
         \/ BeginSweep(t) \/ BeginDrift(t) \/ BeginReview(t) \/ BeginEdge(t)
  PROVE  Types'
  <1> USE CandidatesAssumption
  <1>1. CASE FindTree(t) /\ UNCHANGED queueVars
    <2>1. PICK i \in Version, verdict \in {"active", "rejected"} :
            Enter(t, "reviewTree", {Document, Queue},
                  [op |-> "treeReview", tree |-> i, verdict |-> verdict])
      BY <1>1 DEF FindTree
    <2>2. CallTypes("reviewTree", [op |-> "treeReview", tree |-> i, verdict |-> verdict])
      BY DEF CallTypes, TreeReviewCall
    <2>3. QED
      BY <1>1, <2>1, <2>2, OtherBeginTypes DEF FindTree
  <1>2. CASE BeginSweep(t)
    <2>1. PICK kind \in Kinds, within \in BOOLEAN, cursor \in Cursors, dry \in BOOLEAN :
            \E focus \in FocusNodes(kind, cursor) :
              Enter(t, "sweep", {Queue},
                     [op |-> "sweep", kind |-> kind, within |-> within, dry |-> dry,
                      left |-> focus, keys |-> {}, docs |-> {}, count |-> 0, deaf |-> FALSE])
      BY <1>2 DEF BeginSweep
    <2>2. PICK focus \in FocusNodes(kind, cursor) :
              Enter(t, "sweep", {Queue},
                     [op |-> "sweep", kind |-> kind, within |-> within, dry |-> dry,
                      left |-> focus, keys |-> {}, docs |-> {}, count |-> 0, deaf |-> FALSE])
      BY <2>1
    <2>3. focus \subseteq Node
      BY DEF FocusNodes, First
    <2> DEFINE c == [op |-> "sweep", kind |-> kind, within |-> within, dry |-> dry,
                      left |-> focus, keys |-> {}, docs |-> {}, count |-> 0, deaf |-> FALSE]
    <2>4. SweepCall(c)
      BY <2>3 DEF SweepCall
    <2>5. c.op = "sweep"
      OBVIOUS
    <2> HIDE DEF c
    <2>6. CallTypes("sweep", c)
      BY <2>4 DEF CallTypes
    <2>7. Enter(t, "sweep", {Queue}, c)
      BY <2>2 DEF c
    <2>8. QED
      BY <1>2, <2>5, <2>6, <2>7, OtherBeginTypes DEF BeginSweep
  <1>3. CASE BeginDrift(t)
    <2>1. PICK report \in Reports, unconfirmed \in SUBSET (1 .. 2) :
            Enter(t, "drift", {Queue},
              [op |-> "drift", left |-> {<<i, report[i]>> : i \in DOMAIN report \ unconfirmed},
               docs |-> {}])
      BY <1>3 DEF BeginDrift
    <2> DEFINE c == [op |-> "drift", left |-> {<<i, report[i]>> : i \in DOMAIN report \ unconfirmed},
               docs |-> {}]
    <2>2. Definitions \subseteq PairRow
      BY DEF Definitions, Pair, PairRow
    <2>3. \A i \in DOMAIN report : i \in Nat /\ report[i] \in PairRow
      <3>1. CASE \E p \in Definitions : report = <<p>>
        BY <2>2, <3>1
      <3>2. CASE \E p, q \in Definitions : report = <<p, q>>
        BY <2>2, <3>2
      <3>3. QED
        BY <3>1, <3>2 DEF Reports
    <2>4. CallTypes("drift", c)
      BY <2>3 DEF CallTypes, DriftCall
    <2>5. c.op = "drift"
      OBVIOUS
    <2> HIDE DEF c
    <2>7. Enter(t, "drift", {Queue}, c)
      BY <2>1 DEF c
    <2>8. QED
      BY <1>3, <2>4, <2>5, <2>7, OtherBeginTypes DEF BeginDrift
  <1>4. CASE BeginReview(t)
    <2>1. PICK c \in candidates, verdict \in {"accepted", "rejected"} :
            Enter(t, IF verdict = "accepted" THEN "checkEdge" ELSE "judge", {Triple(c)},
                  [op |-> "review", pair |-> PairOf(c), verdict |-> verdict])
      BY <1>4 DEF BeginReview
    <2>2. PairOf(c) \in PairRow
      BY DEF Types, CandidateRow, PairRow, PairOf
    <2> DEFINE s == IF verdict = "accepted" THEN "checkEdge" ELSE "judge"
               k == [op |-> "review", pair |-> PairOf(c), verdict |-> verdict]
    <2>3. CallTypes(s, k) /\ k.op = "review"
      BY <2>2 DEF CallTypes, ReviewCall
    <2> HIDE DEF s, k
    <2>4. Enter(t, s, {Triple(c)}, k)
      BY <2>1 DEF s, k
    <2>5. QED
      BY <1>4, <2>3, <2>4, OtherBeginTypes DEF BeginReview
  <1>5. CASE BeginEdge(t)
    <2>1. PICK n, m \in {o \in Node : row[o] # "absent"}, r \in ByHand :
            Enter(t, "checkEdge", {}, [op |-> "edge", pair |-> Pair(n, m, r)])
      BY <1>5 DEF BeginEdge
    <2>2. Pair(n, m, r) \in PairRow
      BY DEF PairRow, Pair
    <2>3. CallTypes("checkEdge", [op |-> "edge", pair |-> Pair(n, m, r)])
      BY <2>2 DEF CallTypes, EdgeCall
    <2>4. QED
      BY <1>5, <2>1, <2>3, OtherBeginTypes DEF BeginEdge
  <1>6. QED
    BY <1>1, <1>2, <1>3, <1>4, <1>5

\* A parse has one hint or none.
LEMMA CardinalityOfHints ==
  ASSUME NEW c
  PROVE  \/ Hints(c) = {} /\ Cardinality(Hints(c)) = 0
         \/ \E h : Hints(c) = {h} /\ Cardinality(Hints(c)) = 1 /\ c.layout \in Hinted
                 /\ h = [id |-> minted + 1, src |-> <<c.new, 1>>, dst |-> <<c.new, 2>>, rel |-> HintType,
                         home |-> TRUE, reviewed |-> FALSE, flagged |-> FALSE, late |-> FALSE]
  BY FS_EmptySet, FS_Singleton DEF Hints

\* The nodes of a parse are nodes.
LEMMA NodesOfNew ==
  ASSUME NEW i \in Version, NEW k \in 1 .. Width
  PROVE  <<i, k>> \in Node
  BY DEF Node, Version, Tree

\* An edge that is carried, or flagged, is an edge with the identifier it had.
LEMMA CarriedType ==
  ASSUME NEW c \in RebuildCall, NEW old \in EdgeRow, NEW e \in EdgeRow
  PROVE  Carried(c, old, e) \in EdgeRow /\ Carried(c, old, e).id = e.id
  <1>1. \A n \in OldNodes(c) : ~ Lost(c, n) => Moved(c, n) \in Node
    <2> TAKE n \in OldNodes(c)
    <2>1. CASE \E p \in c.map : p[1] = n
      <3>1. (CHOOSE p \in c.map : p[1] = n) \in c.map
        BY <2>1
      <3>2. c.map \subseteq Node \X Node
        BY DEF RebuildCall
      <3>3. QED
        BY <2>1, <3>1, <3>2 DEF Moved
    <2>2. CASE ~ \E p \in c.map : p[1] = n
      BY <2>2 DEF Lost
    <2>3. QED
      BY <2>1, <2>2
  <1> DEFINE s == IF old.src \in OldNodes(c) THEN Moved(c, old.src) ELSE e.src
             d == IF old.dst \in OldNodes(c) THEN Moved(c, old.dst) ELSE e.dst
             moved == [e EXCEPT !.src = s, !.dst = d]
             flagged == [e EXCEPT !.flagged = TRUE]
  <1>2. flagged \in EdgeRow /\ flagged.id = e.id
    BY DEF EdgeRow
  <1>3. s \in Node /\ d \in Node => moved \in EdgeRow /\ moved.id = e.id
    <2> HIDE DEF s, d
    <2>1. QED
      BY DEF EdgeRow
  <1>4. e.src \in Node /\ e.dst \in Node
    BY DEF EdgeRow
  <1>5. ~ Lost(c, old.src) /\ ~ Lost(c, old.dst) => s \in Node /\ d \in Node
    BY <1>1, <1>4
  <1>6. Carried(c, old, e) = IF Lost(c, old.src) \/ Lost(c, old.dst) \/ Clashes(moved, edges)
                             THEN flagged ELSE moved
    BY DEF Carried
  <1> HIDE DEF s, d, moved, flagged
  <1>7. QED
    BY <1>2, <1>3, <1>5, <1>6

\* The types survive a step that leaves typed locals and a typed store.
LEMMA StepTypes ==
  ASSUME Types, NEW t \in Thread, NEW p, NEW c, Alone(t), pc'[t] = p, call'[t] = c, CallTypes(p, c),
         budget' \in [{"rebuild", "treeReview", "edge", "sweep", "drift", "review", "atOnce",
                    "failure", "crash"} -> Nat],
         document' \in Version, tree' \in [Tree -> TreeStatus],
         layout' \in [Tree -> Layouts \cup {<<>>, <<Far>>}],
         row' \in [Node -> TreeStatus], edges' \subseteq EdgeRow,
         minted' \in 0 .. MaxEdges, shown' \subseteq Tree, made' = made,
         candidates' \subseteq CandidateRow
  PROVE  Types'
  <1>1. /\ DOMAIN pc' = Thread /\ DOMAIN call' = Thread /\ DOMAIN touch' = Thread
        /\ \A u \in Thread : CallTypes(pc'[u], call'[u])
    BY AloneTypes
  <1>2. made' \in Version
    BY DEF Types
  <1>3. QED
    BY <1>1, <1>2 DEF Types

\* What the locals of a rebuild are.
LEMMA AtRebuild ==
  ASSUME Types, NEW t \in Thread, pc[t] \in RebuildSteps
  PROVE  /\ call[t] \in RebuildCall /\ call[t].op = "rebuild"
         /\ call[t].new \in Version /\ call[t].status \in {"active", "pending_review"}
         /\ call[t].layout \in Layouts /\ call[t].key \in 1 .. Width + 1
         /\ call[t].document \in Version /\ call[t].tree \in [Tree -> TreeStatus]
         /\ call[t].row \in [Node -> TreeStatus] /\ call[t].edges \subseteq EdgeRow
         /\ call[t].reviewed \subseteq EdgeRow /\ call[t].left \subseteq EdgeRow
         /\ call[t].map \subseteq Node \X Node /\ Counted(pc[t], call[t])
  <1>1. CallTypes(pc[t], call[t])
    BY DEF Types
  <1>2. call[t] \in RebuildCall /\ Counted(pc[t], call[t])
    BY <1>1, CallKinds
  <1>3. QED
    BY <1>2, TreesAssumption DEF RebuildCall

\* A rebuild that goes on to another of its steps leaves its locals typed.
LEMMA RebuildGoes ==
  ASSUME Types, NEW t \in Thread, NEW p \in RebuildSteps, NEW q \in RebuildSteps, Goto(t, p, q),
         NEW c \in RebuildCall, Counted(q, c),
         call' = [call EXCEPT ![t] = c] \/ (UNCHANGED call /\ c = call[t])
  PROVE  /\ Alone(t) /\ pc'[t] = q /\ call'[t] = c /\ CallTypes(q, c)
         /\ budget' \in [{"rebuild", "treeReview", "edge", "sweep", "drift", "review", "atOnce",
                          "failure", "crash"} -> Nat]
  <1>1. Alone(t) /\ pc'[t] = q /\ call'[t] = c
    BY GotoAlone
  <1>2. CallTypes(q, c)
    BY DEF CallTypes
  <1>3. QED
    BY <1>1, <1>2 DEF Goto, Types

\* So does a request that ends.
LEMMA LeaveGoes ==
  ASSUME Types, NEW t \in Thread, Leave(t) \/ \E whole : LeaveRestored(t, whole)
  PROVE  /\ Alone(t) /\ pc'[t] = "idle" /\ call'[t] = NoCall /\ touch'[t] = {}
         /\ CallTypes("idle", NoCall)
         /\ budget' \in [{"rebuild", "treeReview", "edge", "sweep", "drift", "review", "atOnce",
                          "failure", "crash"} -> Nat]
         /\ torn \subseteq torn'
  BY DEF Types, Leave, LeaveRestored, Alone, CallTypes

\* What is put back are edges.
LEMMA RestoredTypes ==
  ASSUME NEW rows \in SUBSET EdgeRow, NEW kept \in SUBSET EdgeRow
  PROVE  PutBack(rows, kept) \subseteq EdgeRow
  BY DEF PutBack, Returned

\* The types survive every step of a rebuild, of a review of a tree, and a crash.
LEMMA RebuildTypes ==
  ASSUME Types, NEW t \in Thread, RebuildStep(t), UNCHANGED queueVars
  PROVE  Types'
  <1> USE DEF storeVars, queueVars
  <1> DEFINE c == call[t]
  <1>a. \A s \in TreeStatus : Superseded(s) \in TreeStatus
    BY DEF Superseded, TreeStatus
  <1>b. {"active", "pending_review"} \subseteq TreeStatus
    BY DEF TreeStatus
  <1>c. /\ document \in Version /\ tree \in [Tree -> TreeStatus]
        /\ layout \in [Tree -> Layouts \cup {<<>>, <<Far>>}]
        /\ row \in [Node -> TreeStatus] /\ edges \in SUBSET EdgeRow
        /\ minted \in 0 .. MaxEdges /\ shown \subseteq Tree /\ candidates \subseteq CandidateRow
    BY DEF Types
  <1>d. \A i \in Version : i \in Tree
    BY DEF Version, Tree
  <1>e. /\ {"readRows", "readEdges"} \cup Trying \subseteq RebuildSteps
        /\ Restoring \subseteq RebuildSteps
    BY DEF RebuildSteps
  <1>f. /\ {"supersedeTrees", "supersedeNodes", "writeDocument", "insertTree", "insertNodes",
            "insertHints", "mapNodes", "carryEdges"} \subseteq RebuildSteps
        /\ {"restoreDocument", "restoreTrees", "restoreNodes", "restoreEdges", "restoreReviewed"}
               \subseteq RebuildSteps
    BY DEF RebuildSteps, Trying, Restoring
  <1>1. CASE ReadRows(t)
    <2> DEFINE d == [c EXCEPT !.document = document, !.tree = tree, !.row = row]
    <2>1. c \in RebuildCall /\ c.key = 1
      BY <1>1, <1>e, AtRebuild DEF ReadRows, Goto, Counted
    <2>2. d \in RebuildCall
      BY <1>c, <2>1, RebuildEdits
    <2>6. Counted("readEdges", d)
      BY <2>1 DEF Counted, RebuildCall
    <2>3. call' = [call EXCEPT ![t] = d]
      BY <1>1 DEF ReadRows
    <2> HIDE DEF d, c
    <2>4. /\ Alone(t) /\ pc'[t] = "readEdges" /\ call'[t] = d /\ CallTypes("readEdges", d)
         /\ budget' \in [{"rebuild", "treeReview", "edge", "sweep", "drift", "review", "atOnce",
                          "failure", "crash"} -> Nat]
      BY <1>1, <1>e, <2>2, <2>3, <2>6, RebuildGoes DEF ReadRows
    <2>5. QED
      BY <1>1, <1>c, <2>4, StepTypes DEF ReadRows
  <1>2. CASE ReadEdges(t)
    <2> DEFINE d == [c EXCEPT !.edges = {e \in edges : e.home}, !.reviewed = ReviewedTouching(OldNodes(c))]
    <2>1. c \in RebuildCall /\ c.key = 1
      BY <1>2, <1>e, AtRebuild DEF ReadEdges, Goto, Counted
    <2>2. ReviewedTouching(OldNodes(c)) \in SUBSET EdgeRow /\ {e \in edges : e.home} \in SUBSET EdgeRow
      BY <1>c DEF ReviewedTouching
    <2>3. d \in RebuildCall
      BY <2>1, <2>2, RebuildEdits
    <2>4. call' = [call EXCEPT ![t] = d]
      BY <1>2 DEF ReadEdges
    <2>7. Counted("supersedeTrees", d)
      BY <2>1 DEF Counted, RebuildCall
    <2> HIDE DEF d, c
    <2>5. /\ Alone(t) /\ pc'[t] = "supersedeTrees" /\ call'[t] = d /\ CallTypes("supersedeTrees", d)
         /\ budget' \in [{"rebuild", "treeReview", "edge", "sweep", "drift", "review", "atOnce",
                          "failure", "crash"} -> Nat]
      BY <1>2, <1>e, <1>f, <2>3, <2>4, <2>7, RebuildGoes DEF ReadEdges
    <2>6. QED
      BY <1>2, <1>c, <2>5, StepTypes DEF ReadEdges
  <1>3. CASE \/ SupersedeTrees(t) \/ SupersedeNodes(t) \/ WriteDocument(t) \/ InsertTree(t)
             \/ RestoreDocument(t) \/ RestoreTrees(t) \/ RestoreNodes(t)
    <2>1. PICK p, q \in RebuildSteps :
            /\ Goto(t, p, q) /\ UNCHANGED call
            /\ q \in {"supersedeNodes", "writeDocument", "insertTree", "insertNodes"} =>
                 p \in {"supersedeTrees", "supersedeNodes", "writeDocument", "insertTree"}
            /\ q \notin {"readRows", "readEdges", "supersedeTrees"}
      BY <1>3, <1>f DEF SupersedeTrees, SupersedeNodes, WriteDocument, InsertTree, RestoreDocument,
            RestoreTrees, RestoreNodes
    <2>2. pc[t] \in RebuildSteps /\ pc[t] = p
      BY <2>1 DEF Goto
    <2>6. Counted(q, c)
      <3>1. c.layout \in Layouts /\ Counted(p, c)
        BY <2>2, AtRebuild
      <3>2. 1 <= Len(c.layout)
        BY <3>1, Lengths
      <3>3. QED
        BY <2>1, <3>1, <3>2 DEF Counted
    <2>3. /\ Alone(t) /\ pc'[t] = q /\ call'[t] = c /\ CallTypes(q, c)
         /\ budget' \in [{"rebuild", "treeReview", "edge", "sweep", "drift", "review", "atOnce",
                          "failure", "crash"} -> Nat]
      BY <2>1, <2>2, <2>6, AtRebuild, RebuildGoes
    <2>4. /\ document' \in Version /\ tree' \in [Tree -> TreeStatus]
          /\ layout' \in [Tree -> Layouts \cup {<<>>, <<Far>>}]
          /\ row' \in [Node -> TreeStatus] /\ edges' \in SUBSET EdgeRow
          /\ minted' \in 0 .. MaxEdges /\ shown' \subseteq Tree /\ made' = made
      <3>1. /\ c.new \in Tree /\ c.new \in Version /\ c.status \in TreeStatus
            /\ c.layout \in Layouts /\ c.document \in Version /\ c.tree \in [Tree -> TreeStatus]
            /\ c.row \in [Node -> TreeStatus]
        BY <1>b, <1>d, <2>2, AtRebuild
      <3> HIDE DEF c
      <3>2. CASE SupersedeTrees(t)
        BY <1>a, <1>c, <3>2 DEF SupersedeTrees
      <3>3. CASE SupersedeNodes(t)
        BY <1>a, <1>c, <3>3 DEF SupersedeNodes
      <3>4. CASE WriteDocument(t)
        BY <1>c, <3>1, <3>4 DEF WriteDocument, c
      <3>5. CASE InsertTree(t)
        BY <1>c, <3>1, <3>5 DEF InsertTree, c
      <3>6. CASE RestoreDocument(t)
        BY <1>c, <3>1, <3>6 DEF RestoreDocument, c
      <3>7. CASE RestoreTrees(t)
        BY <1>c, <3>1, <3>7 DEF RestoreTrees, c
      <3>8. CASE RestoreNodes(t)
        BY <1>c, <3>1, <3>8 DEF RestoreNodes, c
      <3>9. QED
        BY <1>3, <3>2, <3>3, <3>4, <3>5, <3>6, <3>7, <3>8
    <2> HIDE DEF c
    <2>5. QED
      BY <1>c, <2>3, <2>4, StepTypes
  <1>4. CASE InsertNode(t)
    <2> DEFINE d == [c EXCEPT !.key = c.key + 1]
               q == IF c.key = Len(c.layout) THEN "insertHints" ELSE "insertNodes"
    <2>1. /\ c \in RebuildCall /\ c.key <= Len(c.layout) /\ c.layout \in Layouts
          /\ c.key \in 1 .. Width + 1 /\ c.new \in Version /\ c.status \in TreeStatus
      BY <1>4, <1>b, <1>f, AtRebuild DEF InsertNode, Goto, Counted
    <2>2. Len(c.layout) \in 1 .. Width
      BY <2>1, Lengths
    <2>3. d \in RebuildCall /\ d.key = c.key + 1 /\ d.layout = c.layout
      <3>1. \A k, n \in Nat : k >= 1 /\ k <= n /\ n <= Width => k + 1 \in 1 .. Width + 1
        BY DEF Width
      <3>2. c.key \in Nat /\ c.key >= 1 /\ Len(c.layout) \in Nat /\ Len(c.layout) <= Width
        <4> DEFINE k == c.key
                   n == Len(c.layout)
        <4>1. k \in 1 .. Width + 1 /\ n \in 1 .. Width
          BY <2>1, <2>2
        <4> HIDE DEF k, n
        <4>2. k \in Nat /\ k >= 1 /\ n \in Nat /\ n <= Width
          BY <4>1 DEF Width
        <4>3. QED
          BY <4>2 DEF k, n
      <3>3. c.key + 1 \in 1 .. Width + 1
        BY <2>1, <3>1, <3>2
      <3>4. d \in RebuildCall
        BY <2>1, <3>3, RebuildEdits
      <3>5. QED
        BY <2>1, <3>4 DEF RebuildCall
    <2>4. call' = [call EXCEPT ![t] = d] /\ Goto(t, "insertNodes", q)
      BY <1>4, <2>1 DEF InsertNode, Types
    <2>5. row' \in [Node -> TreeStatus]
      BY <1>4, <1>c, <2>1 DEF InsertNode
    <2>6. Counted(q, d)
      BY <2>1, <2>2, <2>3 DEF Counted, Width
    <2>7. q \in RebuildSteps
      BY <1>f
    <2> HIDE DEF d, q, c
    <2>8. /\ Alone(t) /\ pc'[t] = q /\ call'[t] = d /\ CallTypes(q, d)
          /\ budget' \in [{"rebuild", "treeReview", "edge", "sweep", "drift", "review", "atOnce",
                          "failure", "crash"} -> Nat]
      BY <1>f, <2>3, <2>4, <2>6, <2>7, RebuildGoes
    <2>9. QED
      BY <1>4, <1>c, <2>5, <2>8, StepTypes DEF InsertNode
  <1>5. CASE InsertHints(t)
    <2>1. c \in RebuildCall /\ c.new \in Version /\ call[t] = c
      BY <1>5, <1>f, AtRebuild DEF InsertHints
    <2>2. PICK q \in {"mapNodes", "restoreDocument"} : Goto(t, "insertHints", q)
      BY <1>5 DEF InsertHints
    <2>3. UNCHANGED call /\ Counted(q, c)
      BY <1>5, <2>2 DEF InsertHints, Counted
    <2>4. /\ Alone(t) /\ pc'[t] = q /\ call'[t] = c /\ CallTypes(q, c)
          /\ budget' \in [{"rebuild", "treeReview", "edge", "sweep", "drift", "review", "atOnce",
                          "failure", "crash"} -> Nat]
      BY <1>f, <2>1, <2>2, <2>3, RebuildGoes
    <2>5. edges' \in SUBSET EdgeRow /\ minted' \in 0 .. MaxEdges
      <3>1. CASE UNCHANGED <<edges, minted>>
        BY <1>c, <3>1
      <3>2. CASE /\ minted + Cardinality(Hints(c)) <= MaxEdges
                 /\ edges' = edges \cup Hints(c)
                 /\ minted' = minted + Cardinality(Hints(c))
        <4>1. CASE Hints(c) = {} /\ Cardinality(Hints(c)) = 0
          BY <1>c, <3>2, <4>1, TreesAssumption
        <4>2. CASE Cardinality(Hints(c)) = 1
          <5>1. PICK h : Hints(c) = {h}
                 /\ h = [id |-> minted + 1, src |-> <<c.new, 1>>, dst |-> <<c.new, 2>>, rel |-> HintType,
                         home |-> TRUE, reviewed |-> FALSE, flagged |-> FALSE, late |-> FALSE]
            BY <4>2, CardinalityOfHints
          <5>2. minted + 1 \in 1 .. MaxEdges /\ minted + 1 \in 0 .. MaxEdges
            BY <1>c, <3>2, <4>2, TreesAssumption
          <5>3. <<c.new, 1>> \in Node /\ <<c.new, 2>> \in Node
            BY <2>1, NodesOfNew DEF Width
          <5>4. h \in EdgeRow
            BY <5>1, <5>2, <5>3, TreesAssumption DEF EdgeRow
          <5>5. QED
            BY <1>c, <3>2, <4>2, <5>1, <5>2, <5>4
        <4>3. QED
          BY <4>1, <4>2, CardinalityOfHints
      <3>3. QED
        BY <1>5, <3>1, <3>2 DEF InsertHints
    <2> HIDE DEF c
    <2>6. QED
      BY <1>5, <1>c, <2>4, <2>5, StepTypes DEF InsertHints
  <1>6. CASE MapNodes(t)
    <2>1. c \in RebuildCall /\ pc[t] = "mapNodes" /\ c.reviewed \in SUBSET EdgeRow
      BY <1>6, <1>f, AtRebuild DEF MapNodes
    <2>2. CASE Leave(t)
      <3> HIDE DEF c
      <3>1. QED
        BY <1>6, <1>c, <2>2, LeaveGoes, StepTypes DEF MapNodes
    <2>3. CASE ~ Leave(t)
      <3> DEFINE d == [c EXCEPT !.map = Counterparts(c), !.left = c.reviewed]
      <3>1. Counterparts(c) \in SUBSET (Node \X Node)
        <4>1. OldNodes(c) \subseteq Node
          BY DEF OldNodes
        <4>2. {n \in Rows(c.new) : row[n] # "absent"} \subseteq Node
          <5>1. c.new \in Version
            BY <1>6, <1>f, AtRebuild DEF MapNodes
          <5>2. Len(layout[c.new]) \in 0 .. Width
            BY <1>c, <1>d, <5>1, Lengths DEF Width
          <5> DEFINE m == Len(layout[c.new])
          <5> HIDE DEF m
          <5>5. m \in 0 .. Width
            BY <5>2 DEF m
          <5>6. \A k \in 1 .. m : k \in 1 .. Width
            BY <5>5 DEF Width
          <5>3. \A k \in 1 .. Len(layout[c.new]) : k \in 1 .. Width
            BY <5>6 DEF m
          <5>4. QED
            BY <5>1, <5>3, NodesOfNew DEF Rows
        <4>3. QED
          BY <4>1, <4>2 DEF Counterparts
      <3>2. d \in RebuildCall
        BY <2>1, <3>1, RebuildEdits
      <3>3. call' = [call EXCEPT ![t] = d] /\ Goto(t, "mapNodes", "carryEdges")
        BY <1>6, <2>3 DEF MapNodes
      <3>4. Counted("carryEdges", d)
        BY DEF Counted
      <3> HIDE DEF d, c
      <3>5. /\ Alone(t) /\ pc'[t] = "carryEdges" /\ call'[t] = d /\ CallTypes("carryEdges", d)
            /\ budget' \in [{"rebuild", "treeReview", "edge", "sweep", "drift", "review", "atOnce",
                          "failure", "crash"} -> Nat]
        BY <1>f, <3>2, <3>3, <3>4, RebuildGoes
      <3>6. QED
        BY <1>6, <1>c, <3>5, StepTypes DEF MapNodes
    <2>4. QED
      BY <2>2, <2>3
  <1>7. CASE CarryEdge(t)
    <2>1. c \in RebuildCall /\ pc[t] = "carryEdges" /\ c.left \in SUBSET EdgeRow
      BY <1>7, <1>f, AtRebuild DEF CarryEdge
    <2>2. PICK old \in c.left :
            /\ edges' = {IF e.id = old.id THEN Carried(c, old, e) ELSE e : e \in edges}
            /\ IF c.left = {old}
               THEN Leave(t)
               ELSE /\ Goto(t, "carryEdges", "carryEdges")
                    /\ call' = [call EXCEPT ![t].left = @ \ {old}]
      BY <1>7 DEF CarryEdge
    <2>3. edges' \subseteq EdgeRow
      BY <1>c, <2>1, <2>2, CarriedType
    <2>4. CASE Leave(t)
      <3> HIDE DEF c
      <3>1. QED
        BY <1>7, <1>c, <2>3, <2>4, LeaveGoes, StepTypes DEF CarryEdge
    <2>5. CASE ~ Leave(t)
      <3> DEFINE d == [c EXCEPT !.left = c.left \ {old}]
      <3>1. d \in RebuildCall
        BY <2>1, RebuildEdits
      <3>2. call' = [call EXCEPT ![t] = d] /\ Goto(t, "carryEdges", "carryEdges")
        BY <2>2, <2>5 DEF Types
      <3>3. Counted("carryEdges", d)
        BY DEF Counted
      <3> HIDE DEF d, c
      <3>4. /\ Alone(t) /\ pc'[t] = "carryEdges" /\ call'[t] = d /\ CallTypes("carryEdges", d)
            /\ budget' \in [{"rebuild", "treeReview", "edge", "sweep", "drift", "review", "atOnce",
                          "failure", "crash"} -> Nat]
        BY <1>f, <3>1, <3>2, <3>3, RebuildGoes
      <3>5. QED
        BY <1>7, <1>c, <2>3, <3>4, StepTypes DEF CarryEdge
    <2>6. QED
      BY <2>4, <2>5
  <1>8. CASE Fail(t)
    <2>1. c \in RebuildCall
      BY <1>8, <1>e, AtRebuild DEF Fail
    <2>2. CallTypes("restoreDocument", c)
      BY <1>f, <2>1 DEF CallTypes, Counted
    <2>3. Alone(t) /\ pc'[t] = "restoreDocument" /\ call'[t] = c
      BY <1>8 DEF Fail, Alone, Types
    <2>4. budget' \in [{"rebuild", "treeReview", "edge", "sweep", "drift", "review", "atOnce",
                          "failure", "crash"} -> Nat]
      BY <1>8 DEF Fail, Types
    <2> HIDE DEF c
    <2>5. QED
      BY <1>8, <1>c, <2>2, <2>3, <2>4, StepTypes DEF Fail
  <1>9. CASE RestoreEdges(t)
    <2>1. c \in RebuildCall /\ c.edges \in SUBSET EdgeRow
      BY <1>9, <1>f, AtRebuild DEF RestoreEdges
    <2> DEFINE kept == {e \in edges : e.home => e.id \in Ids(c.edges)}
    <2>2. edges' \subseteq EdgeRow
      <3>1. kept \in SUBSET EdgeRow
        BY <1>c
      <3> HIDE DEF kept
      <3>2. edges' = PutBack(c.edges, kept)
        BY <1>9 DEF RestoreEdges, kept
      <3>3. QED
        BY <2>1, <3>1, <3>2, RestoredTypes
    <2>3. \/ Goto(t, "restoreEdges", "restoreReviewed") /\ UNCHANGED call
          \/ LeaveRestored(t, FALSE)
      BY <1>9 DEF RestoreEdges
    <2>4. Counted("restoreReviewed", c)
      BY DEF Counted
    <2> HIDE DEF c, kept
    <2>5. CASE Goto(t, "restoreEdges", "restoreReviewed") /\ UNCHANGED call
      <3>1. /\ Alone(t) /\ pc'[t] = "restoreReviewed" /\ call'[t] = c /\ CallTypes("restoreReviewed", c)
            /\ budget' \in [{"rebuild", "treeReview", "edge", "sweep", "drift", "review", "atOnce",
                          "failure", "crash"} -> Nat]
        BY <1>f, <2>1, <2>4, <2>5, RebuildGoes DEF c
      <3>2. QED
        BY <1>9, <1>c, <2>2, <3>1, StepTypes DEF RestoreEdges
    <2>6. CASE LeaveRestored(t, FALSE)
      BY <1>9, <1>c, <2>2, <2>6, LeaveGoes, StepTypes DEF RestoreEdges
    <2>7. QED
      BY <2>3, <2>5, <2>6
  <1>10. CASE RestoreReviewed(t)
    <2>1. c.reviewed \in SUBSET EdgeRow
      BY <1>10, <1>f, AtRebuild DEF RestoreReviewed
    <2>2. edges' \subseteq EdgeRow
      BY <1>10, <1>c, <2>1, RestoredTypes DEF RestoreReviewed
    <2>3. \E whole : LeaveRestored(t, whole)
      BY <1>10 DEF RestoreReviewed
    <2>4. QED
      BY <1>10, <1>c, <2>2, <2>3, LeaveGoes, StepTypes DEF RestoreReviewed
  <1>11. QED
    BY <1>1, <1>2, <1>3, <1>4, <1>5, <1>6, <1>7, <1>8, <1>9, <1>10 DEF RebuildStep

LEMMA TreeReviewTypes ==
  ASSUME Types, NEW t \in Thread, ReviewTree(t) \/ ReviewNodes(t) \/ Crash(t), UNCHANGED queueVars
  PROVE  Types'
  <1> USE DEF storeVars, queueVars
  <1> DEFINE c == call[t]
  <1>1. CallTypes(pc[t], c)
    BY DEF Types
  <1>c. /\ document \in Version /\ tree \in [Tree -> TreeStatus]
        /\ layout \in [Tree -> Layouts \cup {<<>>, <<Far>>}]
        /\ row \in [Node -> TreeStatus] /\ edges \in SUBSET EdgeRow
        /\ minted \in 0 .. MaxEdges /\ shown \subseteq Tree /\ candidates \subseteq CandidateRow
    BY DEF Types
  <1>2. pc[t] \in {"reviewTree", "reviewNodes"} =>
          c \in TreeReviewCall /\ c.tree \in Tree /\ c.verdict \in TreeStatus
    BY <1>1, CallKinds DEF TreeReviewCall, TreeStatus, Version, Tree
  <1>3. CASE ReviewTree(t)
    <2>1. CallTypes("reviewNodes", c)
      BY <1>2, <1>3 DEF CallTypes, ReviewTree, Goto
    <2>2. Alone(t) /\ pc'[t] = "reviewNodes" /\ call'[t] = c
      BY <1>3, GotoAlone DEF ReviewTree
    <2>3. budget' \in [{"rebuild", "treeReview", "edge", "sweep", "drift", "review", "atOnce",
                          "failure", "crash"} -> Nat]
      BY <1>3 DEF ReviewTree, Goto, Types
    <2>4. tree' \in [Tree -> TreeStatus] /\ shown' \subseteq Tree
      BY <1>2, <1>3, <1>c DEF ReviewTree, Goto
    <2> HIDE DEF c
    <2>5. QED
      BY <1>3, <1>c, <2>1, <2>2, <2>3, <2>4, StepTypes DEF ReviewTree
  <1>4. CASE ReviewNodes(t)
    <2>1. row' \in [Node -> TreeStatus]
      BY <1>2, <1>4, <1>c DEF ReviewNodes
    <2> HIDE DEF c
    <2>2. QED
      BY <1>4, <1>c, <2>1, LeaveGoes, StepTypes DEF ReviewNodes
  <1>5. CASE Crash(t)
    <2>1. Alone(t) /\ pc'[t] = "idle" /\ call'[t] = NoCall /\ CallTypes("idle", NoCall)
      BY <1>5 DEF Crash, Alone, Types, CallTypes
    <2>2. budget' \in [{"rebuild", "treeReview", "edge", "sweep", "drift", "review", "atOnce",
                          "failure", "crash"} -> Nat]
      BY <1>5 DEF Crash, Types
    <2> HIDE DEF c
    <2>3. QED
      BY <1>5, <1>c, <2>1, <2>2, StepTypes DEF Crash
  <1>6. QED
    BY <1>3, <1>4, <1>5 DEF TreeStep

\* What a sweep finds at a node are pairs of nodes, and what the model takes of them.
LEMMA FreshPairs ==
  ASSUME NEW c, c.kind \in Kinds, NEW n \in Node
  PROVE  Fresh(c, n) \subseteq PairRow
  <1>1. Scan(c.kind, n, c.within) \subseteq Node
    <2>1. Others(n, c.within) \subseteq Node
      BY DEF Others
    <2>2. Neighbours(n, c.within) \subseteq Node
      BY <2>1 DEF Neighbours, Distinct
    <2>3. QED
      BY <2>1, <2>2 DEF Scan, First
  <1>2. RelationOf[c.kind] \in Relation
    BY CandidatesAssumption
  <1>3. QED
    BY <1>1, <1>2 DEF Fresh, Pair, PairRow

LEMMA VerdictPairs ==
  ASSUME NEW c, NEW fresh, NEW v \in Verdicts(c, fresh)
  PROVE  v.taken \subseteq fresh
  <1>1. CASE c.kind # "confirmed"
    BY <1>1 DEF Verdicts
  <1>2. CASE c.kind = "confirmed" /\ (c.deaf \/ fresh = {})
    <2>1. v = [taken |-> {}, deaf |-> c.deaf]
      BY <1>2 DEF Verdicts
    <2>2. QED
      BY <2>1
  <1>3. CASE c.kind = "confirmed" /\ ~ (c.deaf \/ fresh = {})
    <2>1. v \in [taken : SUBSET fresh, deaf : {FALSE}] \cup [taken : (SUBSET fresh) \ {fresh}, deaf : {TRUE}]
      BY <1>3 DEF Verdicts
    <2>2. QED
      BY <2>1
  <1>4. QED
    BY <1>1, <1>2, <1>3

\* What a sweep may write into its locals leaves them locals of a sweep.
LEMMA SweepEdits ==
  ASSUME NEW c, SweepCall(c), NEW l \in SUBSET Node, NEW ds \in SUBSET PairRow, NEW ks, NEW k, NEW b
  PROVE  /\ SweepCall([c EXCEPT !.left = l, !.docs = ds, !.deaf = b])
         /\ SweepCall([c EXCEPT !.left = l, !.keys = ks, !.count = k, !.deaf = b])
         /\ SweepCall([c EXCEPT !.docs = ds, !.count = k])
         /\ c.left \subseteq Node /\ c.docs \subseteq PairRow /\ c.kind \in Kinds /\ c.op = "sweep"
  <1>1. /\ c.left \subseteq Node /\ c.docs \subseteq PairRow /\ c.kind \in Kinds /\ c.op = "sweep"
    BY DEF SweepCall
  <1>2. DOMAIN c = {"op", "kind", "within", "dry", "left", "keys", "docs", "count", "deaf"}
    BY DEF SweepCall
  <1>3. SweepCall([c EXCEPT !.left = l, !.docs = ds, !.deaf = b])
    BY DEF SweepCall
  <1>4. SweepCall([c EXCEPT !.left = l, !.keys = ks, !.count = k, !.deaf = b])
    BY DEF SweepCall
  <1>5. SweepCall([c EXCEPT !.docs = ds, !.count = k])
    BY DEF SweepCall
  <1>6. QED
    BY <1>1, <1>3, <1>4, <1>5

\* The types survive every step of a sweep, a report and a review of a pair.
LEMMA CandidateTypes ==
  ASSUME Types, NEW t \in Thread,
         \/ LookAround(t) \/ Foresee(t) \/ QueuePairs(t) \/ EndSweep(t)
         \/ CompareReport(t) \/ QueueReport(t)
         \/ CheckEdge(t) \/ InsertEdge(t) \/ Judge(t)
  PROVE  Types'
  <1> USE DEF storeVars, queueVars
  <1> DEFINE c == call[t]
  <1>1. CallTypes(pc[t], c)
    BY DEF Types
  <1>c. /\ document \in Version /\ tree \in [Tree -> TreeStatus]
        /\ layout \in [Tree -> Layouts \cup {<<>>, <<Far>>}]
        /\ row \in [Node -> TreeStatus] /\ edges \in SUBSET EdgeRow
        /\ minted \in 0 .. MaxEdges /\ shown \subseteq Tree /\ candidates \subseteq CandidateRow
        /\ budget \in [{"rebuild", "treeReview", "edge", "sweep", "drift", "review", "atOnce",
                          "failure", "crash"} -> Nat]
    BY DEF Types
  <1>a. \A p \in PairRow : Pending(p) \in CandidateRow
    BY DEF Pending, PairRow, CandidateRow
  <1>2. CASE LookAround(t)
    <2>1. SweepCall(c) /\ pc[t] = "sweep" /\ c.left # {}
      BY <1>1, <1>2, CallKinds DEF LookAround
    <2>2. c.left \subseteq Node /\ c.kind \in Kinds
      BY <2>1 DEF SweepCall
    <2> DEFINE n == Least(c.left)
    <2>3. n \in Node
      BY <2>1, <2>2, LeastIsThere
    <2>4. PICK v \in Verdicts(c, Fresh(c, n)) :
            /\ Goto(t, "sweep", IF v.taken = {} THEN "sweep" ELSE "queue")
            /\ call' = [call EXCEPT ![t] =
                          [c EXCEPT !.left = @ \ {n}, !.docs = v.taken, !.deaf = v.deaf]]
      BY <1>2 DEF LookAround
    <2>5. v.taken \in SUBSET PairRow /\ c.left \ {n} \in SUBSET Node
      BY <2>2, <2>3, FreshPairs, VerdictPairs
    <2> DEFINE d == [c EXCEPT !.left = c.left \ {n}, !.docs = v.taken, !.deaf = v.deaf]
               q == IF v.taken = {} THEN "sweep" ELSE "queue"
    <2>6. SweepCall(d)
      BY <2>1, <2>5, SweepEdits
    <2>7. call' = [call EXCEPT ![t] = d] /\ Goto(t, "sweep", q)
      BY <2>4 DEF Types
    <2>8. CallTypes(q, d)
      BY <2>6 DEF CallTypes
    <2> HIDE DEF d, q, n, c
    <2>9. Alone(t) /\ pc'[t] = q /\ call'[t] = d /\ budget' = budget
      BY <2>7, GotoAlone DEF Goto
    <2>10. QED
      BY <1>2, <1>c, <2>8, <2>9, StepTypes DEF LookAround
  <1>3. CASE Foresee(t)
    <2>1. SweepCall(c) /\ pc[t] = "sweep" /\ c.left # {}
      BY <1>1, <1>3, CallKinds DEF Foresee
    <2>2. c.left \subseteq Node
      BY <2>1 DEF SweepCall
    <2> DEFINE n == Least(c.left)
    <2>4. PICK v \in Verdicts(c, Fresh(c, n)) :
            /\ Goto(t, "sweep", "sweep")
            /\ call' = [call EXCEPT ![t] =
                          [c EXCEPT !.left = @ \ {n}, !.keys = @ \cup Fresh(c, n),
                                    !.count = @ + Cardinality(v.taken), !.deaf = v.deaf]]
      BY <1>3 DEF Foresee
    <2> DEFINE d == [c EXCEPT !.left = c.left \ {n}, !.keys = c.keys \cup Fresh(c, n),
                              !.count = c.count + Cardinality(v.taken), !.deaf = v.deaf]
    <2>5. c.left \ {n} \in SUBSET Node
      BY <2>2
    <2>6. SweepCall(d)
      BY <2>1, <2>5, SweepEdits
    <2>7. call' = [call EXCEPT ![t] = d]
      BY <2>4 DEF Types
    <2>8. CallTypes("sweep", d)
      BY <2>6 DEF CallTypes
    <2> HIDE DEF d, n, c
    <2>9. Alone(t) /\ pc'[t] = "sweep" /\ call'[t] = d /\ budget' = budget
      BY <2>4, <2>7, GotoAlone DEF Goto
    <2>10. QED
      BY <1>3, <1>c, <2>8, <2>9, StepTypes DEF Foresee
  <1>4. CASE QueuePairs(t)
    <2>1. SweepCall(c) /\ pc[t] = "queue"
      BY <1>1, <1>4, CallKinds DEF QueuePairs
    <2>2. c.docs \subseteq PairRow /\ {} \in SUBSET PairRow
      BY <2>1 DEF SweepCall
    <2>3. candidates' \subseteq CandidateRow
      BY <1>4, <1>a, <1>c, <2>2 DEF QueuePairs, Inserted
    <2> DEFINE d == [c EXCEPT !.docs = {}, !.count = c.count + Cardinality(c.docs)]
    <2>4. SweepCall(d)
      BY <2>1, <2>2, SweepEdits
    <2>5. CallTypes("sweep", d)
      BY <2>4 DEF CallTypes
    <2>6. \/ Leave(t)
          \/ Goto(t, "queue", "sweep") /\ call' = [call EXCEPT ![t] = d]
      BY <1>4 DEF QueuePairs, Types
    <2> HIDE DEF d, c
    <2>7. CASE Leave(t)
      BY <1>4, <1>c, <2>3, <2>7, LeaveGoes, StepTypes DEF QueuePairs
    <2>8. CASE Goto(t, "queue", "sweep") /\ call' = [call EXCEPT ![t] = d]
      <3>1. Alone(t) /\ pc'[t] = "sweep" /\ call'[t] = d /\ budget' = budget
        BY <2>8, GotoAlone DEF Goto
      <3>2. QED
        BY <1>4, <1>c, <2>3, <2>5, <3>1, StepTypes DEF QueuePairs
    <2>9. QED
      BY <2>6, <2>7, <2>8
  <1>5. CASE EndSweep(t)
    <2> HIDE DEF c
    <2>1. QED
      BY <1>5, <1>c, LeaveGoes, StepTypes DEF EndSweep
  <1>6. CASE CompareReport(t)
    <2>1. c \in DriftCall
      BY <1>1, <1>6, CallKinds DEF CompareReport, Goto
    <2> DEFINE ds == {d \in call[t].left : ~Exists(d[2])}
               d2 == [c EXCEPT !.docs = ds]
    <2>2. d2 \in DriftCall
      BY <2>1 DEF DriftCall
    <2>3. CallTypes("queueReport", d2)
      BY <2>2 DEF CallTypes
    <2>4. call' = [call EXCEPT ![t] = d2] /\ Goto(t, "drift", "queueReport")
      BY <1>6 DEF CompareReport, Types
    <2> HIDE DEF d2, c, ds
    <2>5. Alone(t) /\ pc'[t] = "queueReport" /\ call'[t] = d2 /\ budget' = budget
      BY <2>4, GotoAlone DEF Goto
    <2>6. QED
      BY <1>6, <1>c, <2>3, <2>5, StepTypes DEF CompareReport
  <1>7. CASE QueueReport(t)
    <2>1. c \in DriftCall
      BY <1>1, <1>7, CallKinds DEF QueueReport
    <2>2. \A d \in c.docs : d[2] \in PairRow
      BY <2>1 DEF DriftCall
    <2>3. candidates' \subseteq CandidateRow
      BY <1>7, <1>a, <1>c, <2>2 DEF QueueReport
    <2> HIDE DEF c
    <2>4. QED
      BY <1>7, <1>c, <2>3, LeaveGoes, StepTypes DEF QueueReport
  <1>8. CASE CheckEdge(t)
    <2> HIDE DEF c
    <2>1. CASE Leave(t)
      BY <1>8, <1>c, <2>1, LeaveGoes, StepTypes DEF CheckEdge
    <2>2. CASE Goto(t, "checkEdge", "insertEdge") /\ UNCHANGED call
      <3>1. Alone(t) /\ pc'[t] = "insertEdge" /\ call'[t] = c /\ budget' = budget
        BY <2>2, GotoAlone DEF Goto, c
      <3>2. CallTypes("insertEdge", c)
        BY <1>1, <2>2, CallKinds DEF CallTypes, Goto
      <3>3. QED
        BY <1>8, <1>c, <3>1, <3>2, StepTypes DEF CheckEdge
    <2>3. QED
      BY <1>8, <2>1, <2>2 DEF CheckEdge
  <1>9. CASE InsertEdge(t)
    <2>1. c.pair \in PairRow
      BY <1>1, <1>9, CallKinds DEF InsertEdge, ReviewCall, EdgeCall
    <2>2. edges' \subseteq EdgeRow /\ minted' \in 0 .. MaxEdges
      <3>1. CASE UNCHANGED <<edges, minted>>
        BY <1>c, <3>1
      <3>2. CASE minted < MaxEdges /\ edges' = edges \cup {ReviewedEdge(c.pair)} /\ minted' = minted + 1
        <4>1. minted + 1 \in 1 .. MaxEdges /\ minted + 1 \in 0 .. MaxEdges
          BY <1>c, <3>2, TreesAssumption
        <4>2. Ours(c.pair.src) \in BOOLEAN
          BY DEF Ours
        <4>3. (Rebuilding \/ {"absent", "superseded"} \cap {row[c.pair.src], row[c.pair.dst]} # {}) \in BOOLEAN
          OBVIOUS
        <4>4. ReviewedEdge(c.pair) \in EdgeRow
          <5> HIDE DEF c
          <5>1. QED
            BY <2>1, <4>1, <4>2, <4>3 DEF ReviewedEdge, EdgeRow, PairRow
        <4>5. QED
          BY <1>c, <3>2, <4>1, <4>4
      <3>3. QED
        BY <1>9, <3>1, <3>2 DEF InsertEdge
    <2>3. Leave(t) \/ (Goto(t, "insertEdge", "judge") /\ UNCHANGED call /\ c.op = "review")
      BY <1>9 DEF InsertEdge
    <2>4. CASE Leave(t)
      <3> HIDE DEF c
      <3>1. QED
        BY <1>9, <1>c, <2>2, <2>4, LeaveGoes, StepTypes DEF InsertEdge
    <2>5. CASE Goto(t, "insertEdge", "judge") /\ UNCHANGED call /\ c.op = "review"
      <3>1. CallTypes("judge", c)
        BY <1>1, <2>5, CallKinds DEF CallTypes
      <3> HIDE DEF c
      <3>2. Alone(t) /\ pc'[t] = "judge" /\ call'[t] = c /\ budget' = budget
        BY <2>5, GotoAlone DEF Goto, c
      <3>3. QED
        BY <1>9, <1>c, <2>2, <3>1, <3>2, StepTypes DEF InsertEdge
    <2>6. QED
      BY <2>3, <2>4, <2>5
  <1>10. CASE Judge(t)
    <2>1. c.verdict \in {"accepted", "rejected"}
      BY <1>1, <1>10, CallKinds DEF Judge, ReviewCall, CallTypes, EdgeCall
    <2>2. candidates' \subseteq CandidateRow
      BY <1>10, <1>c, <2>1 DEF Judge, CandidateRow
    <2> HIDE DEF c
    <2>3. QED
      BY <1>10, <1>c, <2>2, LeaveGoes, StepTypes DEF Judge
  <1>11. QED
    BY <1>2, <1>3, <1>4, <1>5, <1>6, <1>7, <1>8, <1>9, <1>10

Step(t) == (TreeStep(t) /\ UNCHANGED queueVars) \/ CandidateStep(t)

\* Next, one thread at a time.
LEMMA StepsAre ==
  Next <=> \E t \in Thread : Step(t)
  BY DEF Next, TreeNext, CandidateNext, Step, TreeStep, CandidateStep

\* The types survive every step.
LEMMA TypesStep ==
  ASSUME Types, [Next]_vars
  PROVE  Types'
  <1>1. CASE UNCHANGED vars
    <2>2. \A t \in Thread : CallTypes(pc'[t], call'[t])
      BY <1>1 DEF vars, treeVars, threadVars, Types
    <2>3. QED
      BY <1>1, <2>2 DEF vars, treeVars, storeVars, threadVars, queueVars, Types
  <1>2. CASE \E t \in Thread : Step(t)
    <2>1. PICK t \in Thread : Step(t)
      BY <1>2
    <2>2. QED
      BY <2>1, BeginRebuildTypes, BeginTypes, RebuildTypes, TreeReviewTypes, CandidateTypes
         DEF Step, TreeStep, CandidateStep
  <1>3. QED
    BY <1>1, <1>2, StepsAre

Begins(t) ==
    /\ pc[t] = "idle" /\ call[t] = NoCall /\ pc'[t] # "idle"
    /\ torn' = torn \cup (touch'[t] \cap UNION {touch[u] : u \in Thread})
    /\ call'[t].op \in DocumentOps => touch'[t] = {Document, Queue}
    /\ call'[t].op \in {"sweep", "drift"} => touch'[t] = {Queue}
    /\ call'[t].op = "review" => touch'[t] = {Triple(call'[t].pair)}
    /\ call'[t].op = "edge" => touch'[t] = {}

Continues(t) ==
    /\ pc[t] # "idle" /\ pc'[t] # "idle"
    /\ torn' = torn /\ touch'[t] = touch[t]
    /\ call'[t].op = call[t].op
    /\ call[t].op \in {"treeReview", "review", "edge"} => call'[t] = call[t]

Finishes(t) ==
    /\ pc[t] # "idle" /\ pc'[t] = "idle" /\ call'[t] = NoCall /\ touch'[t] = {}
    /\ torn \subseteq torn'

\* Begins, Continues and Finishes hold of the ways a thread moves.
LEMMA EnterBegins ==
  ASSUME Types, NEW t \in Thread, NEW s, NEW r, NEW c, Enter(t, s, r, c), s # "idle",
         c.op \in DocumentOps => r = {Document, Queue},
         c.op \in {"sweep", "drift"} => r = {Queue},
         c.op = "review" => r = {Triple(c.pair)},
         c.op = "edge" => r = {}
  PROVE  Alone(t) /\ Begins(t)
  <1>1. Alone(t) /\ pc'[t] = s /\ call'[t] = c /\ touch'[t] = r
    BY EnterAlone
  <1>2. pc[t] = "idle" /\ torn' = torn \cup (r \cap UNION {touch[u] : u \in Thread})
    BY DEF Enter, Busy
  <1>3. call[t] = NoCall
    BY <1>2, CallKinds DEF Types
  <1>4. QED
    BY <1>1, <1>2, <1>3 DEF Begins

LEMMA LeaveFinishes ==
  ASSUME Types, NEW t \in Thread, pc[t] # "idle", Leave(t) \/ \E whole : LeaveRestored(t, whole)
  PROVE  Alone(t) /\ Finishes(t)
  BY LeaveGoes DEF Finishes

LEMMA GotoContinues ==
  ASSUME Types, NEW t \in Thread, NEW p, NEW q, Goto(t, p, q), p # "idle", q # "idle"
  PROVE  /\ UNCHANGED call => Alone(t) /\ Continues(t)
         /\ \A c : call' = [call EXCEPT ![t] = c] /\ c.op = call[t].op
                     /\ call[t].op \notin {"treeReview", "review", "edge"} => Alone(t) /\ Continues(t)
  <1>1. pc[t] = p /\ torn' = torn
    BY DEF Goto
  <1>2. ASSUME UNCHANGED call
        PROVE  Alone(t) /\ Continues(t)
    BY <1>1, <1>2, GotoAlone DEF Continues
  <1>3. ASSUME NEW c, call' = [call EXCEPT ![t] = c], c.op = call[t].op,
               call[t].op \notin {"treeReview", "review", "edge"}
        PROVE  Alone(t) /\ Continues(t)
    <2>1. Alone(t) /\ pc'[t] = q /\ call'[t] = c /\ touch'[t] = touch[t]
      BY <1>3, GotoAlone
    <2>2. QED
      BY <1>1, <1>3, <2>1 DEF Continues
  <1>4. QED
    BY <1>2, <1>3

\* Every step is one thread's, which begins a request, continues or finishes it.
LEMMA BeginMoves ==
  ASSUME Types, NEW t \in Thread,
         \/ BeginRebuild(t) \/ FindTree(t) \/ BeginSweep(t) \/ BeginDrift(t) \/ BeginReview(t)
         \/ BeginEdge(t)
  PROVE  Alone(t) /\ Begins(t)
  <1> USE DEF DocumentOps
  <1>1. CASE BeginRebuild(t)
    BY <1>1, EnterBegins DEF BeginRebuild, Rebuild
  <1>2. CASE FindTree(t)
    BY <1>2, EnterBegins DEF FindTree
  <1>3. CASE BeginSweep(t)
    <2>1. PICK s, c : Enter(t, s, {Queue}, c) /\ c.op = "sweep" /\ s = "sweep"
      BY <1>3 DEF BeginSweep
    <2>2. QED
      BY <2>1, EnterBegins
  <1>4. CASE BeginDrift(t)
    BY <1>4, EnterBegins DEF BeginDrift
  <1>5. CASE BeginReview(t)
    <2>1. PICK c \in candidates, verdict \in {"accepted", "rejected"} :
            Enter(t, IF verdict = "accepted" THEN "checkEdge" ELSE "judge", {Triple(c)},
                  [op |-> "review", pair |-> PairOf(c), verdict |-> verdict])
      BY <1>5 DEF BeginReview
    <2>2. Triple(PairOf(c)) = Triple(c)
      BY DEF Triple, PairOf
    <2>3. (IF verdict = "accepted" THEN "checkEdge" ELSE "judge") # "idle"
      OBVIOUS
    <2>4. QED
      BY <2>1, <2>2, <2>3, EnterBegins
  <1>6. CASE BeginEdge(t)
    BY <1>6, EnterBegins DEF BeginEdge
  <1>7. QED
    BY <1>1, <1>2, <1>3, <1>4, <1>5, <1>6

LEMMA RebuildMoves ==
  ASSUME Types, Types', NEW t \in Thread, RebuildStep(t)
  PROVE  Alone(t) /\ (Continues(t) \/ Finishes(t))
  <1>1. \A p : pc[t] = p /\ p \in RebuildSteps => call[t].op = "rebuild"
    BY AtRebuild
  <1>2. \A p, q : Goto(t, p, q) /\ p # "idle" /\ q # "idle" /\ UNCHANGED call => Alone(t) /\ Continues(t)
    BY GotoContinues
  <1>3. ASSUME NEW p \in RebuildSteps, NEW q \in RebuildSteps, NEW c,
               Goto(t, p, q), call' = [call EXCEPT ![t] = c]
        PROVE  Alone(t) /\ Continues(t)
    <2>1. pc'[t] = q /\ call'[t] = c /\ pc[t] = p
      BY <1>3, GotoAlone DEF Goto
    <2>2. call[t].op = "rebuild" /\ c.op = "rebuild"
      BY <2>1, CallKinds DEF Types
    <2>3. p # "idle" /\ q # "idle"
      BY DEF RebuildSteps, Trying, Restoring
    <2>4. QED
      BY <1>3, <2>2, <2>3, GotoContinues
  <1>4. \A p : pc[t] = p /\ p # "idle" /\ (Leave(t) \/ \E whole : LeaveRestored(t, whole)) =>
           Alone(t) /\ Finishes(t)
    BY LeaveFinishes
  <1>5. CASE ReadRows(t) \/ ReadEdges(t) \/ InsertNode(t)
    BY <1>3, <1>5 DEF ReadRows, ReadEdges, InsertNode, RebuildSteps, Trying
  <1>6. CASE \/ SupersedeTrees(t) \/ SupersedeNodes(t) \/ WriteDocument(t) \/ InsertTree(t)
             \/ RestoreDocument(t) \/ RestoreTrees(t) \/ RestoreNodes(t) \/ InsertHints(t)
    BY <1>2, <1>6 DEF SupersedeTrees, SupersedeNodes, WriteDocument, InsertTree, RestoreDocument,
            RestoreTrees, RestoreNodes, InsertHints
  <1>7. CASE MapNodes(t)
    BY <1>3, <1>4, <1>7 DEF MapNodes, RebuildSteps, Trying
  <1>8. CASE CarryEdge(t)
    BY <1>3, <1>4, <1>8 DEF CarryEdge, RebuildSteps, Trying
  <1>9. CASE Fail(t)
    BY <1>9 DEF Fail, Types, Alone, Continues, Trying
  <1>10. CASE RestoreEdges(t) \/ RestoreReviewed(t)
    BY <1>2, <1>4, <1>10 DEF RestoreEdges, RestoreReviewed
  <1>11. QED
    BY <1>5, <1>6, <1>7, <1>8, <1>9, <1>10 DEF RebuildStep

LEMMA OtherMoves ==
  ASSUME Types, Types', NEW t \in Thread,
         \/ ReviewTree(t) \/ ReviewNodes(t) \/ Crash(t)
         \/ LookAround(t) \/ Foresee(t) \/ QueuePairs(t) \/ EndSweep(t)
         \/ CompareReport(t) \/ QueueReport(t)
         \/ CheckEdge(t) \/ InsertEdge(t) \/ Judge(t)
  PROVE  Alone(t) /\ (Continues(t) \/ Finishes(t))
  <1>1. \A p, q : Goto(t, p, q) /\ p # "idle" /\ q # "idle" /\ UNCHANGED call => Alone(t) /\ Continues(t)
    BY GotoContinues
  <1>2. ASSUME NEW p \in {"drift", "queueReport"}, NEW q \in {"drift", "queueReport"}, NEW c,
               Goto(t, p, q), call' = [call EXCEPT ![t] = c]
        PROVE  Alone(t) /\ Continues(t)
    <2>1. pc'[t] = q /\ call'[t] = c /\ pc[t] = p
      BY <1>2, GotoAlone DEF Goto
    <2>2. CallTypes(p, call[t]) /\ CallTypes(q, c)
      BY <2>1 DEF Types
    <2>3. call[t].op \in {"sweep", "drift"} /\ c.op = call[t].op
      BY <1>2, <2>2, CallKinds
    <2>4. p # "idle" /\ q # "idle" /\ call[t].op \notin {"treeReview", "review", "edge"}
      BY <1>2, <2>3
    <2>5. QED
      BY <1>2, <2>3, <2>4, GotoContinues
  <1>3. pc[t] # "idle" /\ Leave(t) => Alone(t) /\ Finishes(t)
    BY LeaveFinishes
  <1>4. CASE ReviewTree(t)
    BY <1>1, <1>4 DEF ReviewTree
  <1>5. CASE ReviewNodes(t)
    BY <1>3, <1>5 DEF ReviewNodes
  <1>6. CASE Crash(t)
    BY <1>6 DEF Crash, Types, Alone, Finishes
  <1>7. ASSUME NEW p \in {"sweep", "queue"}, NEW q \in {"sweep", "queue"}, NEW c,
               Goto(t, p, q), call' = [call EXCEPT ![t] = c]
        PROVE  Alone(t) /\ Continues(t)
    <2>1. pc'[t] = q /\ call'[t] = c /\ pc[t] = p
      BY <1>7, GotoAlone DEF Goto
    <2>2. CallTypes(p, call[t]) /\ CallTypes(q, c)
      BY <2>1 DEF Types
    <2>3. call[t].op \in {"sweep", "drift"} /\ c.op = call[t].op
      BY <1>7, <2>2, CallKinds
    <2>4. p # "idle" /\ q # "idle" /\ call[t].op \notin {"treeReview", "review", "edge"}
      BY <1>7, <2>3
    <2>5. QED
      BY <1>7, <2>3, <2>4, GotoContinues
  <1>8. CASE LookAround(t)
    <2>1. PICK v \in Verdicts(call[t], Fresh(call[t], Least(call[t].left))) :
            /\ Goto(t, "sweep", IF v.taken = {} THEN "sweep" ELSE "queue")
            /\ call' = [call EXCEPT ![t] = [call[t] EXCEPT !.left = @ \ {Least(call[t].left)},
                                                           !.docs = v.taken, !.deaf = v.deaf]]
      BY <1>8 DEF LookAround
    <2>2. QED
      BY <1>7, <2>1
  <1>9. CASE Foresee(t)
    <2>1. PICK c : Goto(t, "sweep", "sweep") /\ call' = [call EXCEPT ![t] = c]
      BY <1>9 DEF Foresee
    <2>2. QED
      BY <1>7, <2>1
  <1>10. CASE QueuePairs(t)
    <2>1. CASE Leave(t)
      BY <1>3, <1>10, <2>1 DEF QueuePairs
    <2>2. CASE ~ Leave(t)
      <3>1. PICK c : Goto(t, "queue", "sweep") /\ call' = [call EXCEPT ![t] = c]
        BY <1>10, <2>2 DEF QueuePairs
      <3>2. QED
        BY <1>7, <3>1
    <2>3. QED
      BY <2>1, <2>2
  <1>11. CASE EndSweep(t)
    BY <1>3, <1>11 DEF EndSweep
  <1>12. CASE CompareReport(t)
    <2> DEFINE d == [call[t] EXCEPT !.docs = {d \in call[t].left : ~Exists(d[2])}]
    <2>1. call' = [call EXCEPT ![t] = d]
      BY <1>12 DEF CompareReport, Types
    <2> HIDE DEF d
    <2>2. QED
      BY <1>2, <1>12, <2>1 DEF CompareReport
  <1>13. CASE QueueReport(t) \/ Judge(t)
    BY <1>3, <1>13 DEF QueueReport, Judge
  <1>14. CASE CheckEdge(t) \/ InsertEdge(t)
    BY <1>1, <1>3, <1>14 DEF CheckEdge, InsertEdge
  <1>15. QED
    BY <1>4, <1>5, <1>6, <1>8, <1>9, <1>10, <1>11, <1>12, <1>13, <1>14

LEMMA StepMoves ==
  ASSUME Types, Types', NEW t \in Thread, Step(t)
  PROVE  Alone(t) /\ (Begins(t) \/ Continues(t) \/ Finishes(t))
  BY BeginMoves, RebuildMoves, OtherMoves DEF Step, TreeStep, CandidateStep

-------------------------------------------------------------------------------
(* Who touches what *)

\* Two requests that touch one resource tear it: that survives every step.
LEMMA TouchesStep ==
  ASSUME Types, Types', Touches, NEW t \in Thread, Step(t)
  PROVE  Touches'
  <1>1. Alone(t) /\ (Begins(t) \/ Continues(t) \/ Finishes(t))
    BY StepMoves
  <1>2. call'[t].op \in {"none", "rebuild", "treeReview", "sweep", "drift", "review", "edge"}
    BY CallKinds DEF Types
  <1>3. NoCall.op = "none"
    BY DEF NoCall
  <1>4. \A a, b, c : Document # <<a, b, c>>
    BY DEF Document
  <1>5. Document # Queue
    BY DEF Document, Queue
  <1>6. CASE Begins(t)
    <2>1. pc'[t] # "idle" => call'[t].op # "none"
      BY CallKinds DEF Types
    <2>2. /\ call'[t].op \in DocumentOps => Document \in touch'[t]
          /\ call'[t].op \notin DocumentOps => Document \notin touch'[t]
          /\ call'[t].op = "review" => Triple(call'[t].pair) \in touch'[t]
      BY <1>2, <1>4, <1>5, <1>6, <2>1 DEF Begins, DocumentOps, Triple
    <2>3. \A u \in Thread \ {t} : touch'[t] \cap touch'[u] \subseteq torn'
      BY <1>1, <1>6 DEF Begins, Alone
    <2>4. torn \subseteq torn'
      BY <1>6 DEF Begins
    <2>5. QED
      BY <1>1, <2>2, <2>3, <2>4 DEF Touches, Alone
  <1>8. CASE Continues(t)
    <2>1. call'[t].op = "review" => call'[t] = call[t]
      BY <1>8 DEF Continues
    <2>2. QED
      BY <1>1, <1>8, <2>1 DEF Touches, Alone, Continues
  <1>9. CASE Finishes(t)
    <2>1. call'[t].op = "none" /\ "none" \notin DocumentOps
      BY <1>3, <1>9 DEF Finishes, DocumentOps
    <2>2. QED
      BY <1>1, <1>9, <2>1 DEF Touches, Alone, Finishes
  <1>13. QED
    BY <1>1, <1>6, <1>8, <1>9

-------------------------------------------------------------------------------
(* The queue of candidates *)

Queues(t) == QueuePairs(t) \/ QueueReport(t) \/ InsertEdge(t) \/ Judge(t)

\* Only four actions change the queue.
LEMMA QueueFrame ==
  ASSUME NEW t \in Thread, Step(t), ~ Queues(t)
  PROVE  UNCHANGED <<candidates, born>>
  BY DEF Step, TreeStep, CandidateStep, Queues, queueVars, storeVars, BeginSweep, LookAround, Foresee,
         EndSweep, BeginDrift, CompareReport, BeginReview, BeginEdge, CheckEdge

\* What the locals of a review, and the rows of the queue, are.
LEMMA ReviewsAre ==
  ASSUME Types, NEW t \in Thread
  PROVE  /\ call[t].op = "review" =>
              /\ call[t].pair \in PairRow /\ call[t].verdict \in {"accepted", "rejected"}
              /\ pc[t] \in {"checkEdge", "insertEdge", "judge"}
         /\ pc[t] = "judge" => call[t].op = "review"
  BY CallKinds DEF Types, ReviewCall

LEMMA CandidatesAre ==
  ASSUME Types
  PROVE  \A c \in candidates : /\ PairOf(c) \in PairRow /\ Triple(PairOf(c)) = Triple(c)
                               /\ c.status \in {"pending", "accepted", "rejected"}
  BY DEF Types, CandidateRow, PairRow, PairOf, Triple

\* A sweep and a report add pending rows, none of a pair that the queue has.
LEMMA Additions ==
  ASSUME Types, NEW t \in Thread, QueuePairs(t) \/ QueueReport(t)
  PROVE  \E S \in SUBSET PairRow :
            /\ candidates' = candidates \cup {Pending(p) : p \in S}
            /\ \A p \in S : ~ Taken(p)
  <1>1. CASE QueuePairs(t)
    <2>1. SweepCall(call[t])
      BY <1>1, CallKinds DEF QueuePairs, Types
    <2>2. call[t].docs \subseteq PairRow
      BY <2>1 DEF SweepCall
    <2>3. \A p \in PairRow : ~ Before(p.dst, p.dst)
      BY TreesAssumption DEF PairRow, Node, Tree, Before, Width
    <2>4. \A p \in Inserted(call[t].docs) : p \in PairRow /\ ~ Taken(p)
      BY <2>2, <2>3 DEF Inserted
    <2>5. candidates' = candidates \cup {Pending(p) : p \in Inserted(call[t].docs)}
      BY <1>1 DEF QueuePairs
    <2>6. QED
      BY <2>4, <2>5
  <1>2. CASE QueueReport(t)
    <2> DEFINE docs == call[t].docs
               Repeated(d) == Taken(d[2]) \/ \E e \in docs : e[1] < d[1] /\ e[2] = d[2]
               kept == {d \in docs : \A e \in docs : Repeated(e) => d[1] < e[1]}
               S == {d[2] : d \in kept}
    <2>1. call[t] \in DriftCall
      BY <1>2, CallKinds DEF QueueReport, Types
    <2>2. \A d \in docs : d[1] \in Nat /\ d[2] \in PairRow
      BY <2>1 DEF DriftCall
    <2>3. candidates' = candidates \cup {Pending(d[2]) : d \in kept}
      BY <1>2 DEF QueueReport
    <2>4. \A d \in kept : ~ Taken(d[2])
      <3>1. \A d \in docs : ~ (d[1] < d[1])
        BY <2>2
      <3>2. QED
        BY <3>1
    <2>5. {Pending(d[2]) : d \in kept} = {Pending(p) : p \in S}
      OBVIOUS
    <2>6. S \in SUBSET PairRow
      BY <2>2
    <2>7. QED
      BY <2>3, <2>4, <2>5, <2>6
  <1>3. QED
    BY <1>1, <1>2

\* A pending row is of the pair it was made for.
LEMMA PendingIs ==
  ASSUME NEW p \in PairRow
  PROVE  /\ PairOf(Pending(p)) = p /\ Pending(p).status = "pending" /\ Triple(Pending(p)) = Triple(p)
  BY DEF PairOf, Pending, PairRow, Triple

\* A verdict changes the status of the rows of its pair and nothing else.
LEMMA JudgedAre ==
  ASSUME Types, NEW t \in Thread, Judge(t), NEW c \in candidates
  PROVE  LET d == IF PairOf(c) = call[t].pair THEN [c EXCEPT !.status = call[t].verdict] ELSE c
         IN  /\ PairOf(d) = PairOf(c) /\ Triple(d) = Triple(c) /\ d \in candidates'
             /\ d.status = IF PairOf(c) = call[t].pair THEN call[t].verdict ELSE c.status
  <1>1. c \in CandidateRow
    BY DEF Types
  <1>2. QED
    BY <1>1 DEF CandidateRow, Judge, PairOf, Triple

LEMMA JudgedOnly ==
  ASSUME NEW t \in Thread, Judge(t), NEW d \in candidates'
  PROVE  \E c \in candidates :
            d = IF PairOf(c) = call[t].pair THEN [c EXCEPT !.status = call[t].verdict] ELSE c
  BY DEF Judge

\* Only BeginReview begins a review.
LEMMA OtherBegins ==
  ASSUME Types, Types', NEW t \in Thread, Step(t), ~ BeginReview(t), ~ Continues(t), ~ Finishes(t)
  PROVE  call'[t].op # "review"
  <1>1. BeginRebuild(t) \/ FindTree(t) \/ BeginSweep(t) \/ BeginDrift(t) \/ BeginEdge(t)
    BY RebuildMoves, OtherMoves DEF Step, TreeStep, CandidateStep
  <1>2. CASE BeginRebuild(t)
    BY <1>2, EnterAlone DEF BeginRebuild, Rebuild
  <1>3. CASE FindTree(t)
    BY <1>3, EnterAlone DEF FindTree
  <1>4. CASE BeginSweep(t)
    <2>1. PICK s, r, c : Enter(t, s, r, c) /\ c.op = "sweep"
      BY <1>4 DEF BeginSweep
    <2>2. QED
      BY <2>1, EnterAlone
  <1>5. CASE BeginDrift(t)
    <2>1. PICK s, r, c : Enter(t, s, r, c) /\ c.op = "drift"
      BY <1>5 DEF BeginDrift
    <2>2. QED
      BY <2>1, EnterAlone
  <1>6. CASE BeginEdge(t)
    BY <1>6, EnterAlone DEF BeginEdge
  <1>7. QED
    BY <1>1, <1>2, <1>3, <1>4, <1>5, <1>6

\* A pair has one row, and a review is of a pair in the queue: that survives every step.
LEMMA QueuedStep ==
  ASSUME Types, Types', Queued, NEW t \in Thread, Step(t)
  PROVE  Queued'
  <1>1. Alone(t) /\ (Begins(t) \/ Continues(t) \/ Finishes(t))
    BY StepMoves
  <1>2. call'[t].op = "review" => call'[t].pair \in Reviewed
    <2>1. CASE BeginReview(t)
      <3>1. PICK c \in candidates, verdict \in {"accepted", "rejected"} :
              Enter(t, IF verdict = "accepted" THEN "checkEdge" ELSE "judge", {Triple(c)},
                    [op |-> "review", pair |-> PairOf(c), verdict |-> verdict])
        BY <2>1 DEF BeginReview
      <3>2. call'[t].pair = PairOf(c)
        BY <3>1, EnterAlone
      <3>3. QED
        BY <3>2 DEF Reviewed
    <2>2. CASE ~ BeginReview(t) /\ ~ Continues(t) /\ ~ Finishes(t)
      BY <2>2, OtherBegins
    <2>3. CASE Continues(t)
      BY <2>3 DEF Continues, Queued
    <2>4. CASE Finishes(t)
      BY <2>4 DEF Finishes, NoCall
    <2>5. QED
      BY <1>1, <2>1, <2>2, <2>3, <2>4
  <1>3. \A u \in Thread : call'[u].op = "review" => call'[u].pair \in Reviewed
    BY <1>1, <1>2 DEF Alone, Queued
  <1>4. CASE ~ Queues(t)
    BY <1>3, <1>4, QueueFrame DEF Queued, Reviewed
  <1>5. CASE QueuePairs(t) \/ QueueReport(t)
    <2>1. PICK S \in SUBSET PairRow :
            /\ candidates' = candidates \cup {Pending(p) : p \in S}
            /\ \A p \in S : ~ Taken(p)
      BY <1>5, Additions
    <2>2. Reviewed \subseteq Reviewed'
      BY <2>1 DEF Reviewed
    <2>3. born' = born
      BY <1>5 DEF QueuePairs, QueueReport
    <2>4. \A c, d \in candidates' : PairOf(c) = PairOf(d) => c = d
      <3>1. \A p \in S : PairOf(Pending(p)) = p /\ \A c \in candidates : PairOf(c) # p
        BY <2>1, PendingIs DEF Taken
      <3>2. QED
        BY <2>1, <3>1 DEF Queued
    <2>5. QED
      BY <1>3, <2>2, <2>3, <2>4 DEF Queued
  <1>6. CASE InsertEdge(t)
    <2>1. candidates' = candidates /\ born' \subseteq born \cup (IF call[t].op = "review" THEN {call[t].pair} ELSE {})
      BY <1>6 DEF InsertEdge
    <2>2. QED
      BY <1>3, <2>1 DEF Queued, Reviewed
  <1>7. CASE Judge(t)
    <2>1. Reviewed \subseteq Reviewed'
      <3>1. SUFFICES ASSUME NEW c \in candidates PROVE PairOf(c) \in Reviewed'
        BY DEF Reviewed
      <3>2. QED
        BY <1>7, JudgedAre DEF Reviewed
    <2>2. born' = born
      BY <1>7 DEF Judge
    <2>3. ASSUME NEW d \in candidates', NEW e \in candidates', PairOf(d) = PairOf(e)
          PROVE  d = e
      <3>1. PICK c \in candidates :
              d = IF PairOf(c) = call[t].pair THEN [c EXCEPT !.status = call[t].verdict] ELSE c
        BY <1>7, JudgedOnly
      <3>2. PICK f \in candidates :
              e = IF PairOf(f) = call[t].pair THEN [f EXCEPT !.status = call[t].verdict] ELSE f
        BY <1>7, JudgedOnly
      <3>3. PairOf(d) = PairOf(c) /\ PairOf(e) = PairOf(f)
        BY <1>7, <3>1, <3>2, JudgedAre
      <3>4. c = f
        BY <2>3, <3>3 DEF Queued
      <3>5. QED
        BY <3>1, <3>2, <3>4
    <2>4. QED
      BY <1>3, <2>1, <2>2, <2>3 DEF Queued
  <1>8. QED
    BY <1>4, <1>5, <1>6, <1>7 DEF Queues

-------------------------------------------------------------------------------
(* Verdicts *)

\* A thread takes up a review when it begins one, and no other step is of a review.
LEMMA ReviewSteps ==
  ASSUME Types, Types', NEW t \in Thread, Step(t)
  PROVE  /\ call[t].op = "review" => CheckEdge(t) \/ InsertEdge(t) \/ Judge(t) \/ Crash(t)
         /\ call'[t].op = "review" /\ call[t].op # "review" => BeginReview(t)
  <1>1. Begins(t) \/ Continues(t) \/ Finishes(t)
    BY StepMoves
  <1>2. ASSUME call[t].op = "review", ~ (CheckEdge(t) \/ InsertEdge(t) \/ Judge(t) \/ Crash(t))
        PROVE  FALSE
    <2>1. pc[t] \in {"checkEdge", "insertEdge", "judge"}
      BY <1>2, ReviewsAre
    <2>2. ~ Begins(t)
      BY <2>1 DEF Begins
    <2>3. ~ (BeginRebuild(t) \/ FindTree(t) \/ BeginSweep(t) \/ BeginDrift(t) \/ BeginReview(t)
             \/ BeginEdge(t))
      BY <2>2, BeginMoves
    <2>4. pc[t] \notin Trying
      BY <2>1 DEF Trying
    <2>5. ~ RebuildStep(t)
      BY <2>1, <2>4 DEF RebuildStep, ReadRows, ReadEdges, SupersedeTrees, SupersedeNodes, WriteDocument,
           InsertTree, InsertNode, InsertHints, MapNodes, CarryEdge, Fail, RestoreDocument, RestoreTrees,
           RestoreNodes, RestoreEdges, RestoreReviewed, Goto
    <2>6. QED
      BY <1>2, <2>1, <2>3, <2>5 DEF Step, TreeStep, CandidateStep, ReviewTree, ReviewNodes, LookAround,
           Foresee, QueuePairs, EndSweep, CompareReport, QueueReport, Goto
  <1>3. ASSUME call'[t].op = "review", call[t].op # "review", ~ BeginReview(t)
        PROVE  FALSE
    <2>1. ~ Continues(t) /\ ~ Finishes(t)
      BY <1>3 DEF Continues, Finishes, NoCall
    <2>2. QED
      BY <1>3, <2>1, OtherBegins
  <1>4. QED
    BY <1>2, <1>3

\* What is torn stays torn.
LEMMA TornGrows ==
  ASSUME Types, Types', NEW t \in Thread, Step(t)
  PROVE  torn \subseteq torn'
  BY StepMoves DEF Begins, Continues, Finishes

\* Two reviews of one candidate tear it.
LEMMA OneReview ==
  ASSUME Touches, NEW t \in Thread, NEW u \in Thread, t # u, call[t].op = "review",
         call[u].op = "review", Triple(call[t].pair) \notin torn
  PROVE  call[t].pair # call[u].pair
  BY DEF Touches

\* A pair is its triple.
LEMMA PairsAreTriples ==
  ASSUME NEW p \in PairRow, NEW q \in PairRow, Triple(p) = Triple(q)
  PROVE  p = q
  BY DEF PairRow, Triple

\* A step that judges no candidate and leaves the reviews where they are.
Calm(t) ==
    /\ UNCHANGED <<candidates, born>>
    /\ \A p : Accepts(pc'[t], call'[t], p) <=> Accepts(pc[t], call[t], p)
    /\ call'[t].op = "review" =>
         call[t].op = "review" /\ call'[t] = call[t] /\ (pc[t] = "judge" => pc'[t] = "judge")

\* Judged survives the steps at which no pair is judged, queued or made an edge of.
LEMMA JudgedCalm ==
  ASSUME Judged, NEW t \in Thread, Alone(t), Calm(t), torn \subseteq torn'
  PROVE  Judged'
  <1>1. \A u \in Thread : \A p : Accepts(pc'[u], call'[u], p) <=> Accepts(pc[u], call[u], p)
    BY DEF Alone, Calm
  <1>2. \A u \in Thread : call'[u].op = "review" =>
            call[u].op = "review" /\ call'[u] = call[u] /\ (pc[u] = "judge" => pc'[u] = "judge")
    BY DEF Alone, Calm
  <1>3. candidates' = candidates /\ born' = born
    BY DEF Calm
  <1> QED
    BY <1>1, <1>2, <1>3 DEF Judged, PairOf, Triple

\* Judged survives every step.
LEMMA JudgedStep ==
  ASSUME Types, Types', Queued, Queued', Touches, Touches', Judged, NEW t \in Thread, Step(t)
  PROVE  Judged'
  <1> DEFINE p == call[t].pair
  <1>1. Alone(t) /\ (Begins(t) \/ Continues(t) \/ Finishes(t)) /\ torn \subseteq torn'
    BY StepMoves, TornGrows
  <1>2. \A s, c, q : Accepts(s, c, q) => s = "judge" /\ c.op = "review" /\ c.pair = q
    BY DEF Accepts
  <1>3. \A u \in Thread \ {t} : \A q : Accepts(pc'[u], call'[u], q) <=> Accepts(pc[u], call[u], q)
    BY <1>1 DEF Alone
  <1>4. \A u \in Thread : call[u].op = "review" =>
          /\ call[u].pair \in PairRow /\ call[u].verdict \in {"accepted", "rejected"}
          /\ pc[u] \in {"checkEdge", "insertEdge", "judge"}
    BY ReviewsAre
  <1>5. \A u \in Thread \ {t} : call[t].op = "review" /\ call[u].op = "review" /\ Triple(p) \notin torn =>
          call[u].pair # p
    BY OneReview
  <1>6. ~ Queues(t) => candidates' = candidates /\ born' = born
    BY QueueFrame
  <1>7. CASE call[t].op # "review" /\ call'[t].op # "review" /\ ~ (QueuePairs(t) \/ QueueReport(t))
    <2>1. ~ Judge(t) /\ (InsertEdge(t) => UNCHANGED <<candidates, born>>)
      BY <1>7, ReviewsAre DEF Judge, InsertEdge
    <2>2. Calm(t)
      BY <1>2, <1>6, <1>7, <2>1 DEF Calm, Queues
    <2>3. QED
      BY <1>1, <2>2, JudgedCalm
  <1>8. CASE QueuePairs(t) \/ QueueReport(t)
    <2>1. PICK S \in SUBSET PairRow :
            /\ candidates' = candidates \cup {Pending(q) : q \in S}
            /\ \A q \in S : ~ Taken(q)
      BY <1>8, Additions
    <2>2. call[t].op # "review" /\ call'[t].op # "review" /\ born' = born
      <3>1. call[t].op # "review"
        BY <1>4, <1>8 DEF QueuePairs, QueueReport
      <3>2. ~ BeginReview(t)
        BY <1>1, <1>8, BeginMoves DEF Begins, QueuePairs, QueueReport
      <3>3. QED
        BY <1>8, <3>1, <3>2, ReviewSteps DEF QueuePairs, QueueReport
    <2>3. \A q \in S : q \notin Reviewed
      BY <2>1 DEF Taken, Reviewed
    <2>4. \A q \in S : /\ q \notin born
                       /\ \A u \in Thread : call[u].op = "review" => call[u].pair # q
      BY <2>3 DEF Queued
    <2>5. \A q \in S : PairOf(Pending(q)) = q /\ Pending(q).status = "pending" /\ Triple(Pending(q)) = Triple(q)
      BY PendingIs
    <2>6. \A u \in Thread : \A q : Accepts(pc'[u], call'[u], q) <=> Accepts(pc[u], call[u], q)
      BY <1>2, <1>3, <2>2
    <2>7. \A u \in Thread : call'[u].op = "review" =>
              call[u].op = "review" /\ call'[u] = call[u] /\ pc[u] = pc'[u]
      BY <1>1, <2>2 DEF Alone
    <2>8. \A c \in candidates' : c \notin candidates =>
              /\ c.status = "pending" /\ PairOf(c) \notin born
              /\ \A u \in Thread : call[u].op = "review" => call[u].pair # PairOf(c)
      <3>1. TAKE c \in candidates'
      <3>2. CASE c \notin candidates
        <4>1. PICK q \in S : c = Pending(q)
          BY <2>1, <3>2
        <4>2. QED
          BY <2>4, <2>5, <4>1
      <3>3. QED
        BY <3>2
    <2>9. \A c \in candidates' : Triple(c) \notin torn' =>
            /\ c.status = "accepted" => PairOf(c) \in born
            /\ c.status = "rejected" => PairOf(c) \notin born
            /\ c.status = "pending" /\ PairOf(c) \in born => \E u \in Thread : Accepts(pc'[u], call'[u], PairOf(c))
      <3>1. TAKE c \in candidates'
      <3>2. CASE c \in candidates
        BY <1>1, <2>6, <3>2 DEF Judged
      <3>3. CASE c \notin candidates
        BY <2>8, <3>3
      <3>4. QED
        BY <3>2, <3>3
    <2>10. \A u \in Thread : call'[u].op = "review" =>
             /\ call'[u].verdict = "rejected" => pc'[u] = "judge"
             /\ Triple(call'[u].pair) \notin torn' =>
                  /\ call'[u].pair \in born <=> Accepts(pc'[u], call'[u], call'[u].pair)
                  /\ \A c \in candidates' : PairOf(c) = call'[u].pair => c.status = "pending"
      BY <1>1, <2>6, <2>7, <2>8 DEF Judged
    <2>11. QED
      BY <2>2, <2>9, <2>10 DEF Judged, PairOf, Triple
  <1>9. CASE BeginReview(t)
    <2>1. PICK c0 \in candidates, verdict \in {"accepted", "rejected"} :
            /\ c0.status = "pending"
            /\ Enter(t, IF verdict = "accepted" THEN "checkEdge" ELSE "judge", {Triple(c0)},
                     [op |-> "review", pair |-> PairOf(c0), verdict |-> verdict])
      BY <1>9 DEF BeginReview
    <2>2. /\ call'[t].op = "review" /\ call'[t].pair = PairOf(c0) /\ call'[t].verdict = verdict
          /\ pc'[t] = IF verdict = "accepted" THEN "checkEdge" ELSE "judge"
          /\ touch'[t] = {Triple(c0)}
      BY <2>1, EnterAlone
    <2>3. pc[t] = "idle"
      BY <2>1 DEF Enter, Busy
    <2>4. candidates' = candidates /\ born' = born
      BY <1>9 DEF BeginReview, queueVars
    <2>5. \A u \in Thread : \A q : Accepts(pc'[u], call'[u], q) <=> Accepts(pc[u], call[u], q)
      BY <1>3, <2>2, <2>3 DEF Accepts
    <2>6. \A c \in candidates : PairOf(c) = PairOf(c0) => c.status = "pending"
      BY <2>1 DEF Queued
    <2>7. Triple(PairOf(c0)) \notin torn' => PairOf(c0) \notin born
      <3>1. SUFFICES ASSUME Triple(c0) \notin torn', PairOf(c0) \in born PROVE FALSE
        BY CandidatesAre
      <3>2. PICK u \in Thread : Accepts(pc[u], call[u], PairOf(c0))
        BY <1>1, <2>1, <3>1 DEF Judged
      <3>3. u # t /\ call'[u].op = "review" /\ call'[u].pair = PairOf(c0)
        BY <1>1, <2>3, <3>2 DEF Accepts, Alone
      <3>4. Triple(c0) \in touch'[u]
        BY <3>3, CandidatesAre DEF Touches
      <3>5. QED
        BY <2>2, <3>1, <3>3, <3>4 DEF Touches
    <2>8. ~ Accepts(pc'[t], call'[t], PairOf(c0))
      BY <1>2, <2>3, <2>5
    <2>9. \A u \in Thread \ {t} : call'[u] = call[u] /\ pc'[u] = pc[u]
      BY <1>1 DEF Alone
    <2>10. ASSUME NEW u \in Thread, call'[u].op = "review"
           PROVE  /\ call'[u].verdict = "rejected" => pc'[u] = "judge"
                  /\ Triple(call'[u].pair) \notin torn' =>
                      /\ call'[u].pair \in born <=> Accepts(pc'[u], call'[u], call'[u].pair)
                      /\ \A c \in candidates : PairOf(c) = call'[u].pair => c.status = "pending"
      <3>1. CASE u = t
        BY <2>2, <2>6, <2>7, <2>8, <3>1
      <3>2. CASE u # t
        BY <1>1, <2>5, <2>9, <2>10, <3>2 DEF Judged
      <3>3. QED
        BY <3>1, <3>2
    <2>11. \A c \in candidates : Triple(c) \notin torn' =>
            /\ c.status = "accepted" => PairOf(c) \in born
            /\ c.status = "rejected" => PairOf(c) \notin born
            /\ c.status = "pending" /\ PairOf(c) \in born => \E u \in Thread : Accepts(pc'[u], call'[u], PairOf(c))
      BY <1>1, <2>5 DEF Judged
    <2>12. QED
      BY <2>4, <2>10, <2>11 DEF Judged, PairOf, Triple
  <1>10. CASE call[t].op = "review" /\ CheckEdge(t)
    <2>1. candidates' = candidates /\ born' = born /\ pc[t] = "checkEdge"
      BY <1>10 DEF CheckEdge, queueVars
    <2>2. call'[t].op = "review" => call'[t] = call[t] /\ pc'[t] # "judge"
      <3>1. pc'[t] # "judge"
        BY <1>10 DEF CheckEdge, Leave, Goto, Types
      <3>2. QED
        BY <1>1, <1>10, <3>1 DEF Begins, Continues, Finishes, NoCall
    <2>3. Calm(t)
      BY <1>2, <1>10, <2>1, <2>2 DEF Calm
    <2>4. QED
      BY <1>1, <2>3, JudgedCalm
  <1>11. CASE call[t].op = "review" /\ InsertEdge(t)
    <2>1. candidates' = candidates /\ pc[t] = "insertEdge" /\ Triple(p) \in touch[t]
      BY <1>11 DEF InsertEdge, Touches
    <2>2. CASE Present(p)
      <3>1. call'[t] = NoCall /\ born' = born
        BY <1>11, <2>2, LeaveAlone DEF InsertEdge
      <3>2. Calm(t)
        BY <1>2, <2>1, <3>1 DEF Calm, NoCall
      <3>3. QED
        BY <1>1, <3>2, JudgedCalm
    <2>3. CASE ~ Present(p)
      <3>1. born' = born \cup {p} /\ call'[t] = call[t] /\ pc'[t] = "judge" /\ torn' = torn
        BY <1>11, <2>3, GotoAlone DEF InsertEdge, Goto
      <3>2. call[t].verdict = "accepted"
        BY <1>4, <1>11, <2>1 DEF Judged
      <3>3. Accepts(pc'[t], call'[t], p)
        BY <1>11, <3>1, <3>2 DEF Accepts
      <3>4. \A u \in Thread : \A q : q # p => (Accepts(pc'[u], call'[u], q) <=> Accepts(pc[u], call[u], q))
        BY <1>2, <1>3, <2>1, <3>1
      <3>5. ASSUME NEW c \in candidates, Triple(c) \notin torn'
            PROVE  /\ c.status = "accepted" => PairOf(c) \in born'
                   /\ c.status = "rejected" => PairOf(c) \notin born'
                   /\ c.status = "pending" /\ PairOf(c) \in born' =>
                        \E u \in Thread : Accepts(pc'[u], call'[u], PairOf(c))
        <4>1. CASE PairOf(c) = p
          <5>1. Triple(p) \notin torn
            BY <3>1, <3>5, <4>1, CandidatesAre
          <5>2. c.status = "pending"
            BY <1>11, <4>1, <5>1 DEF Judged
          <5>3. QED
            BY <3>3, <4>1, <5>2
        <4>2. CASE PairOf(c) # p
          BY <3>1, <3>4, <3>5, <4>2 DEF Judged
        <4>3. QED
          BY <4>1, <4>2
      <3>6. ASSUME NEW u \in Thread, call'[u].op = "review"
            PROVE  /\ call'[u].verdict = "rejected" => pc'[u] = "judge"
                   /\ Triple(call'[u].pair) \notin torn' =>
                        /\ call'[u].pair \in born' <=> Accepts(pc'[u], call'[u], call'[u].pair)
                        /\ \A c \in candidates : PairOf(c) = call'[u].pair => c.status = "pending"
        <4>1. CASE u = t
          BY <1>11, <3>1, <3>3, <4>1 DEF Judged
        <4>2. CASE u # t
          <5>1. call'[u] = call[u] /\ pc'[u] = pc[u]
            BY <1>1, <4>2 DEF Alone
          <5>2. Triple(call[u].pair) \notin torn => call[u].pair # p
            BY <1>5, <1>11, <3>6, <4>2, <5>1
          <5>3. QED
            BY <3>1, <3>4, <3>6, <5>1, <5>2 DEF Judged
        <4>3. QED
          BY <4>1, <4>2
      <3>7. QED
        BY <2>1, <3>5, <3>6 DEF Judged, PairOf, Triple
    <2>4. QED
      BY <2>2, <2>3
  <1>12. CASE call[t].op = "review" /\ (Judge(t) \/ Crash(t)) /\ ~ InsertEdge(t)
    <2>1. call'[t] = NoCall /\ born' = born
      <3>1. CASE Judge(t)
        BY <3>1, LeaveAlone DEF Judge
      <3>2. CASE Crash(t) /\ ~ Judge(t)
        <4>1. ~ Queues(t)
          BY <1>4, <1>12, <3>2 DEF Queues, QueuePairs, QueueReport
        <4>2. QED
          BY <1>6, <3>2, <4>1 DEF Crash, Types
      <3>3. QED
        BY <1>12, <3>1, <3>2
    <2>2. NoCall.op # "review"
      BY DEF NoCall
    <2>3. \A u \in Thread : call'[u].op = "review" => u # t /\ call'[u] = call[u] /\ pc'[u] = pc[u]
      BY <1>1, <2>1, <2>2 DEF Alone
    <2>4. \A q : q # p => \A u \in Thread : Accepts(pc[u], call[u], q) => Accepts(pc'[u], call'[u], q)
      BY <1>2, <1>3
    <2>5. CASE Crash(t) /\ ~ Judge(t)
      <3>1. candidates' = candidates
        BY <1>4, <1>6, <1>12, <2>5 DEF Queues, QueuePairs, QueueReport
      <3>2. Triple(p) \in torn'
        BY <1>12, <2>5 DEF Crash, Touches
      <3>3. \A c \in candidates : Triple(c) \notin torn' => PairOf(c) # p
        BY <3>2, CandidatesAre
      <3>4. \A c \in candidates : Triple(c) \notin torn' =>
              /\ c.status = "accepted" => PairOf(c) \in born
              /\ c.status = "rejected" => PairOf(c) \notin born
              /\ c.status = "pending" /\ PairOf(c) \in born =>
                   \E u \in Thread : Accepts(pc'[u], call'[u], PairOf(c))
        BY <1>1, <2>4, <3>3 DEF Judged
      <3>5. \A u \in Thread : call'[u].op = "review" =>
              /\ call'[u].verdict = "rejected" => pc'[u] = "judge"
              /\ Triple(call'[u].pair) \notin torn' =>
                   /\ call'[u].pair \in born <=> Accepts(pc'[u], call'[u], call'[u].pair)
                   /\ \A c \in candidates : PairOf(c) = call'[u].pair => c.status = "pending"
        BY <1>1, <2>3 DEF Judged
      <3>6. QED
        BY <2>1, <3>1, <3>4, <3>5 DEF Judged, PairOf, Triple
    <2>6. CASE Judge(t)
      <3>1. torn' = torn /\ pc[t] = "judge"
        BY <2>6 DEF Judge, Leave
      <3>2. Triple(p) \notin torn => (p \in born <=> call[t].verdict = "accepted")
        BY <1>4, <1>12, <3>1 DEF Judged, Accepts
      <3>3. ASSUME NEW d \in candidates', Triple(d) \notin torn'
            PROVE  /\ d.status = "accepted" => PairOf(d) \in born
                   /\ d.status = "rejected" => PairOf(d) \notin born
                   /\ d.status = "pending" /\ PairOf(d) \in born =>
                        \E u \in Thread : Accepts(pc'[u], call'[u], PairOf(d))
        <4>1. PICK c \in candidates :
                d = IF PairOf(c) = p THEN [c EXCEPT !.status = call[t].verdict] ELSE c
          BY <2>6, JudgedOnly
        <4>2. /\ PairOf(d) = PairOf(c) /\ Triple(d) = Triple(c)
              /\ d.status = IF PairOf(c) = p THEN call[t].verdict ELSE c.status
          BY <2>6, <4>1, JudgedAre
        <4>3. CASE PairOf(c) = p
          <5>1. Triple(p) \notin torn
            BY <3>1, <3>3, <4>2, <4>3, CandidatesAre
          <5>2. QED
            BY <1>4, <1>12, <3>2, <4>2, <4>3, <5>1
        <4>4. CASE PairOf(c) # p
          BY <2>4, <3>1, <3>3, <4>2, <4>4 DEF Judged
        <4>5. QED
          BY <4>3, <4>4
      <3>4. ASSUME NEW u \in Thread, call'[u].op = "review"
            PROVE  /\ call'[u].verdict = "rejected" => pc'[u] = "judge"
                   /\ Triple(call'[u].pair) \notin torn' =>
                        /\ call'[u].pair \in born <=> Accepts(pc'[u], call'[u], call'[u].pair)
                        /\ \A d \in candidates' : PairOf(d) = call'[u].pair => d.status = "pending"
        <4>1. u # t /\ call'[u] = call[u] /\ pc'[u] = pc[u]
          BY <2>3, <3>4
        <4>2. ASSUME NEW d \in candidates', PairOf(d) = call[u].pair, Triple(call[u].pair) \notin torn
              PROVE  d.status = "pending"
          <5>1. PICK c \in candidates :
                  d = IF PairOf(c) = p THEN [c EXCEPT !.status = call[t].verdict] ELSE c
            BY <2>6, JudgedOnly
          <5>2. PairOf(d) = PairOf(c)
            BY <2>6, <5>1, JudgedAre
          <5>3. Triple(p) \notin torn => call[u].pair # p
            BY <1>5, <1>12, <3>4, <4>1
          <5>4. PairOf(c) # p /\ d = c
            BY <4>2, <5>1, <5>2, <5>3
          <5>5. QED
            BY <3>4, <4>1, <4>2, <5>4 DEF Judged
        <4>3. QED
          BY <3>1, <3>4, <4>1, <4>2 DEF Judged
      <3>5. QED
        BY <2>1, <3>3, <3>4 DEF Judged, PairOf, Triple
    <2>7. QED
      BY <1>12, <2>5, <2>6
  <1>13. QED
    BY <1>7, <1>8, <1>9, <1>10, <1>11, <1>12, ReviewSteps

\* The verdicts have their effect.
LEMMA JudgedHolds == Types /\ Judged => VerdictsHaveEffect
  BY DEF Judged, VerdictsHaveEffect

-------------------------------------------------------------------------------
(* Layouts *)

\* What the locals of each kind of request are.
LEMMA CallsAre ==
  ASSUME Types, NEW u \in Thread
  PROVE  /\ call[u].op = "rebuild" =>
              /\ call[u].new \in Version /\ pc[u] \in RebuildSteps
              /\ call[u].edges \subseteq EdgeRow /\ call[u].reviewed \subseteq EdgeRow
         /\ call[u].op = "treeReview" =>
              /\ call[u].tree \in Version /\ call[u].verdict \in {"active", "rejected"}
              /\ pc[u] \in {"reviewTree", "reviewNodes"}
         /\ pc[u] \in {"checkEdge", "insertEdge"} => call[u].pair \in PairRow
  <1>1. CallTypes(pc[u], call[u])
    BY DEF Types
  <1>2. call[u].op = "rebuild" => call[u] \in RebuildCall /\ pc[u] \in RebuildSteps
    BY <1>1, CallKinds
  <1>3. call[u].op = "treeReview" => call[u] \in TreeReviewCall /\ pc[u] \in {"reviewTree", "reviewNodes"}
    BY <1>1, CallKinds
  <1>4. pc[u] \in {"checkEdge", "insertEdge"} => call[u] \in ReviewCall \/ call[u] \in EdgeCall
    BY <1>1, CallKinds
  <1>5. QED
    BY <1>2, <1>3, <1>4 DEF RebuildCall, TreeReviewCall, ReviewCall, EdgeCall

\* Trees and identifiers are numbers.
LEMMA Numbers ==
  ASSUME Types
  PROVE  /\ made \in Nat /\ made \in Version /\ minted \in Nat
         /\ Version \subseteq Tree /\ 0 \in Tree /\ 0 \notin Version /\ Tree \subseteq Nat
         /\ \A e \in EdgeRow : e.id \in Nat
  BY TreesAssumption DEF Types, Version, Tree, EdgeRow

\* A rebuild that does not move keeps what it has read when trees are added.
LEMMA LaidStays ==
  ASSUME Types, Types', Layered, NEW u \in Thread, call[u].op = "rebuild",
         call'[u] = call[u], pc'[u] = pc[u], made <= made',
         \A n \in Node : Laid(n) => Laid(n)',
         \A i \in Tree : layout[i] # <<>> => layout'[i] # <<>>,
         layout'[call[u].new] = layout[call[u].new]
  PROVE  RebuildLaid(pc[u], call[u])'
  <1> DEFINE c == call[u]
             p == pc[u]
  <1>1. c \in RebuildCall
    BY CallKinds DEF Types
  <1>2. /\ c.new \in Nat /\ c.edges \subseteq EdgeRow /\ c.reviewed \subseteq EdgeRow
        /\ c.map \subseteq Node \X Node
    BY <1>1 DEF RebuildCall, Version
  <1>3. RebuildLaid(p, c)
    BY DEF Layered
  <1>4. \A es \in SUBSET EdgeRow : EndsLaid(es) => EndsLaid(es)'
    BY DEF EndsLaid, EdgeRow
  <1>5. \A q \in c.map : q[2] \in Node
    BY <1>2
  <1>a. made \in Nat /\ made' \in Nat
    BY TreesAssumption DEF Types, Version
  <1>6. c.new <= made'
    BY <1>2, <1>3, <1>a DEF RebuildLaid
  <1> HIDE DEF c, p
  <1>7. call'[u] = c /\ pc'[u] = p /\ layout'[c.new] = layout[c.new]
    BY DEF c, p
  <1> QED
    BY <1>2, <1>3, <1>4, <1>5, <1>6, <1>7 DEF RebuildLaid

\* What a step of a thread has to keep.
LEMMA LayeredKeeps ==
  ASSUME Types, Types', Layered, NEW t \in Thread, Alone(t), made <= made',
         \A i \in Tree : \/ layout'[i] = layout[i]
                         \/ /\ layout[i] = <<>> /\ layout'[i] # <<>>
                            /\ call[t].op = "rebuild" /\ i = call[t].new,
         tree'[0] = "active",
         \A n \in Node : n[1] = 0 => row'[n] = row[n],
         \A i \in Tree : tree'[i] # "absent" \/ i \in shown' => layout'[i] # <<>>,
         \A n \in Node : row'[n] # "absent" => Laid(n)',
         EndsLaid(edges)',
         call'[t].op = "rebuild" =>
             /\ RebuildLaid(pc[t], call[t])'
             /\ call'[t].new > made \/ (call[t].op = "rebuild" /\ call'[t].new = call[t].new),
         call'[t].op = "treeReview" => layout'[call'[t].tree] # <<>>,
         pc'[t] = "insertEdge" => Laid(call[t].pair.src)' /\ Laid(call[t].pair.dst)'
  PROVE  Layered'
  <1>1. \A u \in Thread : call[u].op = "rebuild" => call[u].new \in Version /\ call[u].new <= made
    BY CallsAre DEF Layered, RebuildLaid
  <1>2. \A u \in Thread : call[u].op = "treeReview" => call[u].tree \in Version
    BY CallsAre
  <1>3. \A u \in Thread : pc[u] = "insertEdge" => call[u].pair \in PairRow
    BY CallsAre
  <1>4. \A i \in Tree : layout[i] # <<>> => layout'[i] = layout[i]
    OBVIOUS
  <1>5. \A n \in Node : Laid(n) => layout[n[1]] # <<>> /\ n[1] \in Tree
    BY Lengths DEF Laid, Node, Width
  <1>6. \A n \in Node : Laid(n) => Laid(n)'
    BY <1>4, <1>5 DEF Laid
  <1>7. /\ Version \subseteq Tree /\ 0 \in Tree /\ Version \subseteq Nat /\ made \in Nat /\ made' \in Nat
        /\ \A i \in Version : i # 0
    <2>1. made' \in Version
      BY DEF Types
    <2>2. QED
      BY <2>1, Numbers
  <1>8. layout'[0] = <<Far>>
    BY <1>4, <1>7, Lengths DEF Layered
  <1>9. \A i \in Version : i > made' => layout'[i] = <<>>
    <2>1. TAKE i \in Version
    <2>2. HAVE i > made'
    <2>3. i > made /\ i \in Tree /\ layout[i] = <<>>
      BY <1>7, <2>2 DEF Layered
    <2>4. call[t].op = "rebuild" => i # call[t].new
      BY <1>1, <1>7, <2>3
    <2>5. QED
      BY <2>3, <2>4
  <1>10. \A n \in Node : n[1] = 0 => row'[n] = IF n[2] = 1 THEN "active" ELSE "absent"
    BY DEF Layered
  <1>11. ASSUME NEW u \in Thread \ {t}
         PROVE  /\ call'[u] = call[u] /\ pc'[u] = pc[u]
                /\ call[u].op = "rebuild" => RebuildLaid(pc[u], call[u])'
                /\ call[u].op = "treeReview" => layout'[call[u].tree] # <<>>
                /\ pc[u] = "insertEdge" => Laid(call[u].pair.src)' /\ Laid(call[u].pair.dst)'
    <2>1. call'[u] = call[u] /\ pc'[u] = pc[u]
      BY DEF Alone
    <2>2. call[u].op = "rebuild" => RebuildLaid(pc[u], call[u])'
      <3>1. SUFFICES ASSUME call[u].op = "rebuild" PROVE RebuildLaid(pc[u], call[u])'
        OBVIOUS
      <3>2. call[u].new \in Tree
        BY <1>1, <1>7, <3>1
      <3>3. call[t].op = "rebuild" => call[u].new # call[t].new
        BY <3>1 DEF Layered
      <3>4. layout'[call[u].new] = layout[call[u].new]
        BY <3>2, <3>3
      <3>5. QED
        BY <1>4, <1>6, <2>1, <3>1, <3>4, LaidStays
    <2>3. call[u].op = "treeReview" => layout'[call[u].tree] # <<>>
      <3>1. SUFFICES ASSUME call[u].op = "treeReview" PROVE layout'[call[u].tree] # <<>>
        OBVIOUS
      <3>2. call[u].tree \in Tree /\ layout[call[u].tree] # <<>>
        BY <1>2, <1>7, <3>1 DEF Layered
      <3>3. QED
        BY <1>4, <3>2
    <2>4. ASSUME pc[u] = "insertEdge"
          PROVE  Laid(call[u].pair.src)' /\ Laid(call[u].pair.dst)'
      <3>1. call[u].pair.src \in Node /\ call[u].pair.dst \in Node
        BY <1>3, <2>4 DEF PairRow
      <3>2. Laid(call[u].pair.src) /\ Laid(call[u].pair.dst)
        BY <2>4 DEF Layered
      <3>3. QED
        BY <1>6, <2>1, <3>1, <3>2 DEF Laid
    <2>5. QED
      BY <2>1, <2>2, <2>3, <2>4
  <1>12. \A u, v \in Thread :
           u # v /\ call'[u].op = "rebuild" /\ call'[v].op = "rebuild" => call'[u].new # call'[v].new
    <2>1. TAKE u, v \in Thread
    <2>2. HAVE u # v /\ call'[u].op = "rebuild" /\ call'[v].op = "rebuild"
    <2>3. CASE u # t /\ v # t
      BY <1>11, <2>2, <2>3 DEF Layered
    <2>4. \A w \in Thread \ {t} : call'[t].op = "rebuild" /\ call'[w].op = "rebuild" =>
             call'[t].new # call'[w].new
      <3>1. TAKE w \in Thread \ {t}
      <3>2. HAVE call'[t].op = "rebuild" /\ call'[w].op = "rebuild"
      <3>3. call'[w] = call[w] /\ call[w].new \in Version /\ call[w].new <= made
        BY <1>1, <1>11, <3>2
      <3>4. CASE call'[t].new > made
        BY <1>7, <3>3, <3>4
      <3>5. CASE call[t].op = "rebuild" /\ call'[t].new = call[t].new
        BY <3>2, <3>3, <3>5 DEF Layered
      <3>6. QED
        BY <3>2, <3>4, <3>5
    <2>5. QED
      BY <2>2, <2>3, <2>4
  <1>13. \A u \in Thread : call'[u].op = "rebuild" => RebuildLaid(pc[u], call[u])'
    BY <1>11
  <1>14. \A u \in Thread : call'[u].op = "treeReview" => layout'[call'[u].tree] # <<>>
    BY <1>11
  <1>15. \A u \in Thread : pc'[u] = "insertEdge" => Laid(call[u].pair.src)' /\ Laid(call[u].pair.dst)'
    BY <1>11
  <1>16. QED
    BY <1>8, <1>9, <1>10, <1>12, <1>13, <1>14, <1>15 DEF Layered

\* The same, when no tree gets its layout.
LEMMA LayeredSame ==
  ASSUME Types, Types', Layered, NEW t \in Thread, Alone(t), UNCHANGED <<layout, made>>,
         tree'[0] = "active",
         \A n \in Node : n[1] = 0 => row'[n] = row[n],
         \A i \in Tree : tree'[i] # "absent" \/ i \in shown' => layout[i] # <<>>,
         \A n \in Node : row'[n] # "absent" => Laid(n),
         EndsLaid(edges'),
         call'[t].op = "rebuild" =>
             RebuildLaid(pc'[t], call'[t]) /\ call[t].op = "rebuild" /\ call'[t].new = call[t].new,
         call'[t].op = "treeReview" => layout[call'[t].tree] # <<>>,
         pc'[t] = "insertEdge" => Laid(call'[t].pair.src) /\ Laid(call'[t].pair.dst)
  PROVE  Layered'
  <1>1. made <= made'
    BY Numbers
  <1>2. EndsLaid(edges)'
    BY DEF EndsLaid, Laid
  <1>3. \A n \in Node : row'[n] # "absent" => Laid(n)'
    BY DEF Laid
  <1>4. RebuildLaid(pc'[t], call'[t]) => RebuildLaid(pc[t], call[t])'
    BY DEF RebuildLaid, EndsLaid, Laid
  <1>5. pc'[t] = "insertEdge" => Laid(call[t].pair.src)' /\ Laid(call[t].pair.dst)'
    BY DEF Laid
  <1>6. QED
    BY <1>1, <1>2, <1>3, <1>4, <1>5, LayeredKeeps

\* The same, when nothing of the store changes.
LEMMA LayeredQuiet ==
  ASSUME Types, Types', Layered, NEW t \in Thread, Alone(t), UNCHANGED storeVars,
         call'[t].op = "rebuild" =>
             RebuildLaid(pc'[t], call'[t]) /\ call[t].op = "rebuild" /\ call'[t].new = call[t].new,
         call'[t].op = "treeReview" => layout[call'[t].tree] # <<>>,
         pc'[t] = "insertEdge" => Laid(call'[t].pair.src) /\ Laid(call'[t].pair.dst)
  PROVE  Layered'
  <1>1. /\ UNCHANGED <<layout, made>> /\ tree'[0] = "active"
        /\ \A n \in Node : n[1] = 0 => row'[n] = row[n]
        /\ \A i \in Tree : tree'[i] # "absent" \/ i \in shown' => layout[i] # <<>>
        /\ \A n \in Node : row'[n] # "absent" => Laid(n)
        /\ EndsLaid(edges')
    BY DEF Layered, storeVars
  <1>2. QED
    BY <1>1, LayeredSame

\* A step of a sweep, a report or a review of a pair is of none of the document's requests.
LEMMA CandidateOps ==
  ASSUME Types, Types', NEW t \in Thread, CandidateStep(t)
  PROVE  call'[t].op \notin DocumentOps /\ call[t].op \notin DocumentOps
  <1>1. CASE \/ LookAround(t) \/ Foresee(t) \/ QueuePairs(t) \/ EndSweep(t)
             \/ CompareReport(t) \/ QueueReport(t)
             \/ CheckEdge(t) \/ InsertEdge(t) \/ Judge(t)
    <2>1. pc[t] \in {"sweep", "queue", "drift", "queueReport", "checkEdge", "insertEdge", "judge"}
      BY <1>1 DEF LookAround, Foresee, QueuePairs, EndSweep, CompareReport, QueueReport, CheckEdge,
           InsertEdge, Judge, Goto
    <2>2. call[t].op \in {"sweep", "drift", "review", "edge"}
      <3>1. CallTypes(pc[t], call[t])
        BY DEF Types
      <3>2. QED
        BY <2>1, <3>1, CallKinds
    <2>3. QED
      BY <1>1, <2>1, <2>2, OtherMoves DEF Continues, Finishes, DocumentOps, NoCall
  <1>6. ASSUME Begins(t)
        PROVE  call[t].op \notin DocumentOps
    BY <1>6 DEF Begins, NoCall, DocumentOps
  <1>2. CASE BeginSweep(t)
    <2>1. PICK s, r, c : Enter(t, s, r, c) /\ c.op = "sweep"
      BY <1>2 DEF BeginSweep
    <2>2. QED
      BY <1>6, <1>2, <2>1, EnterAlone, BeginMoves DEF DocumentOps
  <1>3. CASE BeginDrift(t)
    <2>1. PICK s, r, c : Enter(t, s, r, c) /\ c.op = "drift"
      BY <1>3 DEF BeginDrift
    <2>2. QED
      BY <1>6, <1>3, <2>1, EnterAlone, BeginMoves DEF DocumentOps
  <1>4. CASE BeginReview(t)
    <2>1. PICK s, r, c : Enter(t, s, r, c) /\ c.op = "review"
      BY <1>4 DEF BeginReview
    <2>2. QED
      BY <1>6, <1>4, <2>1, EnterAlone, BeginMoves DEF DocumentOps
  <1>5. CASE BeginEdge(t)
    BY <1>5, <1>6, EnterAlone, BeginMoves DEF BeginEdge, DocumentOps
  <1>7. QED
    BY <1>1, <1>2, <1>3, <1>4, <1>5 DEF CandidateStep

\* Layered survives the steps of sweeps, reports and reviews of pairs,
LEMMA CandidateLayered ==
  ASSUME Types, Types', Layered, NEW t \in Thread, CandidateStep(t)
  PROVE  Layered'
  <1>1. Alone(t) /\ (Begins(t) \/ Continues(t) \/ Finishes(t))
    BY StepMoves DEF Step
  <1>2. call'[t].op \notin DocumentOps
    BY CandidateOps
  <1>3. pc'[t] = "insertEdge" => CheckEdge(t) /\ ~ Missing(call[t].pair) /\ call'[t] = call[t]
    <2>1. ASSUME pc'[t] = "insertEdge", ~ CheckEdge(t)
          PROVE  FALSE
      <3>1. Begins(t) => BeginSweep(t) \/ BeginDrift(t) \/ BeginReview(t) \/ BeginEdge(t)
        BY <2>1, OtherMoves DEF CandidateStep, Begins, Continues, Finishes
      <3>2. CASE BeginSweep(t)
        <4>1. PICK r, c : Enter(t, "sweep", r, c)
          BY <3>2 DEF BeginSweep
        <4>2. QED
          BY <2>1, <4>1, EnterAlone
      <3>3. CASE BeginDrift(t)
        <4>1. PICK r, c : Enter(t, "drift", r, c)
          BY <3>3 DEF BeginDrift
        <4>2. QED
          BY <2>1, <4>1, EnterAlone
      <3>4. CASE BeginReview(t)
        <4>1. PICK s, r, c : s \in {"checkEdge", "judge"} /\ Enter(t, s, r, c)
          BY <3>4 DEF BeginReview
        <4>2. QED
          BY <2>1, <4>1, EnterAlone
      <3>7. CASE BeginEdge(t)
        BY <2>1, <3>7, EnterAlone DEF BeginEdge
      <3>5. CASE LookAround(t) \/ Foresee(t) \/ CompareReport(t)
        BY <2>1, <3>5 DEF LookAround, Foresee, CompareReport, Goto, Types
      <3>6. CASE QueuePairs(t) \/ EndSweep(t) \/ QueueReport(t) \/ InsertEdge(t) \/ Judge(t)
        BY <2>1, <3>6 DEF QueuePairs, EndSweep, QueueReport, InsertEdge, Judge, Goto, Leave, Types
      <3>8. QED
        BY <2>1, <3>2, <3>3, <3>4, <3>5, <3>6, <3>7 DEF CandidateStep
    <2>2. ASSUME CheckEdge(t), pc'[t] = "insertEdge"
          PROVE  ~ Missing(call[t].pair) /\ call'[t] = call[t]
      BY <2>2 DEF CheckEdge, Leave, Types
    <2>3. QED
      BY <2>1, <2>2
  <1>4. pc'[t] = "insertEdge" => Laid(call'[t].pair.src) /\ Laid(call'[t].pair.dst)
    <2>1. SUFFICES ASSUME pc'[t] = "insertEdge"
                   PROVE  Laid(call'[t].pair.src) /\ Laid(call'[t].pair.dst)
      OBVIOUS
    <2>2. pc[t] = "checkEdge"
      BY <1>3, <2>1 DEF CheckEdge
    <2>3. call[t].pair.src \in Node /\ call[t].pair.dst \in Node
      BY <2>2, CallsAre DEF PairRow
    <2>4. row[call[t].pair.src] # "absent" /\ row[call[t].pair.dst] # "absent"
      BY <1>3, <2>1 DEF Missing
    <2>5. QED
      BY <1>3, <2>1, <2>3, <2>4 DEF Layered
  <1>5. CASE ~ InsertEdge(t)
    <2>1. UNCHANGED storeVars
      BY <1>5 DEF CandidateStep, BeginSweep, LookAround, Foresee, QueuePairs, EndSweep, BeginDrift,
           CompareReport, QueueReport, BeginReview, BeginEdge, CheckEdge, Judge
    <2>2. QED
      BY <1>1, <1>2, <1>4, <2>1, LayeredQuiet DEF DocumentOps
  <1>6. CASE InsertEdge(t)
    <2>1. \A e \in edges' : e \in edges \/ e = ReviewedEdge(call[t].pair)
      BY <1>6 DEF InsertEdge
    <2>2. pc[t] = "insertEdge" /\ Laid(call[t].pair.src) /\ Laid(call[t].pair.dst)
      BY <1>6 DEF InsertEdge, Layered
    <2>3. EndsLaid(edges')
      BY <2>1, <2>2 DEF EndsLaid, Layered, ReviewedEdge
    <2>4. /\ UNCHANGED <<layout, made>> /\ tree'[0] = "active"
          /\ \A n \in Node : n[1] = 0 => row'[n] = row[n]
          /\ \A i \in Tree : tree'[i] # "absent" \/ i \in shown' => layout[i] # <<>>
          /\ \A n \in Node : row'[n] # "absent" => Laid(n)
      BY <1>6 DEF Layered, InsertEdge
    <2>5. QED
      BY <1>1, <1>2, <1>4, <2>3, <2>4, LayeredSame DEF DocumentOps
  <1>7. QED
    BY <1>5, <1>6

\* of reviews of trees,
LEMMA TreeReviewLayered ==
  ASSUME Types, Types', Layered, NEW t \in Thread, FindTree(t) \/ ReviewTree(t) \/ ReviewNodes(t) \/ Crash(t)
  PROVE  Layered'
  <1>1. CASE FindTree(t)
    <2>1. PICK i \in Version, verdict \in {"active", "rejected"} :
            /\ tree[i] = "pending_review"
            /\ Enter(t, "reviewTree", {Document, Queue},
                     [op |-> "treeReview", tree |-> i, verdict |-> verdict])
      BY <1>1 DEF FindTree
    <2>2. /\ Alone(t) /\ pc'[t] = "reviewTree"
          /\ call'[t] = [op |-> "treeReview", tree |-> i, verdict |-> verdict]
      BY <2>1, EnterAlone
    <2>3. layout[i] # <<>>
      BY <2>1, Numbers DEF Layered
    <2>4. QED
      BY <1>1, <2>2, <2>3, LayeredQuiet DEF FindTree
  <1>2. CASE ReviewTree(t)
    <2>1. Alone(t) /\ pc'[t] = "reviewNodes" /\ call'[t] = call[t] /\ pc[t] = "reviewTree"
      BY <1>2, GotoAlone DEF ReviewTree, Goto
    <2>2. call[t].op = "treeReview" /\ call[t].tree \in Version
      BY <2>1, CallKinds, CallsAre DEF Types
    <2>3. layout[call[t].tree] # <<>> /\ call[t].tree \in Tree \ {0}
      BY <2>2, Numbers DEF Layered
    <2>4. \A i \in Tree : tree'[i] = tree[i] \/ i = call[t].tree
      BY <1>2 DEF ReviewTree, Types
    <2>5. tree'[0] = "active"
      BY <2>3, <2>4, Numbers DEF Layered
    <2>6. \A i \in Tree : tree'[i] # "absent" \/ i \in shown' => layout[i] # <<>>
      BY <1>2, <2>3, <2>4 DEF Layered, ReviewTree
    <2>7. UNCHANGED <<layout, made, row, edges>>
      BY <1>2 DEF ReviewTree
    <2>8. /\ \A n \in Node : row'[n] # "absent" => Laid(n)
          /\ EndsLaid(edges')
      BY <2>7 DEF Layered
    <2>9. QED
      BY <2>1, <2>2, <2>3, <2>5, <2>6, <2>7, <2>8, LayeredSame
  <1>3. CASE ReviewNodes(t)
    <2>1. Alone(t) /\ pc'[t] = "idle" /\ call'[t] = NoCall /\ pc[t] = "reviewNodes"
      BY <1>3, LeaveAlone DEF ReviewNodes
    <2>2. call[t].op = "treeReview" /\ call[t].tree \in Version
      BY <2>1, CallKinds, CallsAre DEF Types
    <2>3. \A n \in Node : /\ n[1] = 0 => row'[n] = row[n]
                          /\ row'[n] # "absent" => Laid(n)
      BY <1>3, <2>2, Numbers DEF ReviewNodes, Layered
    <2>4. UNCHANGED <<layout, made, tree, edges, shown>>
      BY <1>3 DEF ReviewNodes
    <2>5. /\ tree'[0] = "active" /\ EndsLaid(edges')
          /\ \A i \in Tree : tree'[i] # "absent" \/ i \in shown' => layout[i] # <<>>
      BY <2>4 DEF Layered
    <2>6. QED
      BY <2>1, <2>3, <2>4, <2>5, LayeredSame DEF NoCall
  <1>4. CASE Crash(t)
    <2>1. Alone(t) /\ pc'[t] = "idle" /\ call'[t] = NoCall
      BY <1>4 DEF Crash, Types, Alone
    <2>2. QED
      BY <1>4, <2>1, LayeredQuiet DEF Crash, NoCall
  <1>5. QED
    BY <1>1, <1>2, <1>3, <1>4

\* of the begin of a rebuild,
LEMMA BeginRebuildLayered ==
  ASSUME Types, Types', Layered, NEW t \in Thread, BeginRebuild(t)
  PROVE  Layered'
  <1>1. PICK l \in Layouts, s \in Statuses :
          Enter(t, "readRows", {Document, Queue}, Rebuild(made + 1, l, s))
    BY DEF BeginRebuild
  <1>2. Alone(t) /\ pc'[t] = "readRows" /\ call'[t] = Rebuild(made + 1, l, s)
    BY <1>1, EnterAlone
  <1>3. made' = made + 1 /\ made' \in Version /\ made \in Nat /\ made <= made' /\ made + 1 > made
    <2>1. made' = made + 1 /\ made' \in Version
      BY DEF BeginRebuild, Types
    <2>2. QED
      BY <2>1, Numbers
  <1>4. UNCHANGED <<document, tree, layout, row, edges, shown>>
    BY DEF BeginRebuild
  <1>5. layout[made + 1] = <<>>
    BY <1>3 DEF Layered
  <1>6. RebuildLaid(pc[t], call[t])'
    BY <1>2, <1>3, <1>4, <1>5 DEF RebuildLaid, Rebuild, EndsLaid
  <1>7. call'[t].op = "rebuild" /\ call'[t].new > made
    BY <1>2, <1>3 DEF Rebuild
  <1>8. /\ tree'[0] = "active"
        /\ \A n \in Node : n[1] = 0 => row'[n] = row[n]
        /\ \A i \in Tree : tree'[i] # "absent" \/ i \in shown' => layout'[i] # <<>>
        /\ \A n \in Node : row'[n] # "absent" => Laid(n)'
        /\ EndsLaid(edges)'
    BY <1>4 DEF Layered, Laid, EndsLaid
  <1>9. pc'[t] # "insertEdge" /\ call'[t].op # "treeReview" /\ layout' = layout
    BY <1>2, <1>4, <1>7
  <1>10. call'[t].op = "rebuild" =>
           /\ RebuildLaid(pc[t], call[t])'
           /\ call'[t].new > made \/ (call[t].op = "rebuild" /\ call'[t].new = call[t].new)
    BY <1>6, <1>7
  <1> HIDE DEF Layered
  <1>11. QED
    BY <1>2, <1>3, <1>8, <1>9, <1>10, LayeredKeeps

\* (an edge is carried to nodes that there are)
LEMMA CarriedLaid ==
  ASSUME Types, Layered, NEW t \in Thread, pc[t] = "carryEdges", call[t].op = "rebuild",
         NEW old \in call[t].left, NEW e \in edges
  PROVE  LET m == Carried(call[t], old, e) IN Laid(m.src) /\ Laid(m.dst)
  <1> DEFINE c == call[t]
  <1>1. c \in RebuildCall
    BY CallKinds DEF Types
  <1>2. e \in EdgeRow /\ old \in EdgeRow
    BY <1>1 DEF Types, RebuildCall
  <1>3. Laid(e.src) /\ Laid(e.dst)
    BY DEF Layered, EndsLaid
  <1>4. \A q \in c.map : Laid(q[2])
    BY DEF Layered, RebuildLaid
  <1> HIDE DEF c
  <1>5. \A n \in OldNodes(c) : ~ Lost(c, n) => Laid(Moved(c, n))
    <2>1. TAKE n \in OldNodes(c)
    <2>2. CASE \E q \in c.map : q[1] = n
      <3>1. (CHOOSE q \in c.map : q[1] = n) \in c.map
        BY <2>2
      <3>2. QED
        BY <1>4, <2>2, <3>1 DEF Moved
    <2>3. CASE ~ \E q \in c.map : q[1] = n
      BY <2>3 DEF Lost
    <2>4. QED
      BY <2>2, <2>3
  <1> DEFINE a == IF old.src \in OldNodes(c) THEN Moved(c, old.src) ELSE e.src
             b == IF old.dst \in OldNodes(c) THEN Moved(c, old.dst) ELSE e.dst
             moved == [e EXCEPT !.src = a, !.dst = b]
  <1>6. \/ Carried(c, old, e) = [e EXCEPT !.flagged = TRUE]
        \/ Carried(c, old, e) = moved /\ ~ Lost(c, old.src) /\ ~ Lost(c, old.dst)
    BY DEF Carried
  <1>7. ~ Lost(c, old.src) /\ ~ Lost(c, old.dst) => Laid(a) /\ Laid(b)
    BY <1>3, <1>5
  <1> HIDE DEF a, b
  <1>8. [e EXCEPT !.flagged = TRUE].src = e.src /\ [e EXCEPT !.flagged = TRUE].dst = e.dst
    BY <1>2 DEF EdgeRow
  <1>9. moved.src = a /\ moved.dst = b
    BY <1>2 DEF EdgeRow
  <1>10. LET m == Carried(c, old, e) IN Laid(m.src) /\ Laid(m.dst)
    BY <1>3, <1>6, <1>7, <1>8, <1>9
  <1>11. QED
    BY <1>10 DEF c

\* of a rebuild,
LEMMA RebuildLayered ==
  ASSUME Types, Types', Layered, NEW t \in Thread, RebuildStep(t)
  PROVE  Layered'
  <1> DEFINE c == call[t]
             p == pc[t]
  <1>1. Alone(t) /\ (Continues(t) \/ Finishes(t))
    BY RebuildMoves
  <1>2. p \in RebuildSteps
    BY DEF RebuildStep, ReadRows, ReadEdges, SupersedeTrees, SupersedeNodes, WriteDocument,
           InsertTree, InsertNode, InsertHints, MapNodes, CarryEdge, Fail, RestoreDocument, RestoreTrees,
           RestoreNodes, RestoreEdges, RestoreReviewed, Goto, RebuildSteps, Restoring, Trying
  <1>3. /\ c \in RebuildCall /\ c.op = "rebuild" /\ c.new \in Version /\ c.new \in Tree \ {0}
        /\ c.status \in {"active", "pending_review"}
        /\ c.layout \in Layouts /\ c.edges \subseteq EdgeRow /\ c.reviewed \subseteq EdgeRow
    BY <1>2, AtRebuild, Numbers
  <1>4. RebuildLaid(p, c)
    BY <1>3 DEF Layered
  <1>5. pc'[t] # "insertEdge" /\ call'[t].op # "treeReview"
    <2>1. call'[t].op \in {"rebuild", "none"}
      BY <1>1, <1>3 DEF Continues, Finishes, NoCall
    <2>2. CallTypes(pc'[t], call'[t])
      BY DEF Types
    <2>3. QED
      BY <2>1, <2>2, CallKinds
  <1>6. /\ tree[0] = "active"
        /\ \A i \in Tree : tree[i] # "absent" \/ i \in shown => layout[i] # <<>>
        /\ \A n \in Node : row[n] # "absent" => Laid(n)
        /\ EndsLaid(edges)
    BY DEF Layered
  <1>7. c.layout # <<>>
    BY <1>3, Lengths
  <1>8. \A s : Superseded(s) = "absent" <=> s = "absent"
    BY DEF Superseded
  \* Once nothing but the statuses and the locals change, RebuildLaid is kept as it is.
  <1>9. ASSUME call'[t] = c, pc'[t] \in Restoring \cup {p}
        PROVE  RebuildLaid(pc'[t], call'[t])
    BY <1>4, <1>9 DEF RebuildLaid, Restoring
  <1>10. CASE ReadRows(t)
    <2> DEFINE d == [c EXCEPT !.document = document, !.tree = tree, !.row = row]
    <2>1. pc'[t] = "readEdges" /\ call'[t] = d /\ p = "readRows" /\ UNCHANGED storeVars
      BY <1>10, GotoAlone DEF ReadRows, Goto
    <2>2. /\ d.new = c.new /\ d.op = "rebuild" /\ d.tree = tree /\ d.row = row /\ d.edges = c.edges
          /\ d.reviewed = c.reviewed /\ d.left = c.left
      BY <1>3 DEF RebuildCall
    <2> HIDE DEF d
    <2>3. RebuildLaid("readEdges", d)
      BY <1>4, <1>6, <2>1, <2>2 DEF RebuildLaid
    <2>4. QED
      BY <1>1, <1>3, <1>5, <2>1, <2>2, <2>3, LayeredQuiet
  <1>11. CASE ReadEdges(t)
    <2> DEFINE es == {e \in edges : e.home}
               rs == ReviewedTouching(OldNodes(call[t]))
               d == [c EXCEPT !.edges = es, !.reviewed = rs]
    <2>1. pc'[t] = "supersedeTrees" /\ call'[t] = d /\ p = "readEdges" /\ UNCHANGED storeVars
      BY <1>11, GotoAlone DEF ReadEdges, Goto
    <2>2. EndsLaid(es) /\ EndsLaid(rs) /\ c.left = {}
      BY <1>4, <1>6, <2>1 DEF RebuildLaid, EndsLaid, ReviewedTouching
    <2> HIDE DEF es, rs
    <2>3. /\ d.new = c.new /\ d.op = "rebuild" /\ d.tree = c.tree /\ d.row = c.row /\ d.edges = es
          /\ d.reviewed = rs /\ d.left = c.left
      BY <1>3 DEF RebuildCall
    <2> HIDE DEF d
    <2>4. RebuildLaid("supersedeTrees", d)
      BY <1>4, <1>6, <2>1, <2>2, <2>3 DEF RebuildLaid
    <2>5. QED
      BY <1>1, <1>3, <1>5, <2>1, <2>3, <2>4, LayeredQuiet
  <1>12. CASE SupersedeTrees(t)
    <2>1. /\ pc'[t] = "supersedeNodes" /\ call'[t] = c /\ p = "supersedeTrees"
          /\ UNCHANGED <<document, layout, row, edges, made, minted, shown>>
      BY <1>12, GotoAlone DEF SupersedeTrees, Goto
    <2>2. \A i \in Tree : tree'[i] = IF i = 0 THEN tree[i] ELSE Superseded(tree[i])
      BY <1>12 DEF SupersedeTrees
    <2>3. /\ tree'[0] = "active"
          /\ \A i \in Tree : tree'[i] # "absent" \/ i \in shown' => layout[i] # <<>>
      BY <1>6, <1>8, <2>1, <2>2, Numbers
    <2>4. RebuildLaid("supersedeNodes", c)
      BY <1>4, <2>1 DEF RebuildLaid
    <2>5. QED
      BY <1>1, <1>3, <1>5, <1>6, <2>1, <2>3, <2>4, LayeredSame
  <1>13. CASE SupersedeNodes(t)
    <2>1. /\ pc'[t] = "writeDocument" /\ call'[t] = c /\ p = "supersedeNodes"
          /\ UNCHANGED <<document, layout, tree, edges, made, minted, shown>>
      BY <1>13, GotoAlone DEF SupersedeNodes, Goto
    <2>2. \A n \in Node : row'[n] = IF n[1] # 0 THEN Superseded(row[n]) ELSE row[n]
      BY <1>13 DEF SupersedeNodes, Ours
    <2>3. RebuildLaid("writeDocument", c)
      BY <1>4, <2>1 DEF RebuildLaid
    <2>4. /\ \A n \in Node : n[1] = 0 => row'[n] = row[n]
          /\ \A n \in Node : row'[n] # "absent" => Laid(n)
      BY <1>6, <1>8, <2>2
    <2>5. QED
      BY <1>1, <1>3, <1>5, <1>6, <2>1, <2>3, <2>4, LayeredSame
  <1>14. CASE WriteDocument(t)
    <2>1. /\ pc'[t] = "insertTree" /\ call'[t] = c /\ p = "writeDocument"
          /\ UNCHANGED <<tree, layout, row, edges, made, minted, shown>>
      BY <1>14, GotoAlone DEF WriteDocument, Goto
    <2>2. RebuildLaid("insertTree", c)
      BY <1>4, <2>1 DEF RebuildLaid
    <2>3. QED
      BY <1>1, <1>3, <1>5, <1>6, <2>1, <2>2, LayeredSame
  <1>15. CASE InsertTree(t)
    <2>1. /\ pc'[t] = "insertNodes" /\ call'[t] = c /\ p = "insertTree"
          /\ UNCHANGED <<document, row, edges, made, minted>>
      BY <1>15, GotoAlone DEF InsertTree, Goto
    <2>2. /\ \A i \in Tree : tree'[i] = IF i = c.new THEN c.status ELSE tree[i]
          /\ \A i \in Tree : layout'[i] = IF i = c.new THEN c.layout ELSE layout[i]
          /\ \A i \in shown' : i \in shown \/ i = c.new
      BY <1>15 DEF InsertTree, Types
    <2>3. layout[c.new] = <<>>
      BY <1>4, <2>1 DEF RebuildLaid
    <2>4. /\ tree'[0] = "active" /\ layout'[c.new] = c.layout
          /\ \A i \in Tree : tree'[i] # "absent" \/ i \in shown' => layout'[i] # <<>>
      BY <1>3, <1>6, <1>7, <2>2, Numbers
    <2>5. \A n \in Node : Laid(n) => Laid(n)'
      <3>1. \A n \in Node : n[1] \in Tree /\ n[2] \in Nat \ {0}
        BY DEF Node, Width
      <3>2. \A n \in Node : Laid(n) => n[1] # c.new
        BY <2>3, <3>1, Lengths DEF Laid
      <3>3. QED
        BY <2>2, <3>1, <3>2 DEF Laid
    <2>6. \A es \in SUBSET EdgeRow : EndsLaid(es) => EndsLaid(es)'
      BY <2>5 DEF EndsLaid, EdgeRow
    <2>7. \A n \in Node : row'[n] # "absent" => Laid(n)'
      BY <1>6, <2>1, <2>5
    <2>8. EndsLaid(edges)'
      BY <1>6, <2>1, <2>6 DEF Types
    <2>9. RebuildLaid(pc[t], call[t])'
      BY <1>3, <1>4, <1>7, <2>1, <2>2, <2>4, <2>5, <2>6 DEF RebuildLaid
    <2>10. made <= made'
      BY <2>1, Numbers
    <2>11. \A i \in Tree : \/ layout'[i] = layout[i]
                           \/ /\ layout[i] = <<>> /\ layout'[i] # <<>>
                              /\ call[t].op = "rebuild" /\ i = call[t].new
      BY <1>3, <1>7, <2>2, <2>3
    <2>12. row' = row
      BY <2>1
    <2>13. QED
      BY <1>1, <1>3, <1>5, <2>1, <2>4, <2>7, <2>8, <2>9, <2>10, <2>11, <2>12, LayeredKeeps
  <1>16. CASE InsertNode(t)
    <2> DEFINE d == [c EXCEPT !.key = c.key + 1]
    <2>1. /\ pc'[t] \in {"insertHints", "insertNodes"} /\ call'[t] = d /\ p = "insertNodes"
          /\ UNCHANGED <<document, tree, layout, edges, made, minted, shown>>
      <3>1. call' = [call EXCEPT ![t] = d]
        BY <1>16 DEF InsertNode, Types
      <3>2. PICK q \in {"insertHints", "insertNodes"} : Goto(t, "insertNodes", q)
        BY <1>16 DEF InsertNode
      <3> HIDE DEF d
      <3>3. pc'[t] = q /\ call'[t] = d /\ p = "insertNodes"
        BY <3>1, <3>2, GotoAlone DEF Goto
      <3>4. QED
        BY <1>16, <3>3 DEF InsertNode
    <2>2. /\ d.new = c.new /\ d.op = "rebuild" /\ d.tree = c.tree /\ d.row = c.row /\ d.edges = c.edges
          /\ d.reviewed = c.reviewed /\ d.left = c.left /\ d.layout = c.layout
      BY <1>3 DEF RebuildCall
    <2> HIDE DEF d
    <2>3. RebuildLaid(pc'[t], d)
      BY <1>4, <2>1, <2>2 DEF RebuildLaid
    <2>4. /\ c.key \in 1 .. Width + 1 /\ c.key <= Len(c.layout) /\ Len(c.layout) \in 1 .. Width
      <3>1. CallTypes(p, c)
        BY DEF Types
      <3>2. Counted(p, c)
        BY <1>3, <3>1, CallKinds
      <3>3. QED
        BY <1>3, <2>1, <3>2, Lengths DEF Counted, RebuildCall
    <2>5. \A n \in Node : row'[n] = IF n = <<c.new, c.key>> THEN c.status ELSE row[n]
      BY <1>16 DEF InsertNode, Types
    <2>6. layout[c.new] = c.layout
      BY <1>4, <2>1 DEF RebuildLaid
    <2>7. /\ \A n \in Node : n[1] = 0 => row'[n] = row[n]
          /\ \A n \in Node : row'[n] # "absent" => Laid(n)
      BY <1>3, <1>6, <2>4, <2>5, <2>6 DEF Laid
    <2>8. QED
      BY <1>1, <1>3, <1>5, <1>6, <2>1, <2>2, <2>3, <2>7, LayeredSame
  <1>17. CASE InsertHints(t)
    <2>1. /\ pc'[t] \in {"restoreDocument", "mapNodes"} /\ call'[t] = c /\ p = "insertHints"
          /\ UNCHANGED <<document, tree, layout, row, made, shown>>
      BY <1>17, GotoAlone DEF InsertHints, Goto
    <2>2. RebuildLaid(pc'[t], c)
      BY <1>4, <2>1 DEF RebuildLaid
    <2>3. layout[c.new] = c.layout
      BY <1>4, <2>1 DEF RebuildLaid
    <2>4. edges' \subseteq edges \cup Hints(c)
      BY <1>17 DEF InsertHints
    <2>5. EndsLaid(Hints(c))
      <3>1. CASE c.layout \in Hinted
        <4>1. 1 <= Len(c.layout) /\ 2 <= Len(c.layout)
          <5>1. DOMAIN c.layout = 1 .. 2
            BY <3>1, TreesAssumption DEF Width
          <5> DEFINE k == Len(c.layout)
          <5>2. DOMAIN c.layout = 1 .. k /\ k \in Nat
            BY <1>3, Lengths
          <5> HIDE DEF k
          <5>3. 1 <= k /\ 2 <= k
            <6>1. 2 \in 1 .. k
              BY <5>1, <5>2
            <6>2. QED
              BY <5>2, <6>1
          <5>4. QED
            BY <5>3 DEF k
        <4>2. QED
          BY <2>3, <4>1 DEF Hints, EndsLaid, Laid
      <3>2. CASE c.layout \notin Hinted
        BY <3>2 DEF Hints, EndsLaid
      <3>3. QED
        BY <3>1, <3>2
    <2>6. EndsLaid(edges')
      BY <1>6, <2>4, <2>5 DEF EndsLaid
    <2>7. QED
      BY <1>1, <1>3, <1>5, <1>6, <2>1, <2>2, <2>6, LayeredSame
  <1>18. CASE MapNodes(t)
    <2>1. UNCHANGED storeVars /\ p = "mapNodes"
      BY <1>18 DEF MapNodes
    <2>2. CASE c.reviewed = {}
      BY <1>1, <1>5, <1>18, <2>1, <2>2, LeaveAlone, LayeredQuiet DEF MapNodes, NoCall
    <2>3. CASE c.reviewed # {}
      <3> DEFINE cs == Counterparts(c)
                 d == [c EXCEPT !.map = cs, !.left = c.reviewed]
      <3>1. pc'[t] = "carryEdges" /\ call'[t] = d
        BY <1>18, <2>3, GotoAlone DEF MapNodes
      <3>2. \A q \in cs : q[2][1] = c.new /\ Laid(q[2])
        <4>1. TAKE q \in cs
        <4>2. q[2] \in Rows(c.new)
          BY DEF Counterparts
        <4>3. QED
          BY <4>2 DEF Rows, Laid
      <3> HIDE DEF cs
      <3>3. /\ d.new = c.new /\ d.op = "rebuild" /\ d.tree = c.tree /\ d.row = c.row
            /\ d.edges = c.edges /\ d.reviewed = c.reviewed /\ d.left = c.reviewed
            /\ d.layout = c.layout /\ d.map = cs
        BY <1>3 DEF RebuildCall
      <3> HIDE DEF d
      <3>4. RebuildLaid("carryEdges", d)
        BY <1>4, <2>1, <3>2, <3>3 DEF RebuildLaid
      <3>5. QED
        BY <1>1, <1>3, <1>5, <2>1, <3>1, <3>3, <3>4, LayeredQuiet
    <2>4. QED
      BY <2>2, <2>3
  <1>19. CASE CarryEdge(t)
    <2>1. PICK old \in c.left :
            /\ edges' = {IF e.id = old.id THEN Carried(c, old, e) ELSE e : e \in edges}
            /\ IF c.left = {old}
               THEN Leave(t)
               ELSE /\ Goto(t, "carryEdges", "carryEdges")
                    /\ call' = [call EXCEPT ![t].left = @ \ {old}]
      BY <1>19 DEF CarryEdge
    <2>2. p = "carryEdges" /\ UNCHANGED <<document, tree, layout, row, made, minted, shown>>
      BY <1>19 DEF CarryEdge
    <2>3. \A e \in edges : Laid(Carried(c, old, e).src) /\ Laid(Carried(c, old, e).dst)
      BY <1>3, <2>2, CarriedLaid
    <2>4. EndsLaid(edges')
      <3>1. SUFFICES ASSUME NEW f \in edges' PROVE Laid(f.src) /\ Laid(f.dst)
        BY DEF EndsLaid
      <3>2. PICK e \in edges : f = IF e.id = old.id THEN Carried(c, old, e) ELSE e
        BY <2>1
      <3>3. QED
        BY <1>6, <2>3, <3>2 DEF EndsLaid
    <2>5. CASE c.left = {old}
      BY <1>1, <1>5, <1>6, <2>1, <2>2, <2>4, <2>5, LeaveAlone, LayeredSame DEF NoCall
    <2>6. CASE c.left # {old}
      <3> DEFINE es == c.left \ {old}
                 d == [c EXCEPT !.left = es]
      <3>1. call' = [call EXCEPT ![t] = d]
        BY <2>1, <2>6 DEF Types
      <3>2. pc'[t] = "carryEdges" /\ call'[t] = d
        BY <2>1, <2>6, <3>1, GotoAlone
      <3>3. /\ d.new = c.new /\ d.op = "rebuild" /\ d.tree = c.tree /\ d.row = c.row
            /\ d.edges = c.edges /\ d.reviewed = c.reviewed /\ d.left = es
            /\ d.layout = c.layout /\ d.map = c.map
        BY <1>3 DEF RebuildCall
      <3>4. es \subseteq c.left
        OBVIOUS
      <3> HIDE DEF d, es
      <3>5. RebuildLaid("carryEdges", d)
        BY <1>4, <2>2, <3>3, <3>4 DEF RebuildLaid
      <3>6. QED
        BY <1>1, <1>3, <1>5, <1>6, <2>2, <2>4, <3>2, <3>3, <3>5, LayeredSame
    <2>7. QED
      BY <2>5, <2>6
  <1>20. CASE Fail(t)
    <2>1. pc'[t] = "restoreDocument" /\ call'[t] = c /\ UNCHANGED storeVars
      BY <1>20 DEF Fail, Types
    <2>2. RebuildLaid("restoreDocument", c)
      BY <1>9, <2>1 DEF Restoring
    <2>3. QED
      BY <1>1, <1>3, <1>5, <2>1, <2>2, LayeredQuiet
  <1>21. CASE RestoreDocument(t)
    <2>1. /\ pc'[t] = "restoreTrees" /\ call'[t] = c
          /\ UNCHANGED <<tree, layout, row, edges, made, minted, shown>>
      BY <1>21, GotoAlone DEF RestoreDocument, Goto
    <2>2. RebuildLaid("restoreTrees", c)
      BY <1>9, <2>1 DEF Restoring
    <2>3. QED
      BY <1>1, <1>3, <1>5, <1>6, <2>1, <2>2, LayeredSame
  <1>22. CASE RestoreTrees(t)
    <2>1. /\ pc'[t] = "restoreNodes" /\ call'[t] = c
          /\ UNCHANGED <<document, layout, row, edges, made, minted, shown>>
      BY <1>22, GotoAlone DEF RestoreTrees, Goto
    <2>2. RebuildLaid("restoreNodes", c)
      BY <1>9, <2>1 DEF Restoring
    <2>3. \A i \in Tree : tree'[i] = IF i = 0 THEN tree[i] ELSE c.tree[i]
      BY <1>22 DEF RestoreTrees
    <2>4. /\ tree'[0] = "active"
          /\ \A i \in Tree : tree'[i] # "absent" \/ i \in shown' => layout[i] # <<>>
      BY <1>4, <1>6, <2>1, <2>3, Numbers DEF RebuildLaid
    <2>5. QED
      BY <1>1, <1>3, <1>5, <1>6, <2>1, <2>2, <2>4, LayeredSame
  <1>23. CASE RestoreNodes(t)
    <2>1. /\ pc'[t] = "restoreEdges" /\ call'[t] = c
          /\ UNCHANGED <<document, layout, tree, edges, made, minted, shown>>
      BY <1>23, GotoAlone DEF RestoreNodes, Goto
    <2>2. RebuildLaid("restoreEdges", c)
      BY <1>9, <2>1 DEF Restoring
    <2>3. \A n \in Node : row'[n] = IF n[1] # 0 THEN c.row[n] ELSE row[n]
      BY <1>23 DEF RestoreNodes, Ours
    <2>4. /\ \A n \in Node : n[1] = 0 => row'[n] = row[n]
          /\ \A n \in Node : row'[n] # "absent" => Laid(n)
      BY <1>4, <1>6, <2>3 DEF RebuildLaid
    <2>5. QED
      BY <1>1, <1>3, <1>5, <1>6, <2>1, <2>2, <2>4, LayeredSame
  <1>24. CASE RestoreEdges(t) \/ RestoreReviewed(t)
    <2>1. /\ UNCHANGED <<document, layout, tree, row, made, minted, shown>>
          /\ \/ call'[t] = c /\ pc'[t] = "restoreReviewed"
             \/ call'[t] = NoCall
      <3>1. CASE RestoreEdges(t)
        <4>1. \/ Goto(t, "restoreEdges", "restoreReviewed") /\ UNCHANGED call
              \/ LeaveRestored(t, FALSE)
          BY <3>1 DEF RestoreEdges
        <4>2. \/ call'[t] = c /\ pc'[t] = "restoreReviewed"
              \/ call'[t] = NoCall
          BY <4>1, GotoAlone, LeaveGoes
        <4>3. QED
          BY <3>1, <4>2 DEF RestoreEdges
      <3>2. CASE RestoreReviewed(t)
        BY <3>2, LeaveGoes DEF RestoreReviewed
      <3>3. QED
        BY <1>24, <3>1, <3>2
    <2>2. edges' \subseteq edges \cup c.edges \cup c.reviewed
      BY <1>24 DEF RestoreEdges, RestoreReviewed, PutBack, Returned
    <2>3. EndsLaid(edges')
      BY <1>4, <1>6, <2>2 DEF EndsLaid, RebuildLaid
    <2>4. call'[t].op = "rebuild" => call'[t] = c /\ RebuildLaid(pc'[t], c)
      BY <1>9, <2>1 DEF NoCall, Restoring
    <2>5. QED
      BY <1>1, <1>3, <1>5, <1>6, <2>1, <2>3, <2>4, LayeredSame
  <1>25. QED
    BY <1>10, <1>11, <1>12, <1>13, <1>14, <1>15, <1>16, <1>17, <1>18, <1>19, <1>20, <1>21, <1>22,
       <1>23, <1>24 DEF RebuildStep

\* and so every step.
LEMMA LayeredStep ==
  ASSUME Types, Types', Layered, NEW t \in Thread, Step(t)
  PROVE  Layered'
  BY BeginRebuildLayered, RebuildLayered, TreeReviewLayered, CandidateLayered DEF Step, TreeStep

-------------------------------------------------------------------------------
(* Identifiers *)

\* A rebuild reads the rows, and then the edges, once.
LEMMA DocumentSteps ==
  ASSUME Types, Types', NEW t \in Thread, Step(t)
  PROVE  /\ call'[t].op = "rebuild" => BeginRebuild(t) \/ RebuildStep(t)
         /\ call'[t].op = "treeReview" => FindTree(t) \/ ReviewTree(t)
         /\ call[t].op = "rebuild" => RebuildStep(t) \/ Crash(t)
         /\ call[t].op = "treeReview" => ReviewTree(t) \/ ReviewNodes(t) \/ Crash(t)
  <1>1. CASE CandidateStep(t)
    BY <1>1, CandidateOps DEF DocumentOps
  <1>2. CASE BeginRebuild(t) \/ FindTree(t)
    <2>1. call[t].op = "none"
      BY <1>2, BeginMoves DEF Begins, NoCall
    <2>2. CASE BeginRebuild(t)
      <3>1. PICK l, s : Enter(t, "readRows", {Document, Queue}, Rebuild(made + 1, l, s))
        BY <2>2 DEF BeginRebuild
      <3>2. call'[t].op = "rebuild"
        BY <3>1, EnterAlone DEF Rebuild
      <3>3. QED
        BY <2>1, <2>2, <3>2
    <2>3. CASE FindTree(t)
      BY <2>1, <2>3, EnterAlone DEF FindTree
    <2>4. QED
      BY <1>2, <2>2, <2>3
  <1>3. CASE RebuildStep(t)
    <2>1. Continues(t) \/ Finishes(t)
      BY <1>3, RebuildMoves
    <2>2. pc[t] \in RebuildSteps
      BY <1>3 DEF RebuildStep, ReadRows, ReadEdges, SupersedeTrees, SupersedeNodes, WriteDocument,
             InsertTree, InsertNode, InsertHints, MapNodes, CarryEdge, Fail, RestoreDocument, RestoreTrees,
             RestoreNodes, RestoreEdges, RestoreReviewed, Goto, RebuildSteps, Restoring, Trying
    <2>3. call[t].op = "rebuild"
      BY <2>2, AtRebuild
    <2>4. QED
      BY <1>3, <2>1, <2>3 DEF Continues, Finishes, NoCall
  <1>4. CASE ReviewTree(t) \/ ReviewNodes(t)
    <2>1. pc[t] \in {"reviewTree", "reviewNodes"} /\ CallTypes(pc[t], call[t])
      BY <1>4 DEF ReviewTree, ReviewNodes, Goto, Types
    <2>2. call[t].op = "treeReview"
      BY <2>1, CallKinds
    <2>3. ReviewNodes(t) => call'[t] = NoCall
      BY LeaveAlone DEF ReviewNodes
    <2>4. Continues(t) \/ Finishes(t)
      BY <1>4, OtherMoves
    <2>5. QED
      BY <1>4, <2>2, <2>3, <2>4 DEF Continues, Finishes, NoCall
  <1>5. CASE Crash(t)
    <2>1. call'[t] = NoCall
      BY <1>5 DEF Crash, Types
    <2>2. QED
      BY <1>5, <2>1 DEF NoCall
  <1>6. QED
    BY <1>1, <1>2, <1>3, <1>4, <1>5 DEF Step, TreeStep

\* Five kinds of steps change the store.
LEMMA StoreFrames ==
  ASSUME NEW t \in Thread, Step(t),
         ~ (\/ BeginRebuild(t) \/ RebuildStep(t) \/ ReviewTree(t) \/ ReviewNodes(t) \/ InsertEdge(t))
  PROVE  UNCHANGED storeVars
  BY DEF Step, TreeStep, CandidateStep, FindTree, Crash, BeginSweep, LookAround, Foresee, QueuePairs, EndSweep,
       BeginDrift, CompareReport, QueueReport, BeginReview, BeginEdge, CheckEdge, Judge

\* A rebuild reads the rows, and then the edges, once.
LEMMA RebuildReads ==
  ASSUME Types, Types', NEW t \in Thread, RebuildStep(t), call'[t].op = "rebuild"
  PROVE  /\ call[t].op = "rebuild" /\ call[t] \in RebuildCall
         /\ call'[t].new = call[t].new /\ call'[t].layout = call[t].layout
         /\ call'[t].status = call[t].status
         /\ ~ ReadRows(t) => /\ call'[t].document = call[t].document /\ call'[t].tree = call[t].tree
                             /\ call'[t].row = call[t].row
         /\ ~ ReadEdges(t) => call'[t].edges = call[t].edges /\ call'[t].reviewed = call[t].reviewed
  <1> DEFINE c == call[t]
  <1>1. pc[t] \in RebuildSteps
    BY DEF RebuildStep, ReadRows, ReadEdges, SupersedeTrees, SupersedeNodes, WriteDocument,
           InsertTree, InsertNode, InsertHints, MapNodes, CarryEdge, Fail, RestoreDocument, RestoreTrees,
           RestoreNodes, RestoreEdges, RestoreReviewed, Goto, RebuildSteps, Restoring, Trying
  <1>2. c \in RebuildCall /\ c.op = "rebuild"
    BY <1>1, AtRebuild
  <1>3. NoCall.op # "rebuild"
    BY DEF NoCall
  <1>4. CASE ReadRows(t)
    <2> DEFINE d == [c EXCEPT !.document = document, !.tree = tree, !.row = row]
    <2>1. call'[t] = d /\ pc[t] = "readRows"
      BY <1>4, GotoAlone DEF ReadRows, Goto
    <2>2. /\ d.new = c.new /\ d.layout = c.layout /\ d.status = c.status /\ d.edges = c.edges
          /\ d.reviewed = c.reviewed
      BY <1>2 DEF RebuildCall
    <2> HIDE DEF d
    <2>3. ~ ReadEdges(t)
      BY <2>1 DEF ReadEdges, Goto
    <2>4. QED
      BY <1>2, <1>4, <2>1, <2>2, <2>3
  <1>5. CASE ReadEdges(t)
    <2> DEFINE es == {e \in edges : e.home}
               rs == ReviewedTouching(OldNodes(c))
               d == [c EXCEPT !.edges = es, !.reviewed = rs]
    <2>1. call'[t] = d
      BY <1>5, GotoAlone DEF ReadEdges, Goto
    <2> HIDE DEF es, rs
    <2>2. /\ d.new = c.new /\ d.layout = c.layout /\ d.status = c.status /\ d.document = c.document
          /\ d.tree = c.tree /\ d.row = c.row
      BY <1>2 DEF RebuildCall
    <2> HIDE DEF d
    <2>3. QED
      BY <1>2, <1>5, <2>1, <2>2
  <1>6. CASE InsertNode(t)
    <2> DEFINE d == [c EXCEPT !.key = c.key + 1]
    <2>1. call' = [call EXCEPT ![t] = d]
      BY <1>6 DEF InsertNode, Types
    <2>2. call'[t] = d
      BY <2>1 DEF Types
    <2>3. /\ d.new = c.new /\ d.layout = c.layout /\ d.status = c.status /\ d.document = c.document
          /\ d.tree = c.tree /\ d.row = c.row /\ d.edges = c.edges /\ d.reviewed = c.reviewed
      BY <1>2 DEF RebuildCall
    <2> HIDE DEF d
    <2>4. QED
      BY <1>2, <2>2, <2>3
  <1>7. CASE MapNodes(t)
    <2>1. CASE c.reviewed = {}
      BY <1>3, <1>7, <2>1, LeaveAlone DEF MapNodes
    <2>2. CASE c.reviewed # {}
      <3> DEFINE cs == Counterparts(c)
                 d == [c EXCEPT !.map = cs, !.left = c.reviewed]
      <3>1. call'[t] = d
        BY <1>7, <2>2, GotoAlone DEF MapNodes
      <3> HIDE DEF cs
      <3>2. /\ d.new = c.new /\ d.layout = c.layout /\ d.status = c.status /\ d.document = c.document
            /\ d.tree = c.tree /\ d.row = c.row /\ d.edges = c.edges /\ d.reviewed = c.reviewed
        BY <1>2 DEF RebuildCall
      <3> HIDE DEF d
      <3>3. QED
        BY <1>2, <3>1, <3>2
    <2>3. QED
      BY <2>1, <2>2
  <1>8. CASE CarryEdge(t)
    <2>1. PICK old \in c.left :
            IF c.left = {old} THEN Leave(t) ELSE call' = [call EXCEPT ![t].left = @ \ {old}]
      BY <1>8 DEF CarryEdge
    <2>2. CASE c.left = {old}
      BY <1>3, <2>1, <2>2, LeaveAlone
    <2>3. CASE c.left # {old}
      <3> DEFINE es == c.left \ {old}
                 d == [c EXCEPT !.left = es]
      <3>1. call'[t] = d
        BY <2>1, <2>3 DEF Types
      <3> HIDE DEF es
      <3>2. /\ d.new = c.new /\ d.layout = c.layout /\ d.status = c.status /\ d.document = c.document
            /\ d.tree = c.tree /\ d.row = c.row /\ d.edges = c.edges /\ d.reviewed = c.reviewed
        BY <1>2 DEF RebuildCall
      <3> HIDE DEF d
      <3>3. QED
        BY <1>2, <3>1, <3>2
    <2>4. QED
      BY <2>2, <2>3
  <1>9. CASE RestoreEdges(t) \/ RestoreReviewed(t)
    <2>1. UNCHANGED call \/ \E whole : LeaveRestored(t, whole)
      BY <1>9 DEF RestoreEdges, RestoreReviewed
    <2>2. QED
      BY <1>2, <1>3, <2>1, LeaveGoes
  <1>10. CASE \/ SupersedeTrees(t) \/ SupersedeNodes(t) \/ WriteDocument(t) \/ InsertTree(t)
              \/ InsertHints(t) \/ Fail(t) \/ RestoreDocument(t) \/ RestoreTrees(t) \/ RestoreNodes(t)
    <2>1. UNCHANGED call
      BY <1>10 DEF SupersedeTrees, SupersedeNodes, WriteDocument, InsertTree, InsertHints, Fail,
           RestoreDocument, RestoreTrees, RestoreNodes
    <2>2. QED
      BY <1>2, <2>1
  <1>11. QED
    BY <1>4, <1>5, <1>6, <1>7, <1>8, <1>9, <1>10 DEF RebuildStep

\* To put edges back leaves one of each identifier.
LEMMA PutBackApiece ==
  ASSUME NEW rows, NEW kept, Apiece(rows), Apiece(kept)
  PROVE  Apiece(PutBack(rows, kept)) /\ PutBack(rows, kept) \subseteq rows \cup kept
  BY DEF Apiece, PutBack, Returned, Ids

\* Identified survives a step of one thread that leaves the edges identified.
LEMMA IdentifiedKeeps ==
  ASSUME Types, Types', Identified, NEW t \in Thread, Alone(t), minted <= minted', Apiece(edges'),
         \A e \in edges' : e.id <= minted',
         call'[t].op = "rebuild" =>
           /\ Apiece(call'[t].edges \cup call'[t].reviewed)
           /\ \A e \in call'[t].edges \cup call'[t].reviewed : e.id <= minted'
  PROVE  Identified'
  <1>1. ASSUME NEW u \in Thread, u # t, call'[u].op = "rebuild"
        PROVE  /\ Apiece(call'[u].edges \cup call'[u].reviewed)
               /\ \A e \in call'[u].edges \cup call'[u].reviewed : e.id <= minted'
    <2>1. call'[u] = call[u]
      BY <1>1 DEF Alone
    <2>2. call[u].edges \subseteq EdgeRow /\ call[u].reviewed \subseteq EdgeRow
      BY <1>1, <2>1, CallsAre
    <2>3. minted \in Nat /\ minted' \in Nat /\ \A e \in EdgeRow : e.id \in Nat
      BY Numbers DEF Types
    <2>4. QED
      BY <1>1, <2>1, <2>2, <2>3 DEF Identified
  <1>2. \A u \in Thread : call'[u].op = "rebuild" =>
          /\ Apiece(call'[u].edges \cup call'[u].reviewed)
          /\ \A e \in call'[u].edges \cup call'[u].reviewed : e.id <= minted'
    BY <1>1
  <1>3. QED
    BY <1>2 DEF Identified, Apiece

\* Identified survives every step.
LEMMA IdentifiedStep ==
  ASSUME Types, Types', Identified, NEW t \in Thread, Step(t)
  PROVE  Identified'
  <1>1. Alone(t) /\ (Begins(t) \/ Continues(t) \/ Finishes(t))
    BY StepMoves
  <1>2. minted \in Nat /\ minted' \in Nat /\ (\A e \in EdgeRow : e.id \in Nat) /\ edges \subseteq EdgeRow
    <2>1. minted' \in 0 .. MaxEdges /\ edges \subseteq EdgeRow
      BY DEF Types
    <2>2. QED
      BY <2>1, Numbers, TreesAssumption
  <1>3. Apiece(edges) /\ \A e \in edges : e.id <= minted
    BY DEF Identified
  <1>4. ASSUME minted <= minted', ~ ReadEdges(t), call'[t].op = "rebuild"
        PROVE  /\ Apiece(call'[t].edges \cup call'[t].reviewed)
               /\ \A e \in call'[t].edges \cup call'[t].reviewed : e.id <= minted'
    <2>1. CASE RebuildStep(t)
      <3>1. /\ call'[t].edges = call[t].edges /\ call'[t].reviewed = call[t].reviewed
            /\ call[t].op = "rebuild"
        BY <1>4, <2>1, RebuildReads
      <3>2. call[t].edges \subseteq EdgeRow /\ call[t].reviewed \subseteq EdgeRow
        BY <3>1, CallsAre
      <3>3. QED
        BY <1>2, <1>4, <3>1, <3>2 DEF Identified
    <2>2. CASE BeginRebuild(t)
      <3>1. PICK l, s : Enter(t, "readRows", {Document, Queue}, Rebuild(made + 1, l, s))
        BY <2>2 DEF BeginRebuild
      <3>2. call'[t].edges = {} /\ call'[t].reviewed = {}
        BY <3>1, EnterAlone DEF Rebuild
      <3>3. QED
        BY <3>2 DEF Apiece
    <2>3. CASE ~ RebuildStep(t) /\ ~ BeginRebuild(t)
      BY <1>4, <2>3, DocumentSteps
    <2>4. QED
      BY <2>1, <2>2, <2>3
  <1>5. CASE ReadEdges(t)
    <2> DEFINE es == {e \in edges : e.home}
               rs == ReviewedTouching(OldNodes(call[t]))
               d == [call[t] EXCEPT !.edges = es, !.reviewed = rs]
    <2>1. call'[t] = d /\ UNCHANGED storeVars /\ pc[t] = "readEdges"
      BY <1>5, GotoAlone DEF ReadEdges, Goto
    <2>2. es \cup rs \subseteq edges
      BY DEF ReviewedTouching
    <2>3. call[t] \in RebuildCall
      BY <2>1, AtRebuild DEF RebuildSteps
    <2> HIDE DEF es, rs
    <2>4. d.edges = es /\ d.reviewed = rs
      BY <2>3 DEF RebuildCall
    <2>5. edges' = edges /\ minted' = minted
      BY <2>1 DEF storeVars
    <2> HIDE DEF d
    <2>6. Apiece(es \cup rs) /\ \A e \in es \cup rs : e.id <= minted
      BY <1>3, <2>2 DEF Apiece
    <2>7. QED
      BY <1>1, <1>2, <1>3, <2>1, <2>4, <2>5, <2>6, IdentifiedKeeps
  <1>6. CASE InsertHints(t)
    <2> DEFINE hs == Hints(call[t])
               k == Cardinality(hs)
    <2>1. \/ hs = {} /\ k = 0
          \/ \E h : hs = {h} /\ h.id = minted + 1 /\ k = 1
      BY CardinalityOfHints
    <2>2. \/ edges' = edges /\ minted' = minted
          \/ edges' = edges \cup hs /\ minted' = minted + k
      BY <1>6 DEF InsertHints
    <2> HIDE DEF hs, k
    <2>3. minted <= minted' /\ Apiece(edges') /\ \A e \in edges' : e.id <= minted'
      <3>1. CASE edges' = edges /\ minted' = minted
        BY <1>2, <1>3, <3>1
      <3>2. CASE edges' = edges \cup hs /\ minted' = minted + k /\ hs = {} /\ k = 0
        BY <1>2, <1>3, <3>2
      <3>3. CASE edges' = edges \cup hs /\ minted' = minted + k /\ k = 1 /\ \E h : hs = {h} /\ h.id = minted + 1
        BY <1>2, <1>3, <3>3 DEF Apiece
      <3>4. QED
        BY <2>1, <2>2, <3>1, <3>2, <3>3
    <2>4. ~ ReadEdges(t)
      BY <1>6 DEF InsertHints, ReadEdges, Goto
    <2>5. QED
      BY <1>1, <1>4, <2>3, <2>4, IdentifiedKeeps
  <1>7. CASE InsertEdge(t)
    <2>1. \/ edges' = edges /\ minted' = minted
          \/ edges' = edges \cup {ReviewedEdge(call[t].pair)} /\ minted' = minted + 1
      BY <1>7 DEF InsertEdge
    <2>2. ReviewedEdge(call[t].pair).id = minted + 1
      BY DEF ReviewedEdge
    <2>3. minted <= minted' /\ Apiece(edges') /\ \A e \in edges' : e.id <= minted'
      BY <1>2, <1>3, <2>1, <2>2 DEF Apiece
    <2>4. ~ ReadEdges(t)
      BY <1>7 DEF InsertEdge, ReadEdges, Goto
    <2>5. QED
      BY <1>1, <1>4, <2>3, <2>4, IdentifiedKeeps
  <1>8. CASE CarryEdge(t)
    <2>1. PICK old \in call[t].left :
            edges' = {IF e.id = old.id THEN Carried(call[t], old, e) ELSE e : e \in edges}
      BY <1>8 DEF CarryEdge
    <2>2. call[t] \in RebuildCall /\ minted' = minted /\ ~ ReadEdges(t)
      BY <1>8, AtRebuild DEF CarryEdge, ReadEdges, Goto, RebuildSteps, Trying
    <2>3. old \in EdgeRow
      BY <2>2 DEF RebuildCall
    <2>4. \A e \in edges : Carried(call[t], old, e).id = e.id
      BY <1>2, <2>2, <2>3, CarriedType
    <2>5. \A f \in edges' : \E e \in edges :
            f = (IF e.id = old.id THEN Carried(call[t], old, e) ELSE e) /\ f.id = e.id
      BY <2>1, <2>4
    <2>6. Apiece(edges') /\ \A e \in edges' : e.id <= minted'
      BY <1>3, <2>2, <2>5 DEF Apiece
    <2>7. QED
      BY <1>1, <1>2, <1>4, <2>2, <2>6, IdentifiedKeeps
  <1>9. CASE RestoreEdges(t) \/ RestoreReviewed(t)
    <2>1. pc[t] \in {"restoreEdges", "restoreReviewed"} /\ minted' = minted /\ ~ ReadEdges(t)
      BY <1>9 DEF RestoreEdges, RestoreReviewed, ReadEdges, Goto
    <2>2. call[t].op = "rebuild"
      BY <2>1, AtRebuild DEF RebuildSteps, Restoring
    <2>3. /\ Apiece(call[t].edges \cup call[t].reviewed)
          /\ \A e \in call[t].edges \cup call[t].reviewed : e.id <= minted
      BY <2>2 DEF Identified
    <2>4. PICK rows, kept : /\ edges' = PutBack(rows, kept) /\ kept \subseteq edges
                            /\ rows = call[t].edges \/ rows = call[t].reviewed
      <3>1. CASE RestoreEdges(t)
        <4> DEFINE kept == {e \in edges : e.home => e.id \in Ids(call[t].edges)}
        <4>1. edges' = PutBack(call[t].edges, kept)
          BY <3>1 DEF RestoreEdges
        <4>2. kept \subseteq edges
          OBVIOUS
        <4> HIDE DEF kept
        <4>3. QED
          BY <4>1, <4>2
      <3>2. CASE RestoreReviewed(t)
        BY <3>2 DEF RestoreReviewed
      <3>3. QED
        BY <1>9, <3>1, <3>2
    <2>5. Apiece(rows) /\ Apiece(kept)
      BY <1>3, <2>3, <2>4 DEF Apiece
    <2>6. Apiece(edges') /\ \A e \in edges' : e.id <= minted'
      BY <1>3, <2>1, <2>3, <2>4, <2>5, PutBackApiece
    <2>7. QED
      BY <1>1, <1>2, <1>4, <2>1, <2>6, IdentifiedKeeps
  <1>10. CASE ~ (\/ ReadEdges(t) \/ InsertHints(t) \/ InsertEdge(t) \/ CarryEdge(t) \/ RestoreEdges(t)
                 \/ RestoreReviewed(t))
    <2>1. edges' = edges /\ minted' = minted
      BY <1>10, StoreFrames DEF RebuildStep, ReadRows, SupersedeTrees, SupersedeNodes, WriteDocument,
           InsertTree, InsertNode, MapNodes, Fail, RestoreDocument, RestoreTrees, RestoreNodes, storeVars,
           ReviewTree, ReviewNodes, BeginRebuild
    <2>2. QED
      BY <1>1, <1>2, <1>3, <1>4, <1>10, <2>1, IdentifiedKeeps
  <1>11. QED
    BY <1>5, <1>6, <1>7, <1>8, <1>9, <1>10

-------------------------------------------------------------------------------
(* Versions *)

\* The document has one request at a time, or it is torn.
LEMMA OneRequest ==
  ASSUME Touches', NEW t \in Thread, Document \notin torn', Document \in touch'[t]
  PROVE  \A u \in Thread \ {t} : call'[u].op \notin DocumentOps
  BY DEF Touches

\* While the one that has it moves, no other has come to it.
LEMMA OthersStay ==
  ASSUME Touches, NEW t \in Thread, Alone(t), Document \notin torn, call[t].op \in DocumentOps
  PROVE  \A u \in Thread \ {t} : call'[u].op \notin DocumentOps
  BY DEF Touches, Alone

\* Versions holds after a step of the only request of the document, if it holds of that one.
LEMMA VersionsKeeps ==
  ASSUME NEW t \in Thread, \A u \in Thread \ {t} : call'[u].op \notin DocumentOps,
         Hidden(tree)',
         call'[t].op \notin DocumentOps => Whole(document, tree, row)',
         call'[t].op = "rebuild" => RebuildPhase(pc[t], call[t])',
         call'[t].op = "treeReview" => ReviewPhase(pc[t], call[t])'
  PROVE  Versions'
  <1>1. \A u \in Thread : call'[u].op \in DocumentOps => u = t
    OBVIOUS
  <1>2. "rebuild" \in DocumentOps /\ "treeReview" \in DocumentOps
    BY DEF DocumentOps
  <1>3. (\A u \in Thread : call'[u].op \notin DocumentOps) => Whole(document, tree, row)'
    OBVIOUS
  <1>4. \A u \in Thread : call'[u].op = "rebuild" => RebuildPhase(pc[u], call[u])'
    BY <1>1, <1>2
  <1>5. \A u \in Thread : call'[u].op = "treeReview" => ReviewPhase(pc[u], call[u])'
    BY <1>1, <1>2
  <1>6. QED
    BY <1>3, <1>4, <1>5 DEF Versions

\* A step of neither a rebuild nor a review of a tree.
LEMMA VersionsQuiet ==
  ASSUME Versions, NEW t \in Thread, Alone(t), torn \subseteq torn',
         call[t].op \notin DocumentOps, call'[t].op \notin DocumentOps,
         UNCHANGED <<document, tree, layout, row, shown>>, edges \subseteq edges'
  PROVE  Versions'
  <1>1. \A u \in Thread : call'[u].op \in DocumentOps => call'[u] = call[u] /\ pc'[u] = pc[u]
    BY DEF Alone
  <1>2. \A u \in Thread : call[u].op \in DocumentOps => call'[u] = call[u] /\ pc'[u] = pc[u]
    BY DEF Alone
  <1>3. SUFFICES ASSUME Document \notin torn' PROVE Versions'
    BY DEF Versions
  <1>4. Hidden(tree)'
    BY <1>3 DEF Versions, Hidden
  <1>5. Whole(document, tree, row) => Whole(document, tree, row)'
    BY DEF Whole, Laid
  <1>6. ASSUME NEW u \in Thread, call'[u].op = "rebuild"
        PROVE  RebuildPhase(pc[u], call[u])'
    <2>1. call'[u] = call[u] /\ pc'[u] = pc[u]
      BY <1>1, <1>6 DEF DocumentOps
    <2>2. RebuildPhase(pc[u], call[u])
      BY <1>3, <1>6, <2>1 DEF Versions
    <2>3. Snapshot(call[u]) => Snapshot(call[u])'
      BY <2>1 DEF Snapshot, Whole, Hidden, Laid
    <2>4. QED
      BY <1>5, <2>1, <2>2, <2>3 DEF RebuildPhase
  <1>7. ASSUME NEW u \in Thread, call'[u].op = "treeReview"
        PROVE  ReviewPhase(pc[u], call[u])'
    <2>1. call'[u] = call[u] /\ pc'[u] = pc[u]
      BY <1>1, <1>7 DEF DocumentOps
    <2>2. ReviewPhase(pc[u], call[u])
      BY <1>3, <1>7, <2>1 DEF Versions
    <2>3. QED
      BY <2>1, <2>2 DEF ReviewPhase, Whole, Laid
  <1>8. (\A u \in Thread : call'[u].op \notin DocumentOps) => Whole(document, tree, row)'
    BY <1>2, <1>3, <1>5 DEF Versions
  <1>9. QED
    BY <1>4, <1>6, <1>7, <1>8 DEF Versions

\* the begin of either,
LEMMA BeginVersions ==
  ASSUME Types, Types', Touches, Touches', Layered, Versions, NEW t \in Thread, BeginRebuild(t) \/ FindTree(t)
  PROVE  Versions'
  <1>1. Alone(t) /\ Begins(t)
    BY BeginMoves
  <1>2. torn \subseteq torn'
    BY <1>1 DEF Begins
  <1>3. SUFFICES ASSUME Document \notin torn' PROVE Versions'
    BY DEF Versions
  <1>4. UNCHANGED <<document, tree, layout, row, shown>>
    BY DEF BeginRebuild, FindTree, storeVars
  <1>5. call'[t].op \in DocumentOps /\ Document \in touch'[t]
    <2>1. CASE BeginRebuild(t)
      <3>1. PICK l, s : Enter(t, "readRows", {Document, Queue}, Rebuild(made + 1, l, s))
        BY <2>1 DEF BeginRebuild
      <3>2. QED
        BY <3>1, EnterAlone DEF Rebuild, DocumentOps
    <2>2. CASE FindTree(t)
      BY <2>2, EnterAlone DEF FindTree, DocumentOps
    <2>3. QED
      BY <2>1, <2>2
  <1>6. \A u \in Thread \ {t} : call'[u].op \notin DocumentOps
    BY <1>3, <1>5, OneRequest
  <1>7. \A u \in Thread : call[u].op \notin DocumentOps
    <2>1. call[t].op \notin DocumentOps
      BY <1>1 DEF Begins, NoCall, DocumentOps
    <2>2. QED
      BY <1>1, <1>6, <2>1 DEF Alone
  <1>8. Whole(document, tree, row) /\ Hidden(tree)
    BY <1>2, <1>3, <1>7 DEF Versions
  <1>9. Whole(document, tree, row)' /\ Hidden(tree)'
    BY <1>4, <1>8 DEF Whole, Hidden, Laid
  <1>10. CASE BeginRebuild(t)
    <2>1. PICK l, s : Enter(t, "readRows", {Document, Queue}, Rebuild(made + 1, l, s))
      BY <1>10 DEF BeginRebuild
    <2>2. pc'[t] = "readRows" /\ call'[t].op = "rebuild"
      BY <2>1, EnterAlone DEF Rebuild
    <2>3. RebuildPhase(pc[t], call[t])'
      BY <1>9, <2>2 DEF RebuildPhase, Restoring
    <2>4. QED
      BY <1>6, <1>9, <2>2, <2>3, VersionsKeeps DEF DocumentOps
  <1>11. CASE FindTree(t)
    <2>1. PICK i \in Version, verdict \in {"active", "rejected"} :
            /\ tree[i] = "pending_review"
            /\ Enter(t, "reviewTree", {Document, Queue},
                     [op |-> "treeReview", tree |-> i, verdict |-> verdict])
      BY <1>11 DEF FindTree
    <2>2. pc'[t] = "reviewTree" /\ call'[t].op = "treeReview" /\ call'[t].tree = i
      BY <2>1, EnterAlone
    <2>3. ReviewPhase(pc[t], call[t])'
      BY <1>4, <1>9, <2>1, <2>2 DEF ReviewPhase
    <2>4. QED
      BY <1>6, <1>9, <2>2, <2>3, VersionsKeeps DEF DocumentOps
  <1>12. QED
    BY <1>10, <1>11

\* a review of a tree,
LEMMA ReviewVersions ==
  ASSUME Types, Types', Touches, Layered, Versions, NEW t \in Thread, ReviewTree(t) \/ ReviewNodes(t)
  PROVE  Versions'
  <1> DEFINE c == call[t]
  <1>1. Alone(t) /\ (Continues(t) \/ Finishes(t)) /\ torn \subseteq torn'
    BY OtherMoves DEF Continues, Finishes
  <1>2. SUFFICES ASSUME Document \notin torn' PROVE Versions'
    BY DEF Versions
  <1>3. c.op = "treeReview" /\ c.tree \in Version /\ c.verdict \in {"active", "rejected"}
    <2>1. pc[t] \in {"reviewTree", "reviewNodes"} /\ CallTypes(pc[t], c)
      BY DEF ReviewTree, ReviewNodes, Goto, Types
    <2>2. c.op = "treeReview"
      BY <2>1, CallKinds
    <2>3. QED
      BY <2>2, CallsAre
  <1>4. \A u \in Thread \ {t} : call'[u].op \notin DocumentOps
    BY <1>1, <1>2, <1>3, OthersStay DEF DocumentOps
  <1>5. Hidden(tree) /\ ReviewPhase(pc[t], c)
    BY <1>1, <1>2, <1>3 DEF Versions
  <1>6. c.tree \in Tree /\ Version \subseteq Tree
    BY <1>3, Numbers
  <1>7. CASE ReviewTree(t)
    <2>1. pc[t] = "reviewTree" /\ pc'[t] = "reviewNodes" /\ call'[t] = c
      BY <1>7, GotoAlone DEF ReviewTree, Goto
    <2>2. Whole(document, tree, row) /\ tree[c.tree] = "pending_review"
      BY <1>5, <2>1 DEF ReviewPhase
    <2>3. /\ tree' = [tree EXCEPT ![c.tree] = c.verdict]
          /\ shown' = IF c.verdict = "active" THEN shown \cup {c.tree} ELSE shown
          /\ UNCHANGED <<document, layout, row>>
      BY <1>7, <2>2 DEF ReviewTree
    <2>4. [tree' EXCEPT ![c.tree] = "pending_review"] = tree /\ tree'[c.tree] = c.verdict
      BY <1>6, <2>2, <2>3 DEF Types
    <2>5. \A i \in Version : i # c.tree => tree'[i] = tree[i]
      BY <1>6, <2>3 DEF Types
    <2>6. Hidden(tree)'
      BY <1>3, <1>5, <2>2, <2>3, <2>4, <2>5 DEF Hidden
    <2>7. Whole(document, [tree EXCEPT ![c.tree] = "pending_review"], row)'
      <3> DEFINE tr == [tree EXCEPT ![c.tree] = "pending_review"]
      <3>1. tr' = tree
        BY <2>1, <2>4
      <3> HIDE DEF tr
      <3>2. Whole(document, tr, row)'
        BY <2>2, <2>3, <3>1 DEF Whole, Laid
      <3>3. QED
        BY <3>2 DEF tr
    <2>8. ReviewPhase(pc[t], call[t])'
      BY <2>1, <2>4, <2>7 DEF ReviewPhase
    <2>9. QED
      BY <1>3, <1>4, <2>1, <2>6, <2>8, VersionsKeeps DEF DocumentOps
  <1>8. CASE ReviewNodes(t)
    <2>1. pc[t] = "reviewNodes" /\ call'[t] = NoCall
      BY <1>8, LeaveAlone DEF ReviewNodes
    <2>2. UNCHANGED <<document, tree, layout, shown>>
      BY <1>8 DEF ReviewNodes
    <2>3. \A n \in Node : row'[n] = IF n[1] = c.tree /\ row[n] # "absent" THEN c.verdict ELSE row[n]
      BY <1>8 DEF ReviewNodes
    <2> DEFINE tr == [tree EXCEPT ![c.tree] = "pending_review"]
    <2>4. Whole(document, tr, row) /\ tree[c.tree] = c.verdict
      BY <1>5, <2>1 DEF ReviewPhase
    <2>5. \A i \in Tree : tr[i] = IF i = c.tree THEN "pending_review" ELSE tree[i]
      BY <1>6 DEF Types
    <2> HIDE DEF tr
    <2>6. \A n \in Node : n[1] \in Tree
      BY DEF Node
    <2>7. \A i \in Version : tree[i] \in {"absent", "superseded"} <=> i # document
      BY <1>3, <1>6, <2>4, <2>5 DEF Whole
    <2>8. \A n \in Node : row'[n] = IF Laid(n) THEN tree[n[1]] ELSE "absent"
      BY <1>3, <2>3, <2>4, <2>5, <2>6 DEF Whole
    <2>9. Whole(document, tree, row)' /\ Hidden(tree)'
      BY <1>5, <2>2, <2>7, <2>8 DEF Whole, Hidden, Laid
    <2>10. QED
      BY <1>4, <2>1, <2>9, VersionsKeeps DEF NoCall
  <1>9. QED
    BY <1>7, <1>8

\* a rebuild,
LEMMA RebuildVersions ==
  ASSUME Types, Types', Touches, Layered, Layered', Versions, NEW t \in Thread, RebuildStep(t)
  PROVE  Versions'
  <1> DEFINE c == call[t]
             p == pc[t]
  <1>1. Alone(t) /\ (Continues(t) \/ Finishes(t)) /\ torn \subseteq torn'
    BY RebuildMoves DEF Continues, Finishes
  <1>2. SUFFICES ASSUME Document \notin torn' PROVE Versions'
    BY DEF Versions
  <1>3. p \in RebuildSteps
    BY DEF RebuildStep, ReadRows, ReadEdges, SupersedeTrees, SupersedeNodes, WriteDocument,
           InsertTree, InsertNode, InsertHints, MapNodes, CarryEdge, Fail, RestoreDocument, RestoreTrees,
           RestoreNodes, RestoreEdges, RestoreReviewed, Goto, RebuildSteps, Restoring, Trying
  <1>4. /\ c \in RebuildCall /\ c.op = "rebuild" /\ c.new \in Version /\ c.new \in Tree \ {0}
        /\ c.status \in {"active", "pending_review"} /\ c.layout \in Layouts
        /\ c.document \in Version /\ c.tree \in [Tree -> TreeStatus] /\ c.row \in [Node -> TreeStatus]
    BY <1>3, AtRebuild, Numbers
  <1>5. \A u \in Thread \ {t} : call'[u].op \notin DocumentOps
    BY <1>1, <1>2, <1>4, OthersStay DEF DocumentOps
  <1>6. Hidden(tree) /\ RebuildPhase(p, c)
    BY <1>1, <1>2, <1>4 DEF Versions
  <1>7. RebuildLaid(p, c)
    BY <1>4 DEF Layered
  <1>8. /\ tree \in [Tree -> TreeStatus] /\ row \in [Node -> TreeStatus] /\ Version \subseteq Tree
        /\ 0 \in Tree /\ 0 \notin Version /\ tree[0] = "active"
    BY Numbers DEF Types, Layered
  <1>9. \A s : Superseded(s) = IF s = "absent" THEN s ELSE "superseded"
    BY DEF Superseded
  <1>10. ASSUME Hidden(tree)', RebuildPhase(pc[t], call[t])', call'[t].op = "rebuild"
         PROVE  Versions'
    BY <1>5, <1>10, VersionsKeeps DEF DocumentOps
  <1>11. ASSUME Hidden(tree)', Whole(document, tree, row)', call'[t] = NoCall
         PROVE  Versions'
    BY <1>5, <1>11, VersionsKeeps DEF DocumentOps, NoCall
  <1>12. UNCHANGED <<tree, shown>> => Hidden(tree)'
    BY <1>6 DEF Hidden
  <1>13. p # "readRows" => Snapshot(c)
    BY <1>6 DEF RebuildPhase
  <1>14. ASSUME Whole(document, tree, row), UNCHANGED <<document, tree, layout, row>>
         PROVE  Whole(document, tree, row)'
    BY <1>14 DEF Whole, Laid
  <1>15. \A n \in Node : n[1] \in Tree
    BY DEF Node
  <1> HIDE DEF c, p
  <1>16. CASE ReadRows(t)
    <2> DEFINE d == [c EXCEPT !.document = document, !.tree = tree, !.row = row]
    <2>1. pc'[t] = "readEdges" /\ call'[t] = d /\ p = "readRows" /\ UNCHANGED storeVars
      BY <1>16, GotoAlone DEF ReadRows, Goto, c, p
    <2>2. d.new = c.new /\ d.op = "rebuild" /\ d.document = document /\ d.tree = tree /\ d.row = row
      BY <1>4 DEF RebuildCall
    <2> HIDE DEF d
    <2>3. Whole(document, tree, row)
      BY <1>6, <2>1 DEF RebuildPhase
    <2>4. tree[c.new] = "absent"
      BY <1>4, <1>7, <2>1 DEF RebuildLaid, Layered
    <2>5. Snapshot(d)
      BY <1>6, <1>8, <2>2, <2>3, <2>4 DEF Snapshot
    <2>6. UNCHANGED <<document, tree, layout, row, shown>>
      BY <2>1 DEF storeVars
    <2>7. RebuildPhase(pc[t], call[t])'
      <3>1. Snapshot(call[t])'
        BY <2>1, <2>5, <2>6 DEF Snapshot, Whole, Hidden, Laid
      <3>2. QED
        BY <2>1, <2>2, <2>6, <3>1 DEF RebuildPhase, Restoring
    <2>8. QED
      BY <1>10, <1>12, <2>1, <2>2, <2>6, <2>7
  <1>17. CASE ReadEdges(t)
    <2> DEFINE es == {e \in edges : e.home}
               rs == ReviewedTouching(OldNodes(c))
               d == [c EXCEPT !.edges = es, !.reviewed = rs]
    <2>1. pc'[t] = "supersedeTrees" /\ call'[t] = d /\ p = "readEdges" /\ UNCHANGED storeVars
      BY <1>17, GotoAlone DEF ReadEdges, Goto, c, p
    <2> HIDE DEF es, rs
    <2>2. d.new = c.new /\ d.op = "rebuild" /\ d.document = c.document /\ d.tree = c.tree /\ d.row = c.row
      BY <1>4 DEF RebuildCall
    <2> HIDE DEF d
    <2>3. UNCHANGED <<document, tree, layout, row, shown>>
      BY <2>1 DEF storeVars
    <2>4. document = c.document /\ tree = c.tree /\ row = c.row
      BY <1>6, <2>1 DEF RebuildPhase
    <2>5. RebuildPhase(pc[t], call[t])'
      <3>1. Snapshot(call[t])'
        BY <1>13, <2>1, <2>2, <2>3 DEF Snapshot, Whole, Hidden, Laid
      <3>2. QED
        BY <2>1, <2>2, <2>3, <2>4, <3>1 DEF RebuildPhase, Restoring
    <2>6. QED
      BY <1>10, <1>12, <2>1, <2>2, <2>3, <2>5
  <1>18. CASE SupersedeTrees(t)
    <2>1. /\ pc'[t] = "supersedeNodes" /\ call'[t] = c /\ p = "supersedeTrees"
          /\ UNCHANGED <<document, layout, row, shown>>
      BY <1>18, GotoAlone DEF SupersedeTrees, Goto, c, p
    <2>2. document = c.document /\ tree = c.tree /\ row = c.row
      BY <1>6, <2>1 DEF RebuildPhase
    <2>3. tree' = Retired(c.tree)
      BY <1>18, <2>2 DEF SupersedeTrees, Retired
    <2>4. Snapshot(call[t])'
      BY <1>13, <2>1 DEF Snapshot, Whole, Hidden, Laid
    <2>5. Hidden(tree)'
      BY <1>8, <1>9, <2>3 DEF Hidden, Retired
    <2>6. RebuildPhase(pc[t], call[t])'
      BY <2>1, <2>2, <2>3, <2>4 DEF RebuildPhase, Restoring
    <2>7. QED
      BY <1>4, <1>10, <2>1, <2>5, <2>6
  <1>19. CASE SupersedeNodes(t)
    <2>1. /\ pc'[t] = "writeDocument" /\ call'[t] = c /\ p = "supersedeNodes"
          /\ UNCHANGED <<document, tree, layout, shown>>
      BY <1>19, GotoAlone DEF SupersedeNodes, Goto, c, p
    <2>2. tree = Retired(c.tree) /\ row = c.row
      BY <1>6, <2>1 DEF RebuildPhase
    <2>3. row' = RetiredRows(c.row)
      BY <1>19, <2>2 DEF SupersedeNodes, RetiredRows
    <2>4. Snapshot(call[t])'
      BY <1>13, <2>1 DEF Snapshot, Whole, Hidden, Laid
    <2>5. RebuildPhase(pc[t], call[t])'
      BY <2>1, <2>2, <2>3, <2>4 DEF RebuildPhase, Restoring
    <2>6. QED
      BY <1>4, <1>10, <1>12, <2>1, <2>5
  <1>20. CASE WriteDocument(t)
    <2>1. /\ pc'[t] = "insertTree" /\ call'[t] = c /\ p = "writeDocument"
          /\ UNCHANGED <<tree, layout, row, shown>>
      BY <1>20, GotoAlone DEF WriteDocument, Goto, c, p
    <2>2. tree = Retired(c.tree) /\ row = RetiredRows(c.row)
      BY <1>6, <2>1 DEF RebuildPhase
    <2>3. document' = c.new
      BY <1>20 DEF WriteDocument, c
    <2>4. Snapshot(call[t])'
      BY <1>13, <2>1 DEF Snapshot, Whole, Hidden, Laid
    <2>5. RebuildPhase(pc[t], call[t])'
      BY <2>1, <2>2, <2>3, <2>4 DEF RebuildPhase, Restoring
    <2>6. QED
      BY <1>4, <1>10, <1>12, <2>1, <2>5
  <1>21. CASE InsertTree(t)
    <2>1. /\ pc'[t] = "insertNodes" /\ call'[t] = c /\ p = "insertTree"
          /\ UNCHANGED <<document, row>>
      BY <1>21, GotoAlone DEF InsertTree, Goto, c, p
    <2>2. document = c.new /\ tree = Retired(c.tree) /\ row = RetiredRows(c.row)
      BY <1>6, <2>1 DEF RebuildPhase
    <2>3. /\ tree' = [tree EXCEPT ![c.new] = c.status]
          /\ layout' = [layout EXCEPT ![c.new] = c.layout]
          /\ shown' = IF c.status = "active" THEN shown \cup {c.new} ELSE shown
      BY <1>21 DEF InsertTree, c
    <2>4. layout[c.new] = <<>> /\ c.new \notin shown
      BY <1>4, <1>7, <2>1 DEF RebuildLaid, Layered
    <2>5. Snapshot(c) /\ c.tree[c.new] = "absent"
      BY <1>13, <2>1 DEF Snapshot
    <2>6. \A n \in Node : n[1] # c.new => (Laid(n)' <=> Laid(n))
      BY <1>4, <1>15, <2>3 DEF Laid, Types
    <2>7. \A n \in Node : n[1] = c.new => ~ Laid(n)
      BY <2>4, Lengths DEF Laid, Node, Width
    <2>8. \A n \in Node : c.row[n] = IF Laid(n)' THEN c.tree[n[1]] ELSE "absent"
      BY <2>5, <2>6, <2>7 DEF Snapshot, Whole
    <2>9. Whole(c.document, c.tree, c.row)'
      <3>1. c' = c
        BY <2>1 DEF c
      <3>2. QED
        BY <2>5, <2>8, <3>1 DEF Snapshot, Whole
    <2>10. \A i \in Version : c.tree[i] \in {"pending_review", "rejected"} => i \notin shown'
      BY <2>3, <2>5 DEF Snapshot, Hidden
    <2>11. Snapshot(call[t])'
      <3>1. Hidden(c.tree)'
        BY <2>1, <2>10 DEF Hidden, c
      <3>2. Whole(call[t].document, call[t].tree, call[t].row)' /\ Hidden(call[t].tree)'
        BY <2>9, <3>1 DEF c
      <3>3. QED
        BY <2>1, <2>5, <3>2 DEF Snapshot
    <2>12. Hidden(tree)'
      BY <1>4, <1>6, <1>8, <2>3, <2>4 DEF Hidden
    <2>13. c.key = 1
      <3>1. CallTypes(p, c)
        BY DEF Types, p, c
      <3>2. Counted(p, c)
        BY <1>4, <3>1, CallKinds
      <3>3. QED
        BY <2>1, <3>2 DEF Counted
    <2>14. row' = [n \in Node |-> IF n[1] = c.new /\ n[2] < c.key THEN c.status ELSE RetiredRows(c.row)[n]]
      <3>1. \A n \in Node : ~ (n[2] < c.key)
        BY <2>13 DEF Node, Width
      <3>2. RetiredRows(c.row) = [n \in Node |-> RetiredRows(c.row)[n]]
        BY DEF RetiredRows
      <3>3. QED
        BY <2>1, <2>2, <3>1, <3>2
    <2>15. RebuildPhase(pc[t], call[t])'
      BY <2>1, <2>2, <2>3, <2>11, <2>14 DEF RebuildPhase, Restoring
    <2>16. QED
      BY <1>4, <1>10, <2>1, <2>12, <2>15
  <1>22. CASE InsertNode(t)
    <2> DEFINE d == [c EXCEPT !.key = c.key + 1]
    <2>1. /\ call' = [call EXCEPT ![t] = d] /\ call'[t] = d /\ p = "insertNodes"
          /\ UNCHANGED <<document, tree, layout, shown>>
      BY <1>22 DEF InsertNode, Types, Goto, c, p
    <2>2. pc'[t] = IF c.key = Len(c.layout) THEN "insertHints" ELSE "insertNodes"
      <3>1. PICK q : Goto(t, "insertNodes", q) /\ q = IF c.key = Len(c.layout) THEN "insertHints" ELSE "insertNodes"
        BY <1>22 DEF InsertNode, c
      <3>2. QED
        BY <3>1 DEF Goto, Types
    <2>3. /\ d.new = c.new /\ d.op = "rebuild" /\ d.document = c.document /\ d.tree = c.tree
          /\ d.row = c.row /\ d.status = c.status /\ d.key = c.key + 1
      BY <1>4 DEF RebuildCall
    <2> HIDE DEF d
    <2>4. /\ document = c.new /\ tree = [Retired(c.tree) EXCEPT ![c.new] = c.status]
          /\ row = [n \in Node |-> IF n[1] = c.new /\ n[2] < c.key
                                   THEN c.status ELSE RetiredRows(c.row)[n]]
      BY <1>6, <2>1 DEF RebuildPhase
    <2>5. c.key \in 1 .. Width + 1 /\ c.key <= Len(c.layout) /\ Len(c.layout) \in 1 .. Width
      <3>1. CallTypes(p, c)
        BY DEF Types, p, c
      <3>2. Counted(p, c)
        BY <1>4, <3>1, CallKinds
      <3>3. QED
        BY <1>4, <2>1, <3>2, Lengths DEF Counted, RebuildCall
    <2> DEFINE k == c.key
               l == Len(c.layout)
    <2>6. k \in Nat /\ l \in Nat /\ \A n \in Node : n[2] \in Nat /\ n = <<n[1], n[2]>>
      BY <2>5 DEF Node, Width
    <2>7. row' = [row EXCEPT ![<<c.new, k>>] = c.status]
      BY <1>22 DEF InsertNode, c
    <2> HIDE DEF k, l
    <2>8. \A n \in Node : row'[n] = IF n[1] = c.new /\ n[2] < k + 1
                                    THEN c.status ELSE RetiredRows(c.row)[n]
      <3>1. TAKE n \in Node
      <3>2. row[n] = IF n[1] = c.new /\ n[2] < k THEN c.status ELSE RetiredRows(c.row)[n]
        BY <2>4 DEF k
      <3>3. row'[n] = IF n = <<c.new, k>> THEN c.status ELSE row[n]
        BY <1>8, <2>7
      <3>4. n = <<c.new, k>> <=> n[1] = c.new /\ n[2] = k
        BY <2>6
      <3>5. QED
        BY <2>6, <3>2, <3>3, <3>4
    <2>9. row' = [n \in Node |-> IF n[1] = c.new /\ n[2] < k + 1 THEN c.status ELSE RetiredRows(c.row)[n]]
      BY <2>8 DEF Types
    <2>10. Snapshot(c)
      BY <1>13, <2>1
    <2>11. Snapshot(call[t])'
      BY <2>1, <2>3, <2>10 DEF Snapshot, Whole, Hidden, Laid
    <2>12. CASE c.key # Len(c.layout)
      <3>1. pc'[t] = "insertNodes"
        BY <2>2, <2>12
      <3>2. d.key = k + 1
        BY <2>3 DEF k
      <3>3. RebuildPhase(pc[t], call[t])'
        BY <2>1, <2>3, <2>4, <2>9, <2>11, <3>1, <3>2 DEF RebuildPhase, Restoring
      <3>4. QED
        BY <1>10, <1>12, <2>1, <2>3, <3>3
    <2>13. CASE c.key = Len(c.layout)
      <3>1. pc'[t] = "insertHints"
        BY <2>2, <2>13
      <3>2. tree[c.new] = c.status /\ \A i \in Tree \ {c.new} : tree[i] = IF i = 0 THEN c.tree[i] ELSE Superseded(c.tree[i])
        BY <1>4, <2>4 DEF Retired
      <3>3. \A i \in Version : tree[i] \in {"absent", "superseded"} <=> i # c.new
        BY <1>4, <1>8, <1>9, <3>2
      <3>4. layout[c.new] = c.layout
        BY <1>7, <2>1 DEF RebuildLaid
      <3>5. \A n \in Node : row'[n] = IF Laid(n) THEN tree[n[1]] ELSE "absent"
        <4>1. TAKE n \in Node
        <4>2. c.row[n] = IF Laid(n) THEN c.tree[n[1]] ELSE "absent"
          BY <2>10 DEF Snapshot, Whole
        <4>3. RetiredRows(c.row)[n] = IF n[1] # 0 THEN Superseded(c.row[n]) ELSE c.row[n]
          BY DEF RetiredRows, Ours
        <4>4. CASE n[1] = c.new
          <5>1. Laid(n) <=> n[2] <= l
            BY <3>4, <4>4 DEF Laid, l
          <5>2. n[2] <= l <=> n[2] < k + 1
            BY <2>6, <2>13 DEF k, l
          <5>3. c.tree[c.new] = "absent"
            BY <2>10 DEF Snapshot
          <5>4. RetiredRows(c.row)[n] = "absent"
            BY <1>9, <4>2, <4>3, <4>4, <5>3
          <5>5. QED
            BY <2>8, <3>2, <4>4, <5>1, <5>2, <5>4
        <4>5. CASE n[1] # c.new
          BY <1>9, <1>15, <2>8, <3>2, <4>2, <4>3, <4>5
        <4>6. QED
          BY <4>4, <4>5
      <3>6. Whole(document, tree, row)'
        BY <2>1, <2>4, <3>3, <3>5 DEF Whole, Laid
      <3>7. RebuildPhase(pc[t], call[t])'
        BY <2>1, <2>3, <2>4, <2>11, <3>1, <3>2, <3>6 DEF RebuildPhase, Restoring
      <3>8. QED
        BY <1>10, <1>12, <2>1, <2>3, <3>7
    <2>14. QED
      BY <2>12, <2>13
  <1>23. CASE InsertHints(t) \/ MapNodes(t) \/ CarryEdge(t)
    <2>1. p \in {"insertHints", "mapNodes", "carryEdges"} /\ UNCHANGED <<document, tree, layout, row, shown>>
      BY <1>23 DEF InsertHints, MapNodes, CarryEdge, storeVars, Goto, p
    <2>2. document = c.new /\ tree[c.new] = c.status /\ Whole(document, tree, row) /\ Snapshot(c)
      BY <1>6, <1>13, <2>1 DEF RebuildPhase
    <2>3. Whole(document, tree, row)' /\ Hidden(tree)'
      BY <1>12, <1>14, <2>1, <2>2
    <2>4. \/ call'[t] = NoCall
          \/ pc'[t] \in {"restoreDocument", "mapNodes", "carryEdges"} /\ call'[t].op = "rebuild"
      <3>1. CASE Finishes(t)
        BY <3>1 DEF Finishes
      <3>2. CASE Continues(t)
        <4>1. call'[t].op = "rebuild"
          BY <1>4, <3>2 DEF Continues, c
        <4>2. pc'[t] # "idle"
          BY <3>2 DEF Continues
        <4>3. CASE InsertHints(t)
          BY <4>1, <4>3 DEF InsertHints, Goto, Types
        <4>4. CASE MapNodes(t)
          BY <4>1, <4>2, <4>4 DEF MapNodes, Goto, Leave, Types
        <4>5. CASE CarryEdge(t)
          BY <4>1, <4>2, <4>5 DEF CarryEdge, Goto, Leave, Types
        <4>6. QED
          BY <1>23, <4>3, <4>4, <4>5
      <3>3. QED
        BY <1>1, <3>1, <3>2
    <2>5. CASE call'[t] = NoCall
      BY <1>11, <2>3, <2>5
    <2>6. CASE pc'[t] \in {"restoreDocument", "mapNodes", "carryEdges"} /\ call'[t].op = "rebuild"
      <3>1. /\ call'[t].new = c.new /\ call'[t].status = c.status /\ call'[t].document = c.document
            /\ call'[t].tree = c.tree /\ call'[t].row = c.row
        <4>1. ~ ReadRows(t)
          BY <2>1 DEF ReadRows, Goto, p
        <4>2. QED
          BY <2>6, <4>1, RebuildReads DEF c
      <3>2. Snapshot(call[t])'
        BY <2>1, <2>2, <3>1 DEF Snapshot, Whole, Hidden, Laid
      <3>3. RebuildPhase(pc[t], call[t])'
        BY <2>1, <2>2, <2>3, <2>6, <3>1, <3>2 DEF RebuildPhase, Restoring
      <3>4. QED
        BY <1>10, <2>3, <2>6, <3>3
    <2>7. QED
      BY <2>4, <2>5, <2>6
  <1>24. CASE Fail(t)
    <2>1. /\ pc'[t] = "restoreDocument" /\ call'[t] = c /\ p \in Trying
          /\ UNCHANGED <<document, tree, layout, row, shown>>
      BY <1>24 DEF Fail, Types, storeVars, c, p
    <2>2. Snapshot(call[t])'
      BY <1>13, <2>1 DEF Snapshot, Whole, Hidden, Laid, Trying
    <2>3. RebuildPhase(pc[t], call[t])'
      BY <2>1, <2>2 DEF RebuildPhase, Restoring
    <2>4. QED
      BY <1>4, <1>10, <1>12, <2>1, <2>3
  <1>25. CASE RestoreDocument(t)
    <2>1. /\ pc'[t] = "restoreTrees" /\ call'[t] = c /\ p = "restoreDocument"
          /\ UNCHANGED <<tree, layout, row, shown>> /\ document' = c.document
      BY <1>25, GotoAlone DEF RestoreDocument, Goto, c, p
    <2>2. Snapshot(call[t])'
      BY <1>13, <2>1 DEF Snapshot, Whole, Hidden, Laid
    <2>3. RebuildPhase(pc[t], call[t])'
      BY <2>1, <2>2 DEF RebuildPhase, Restoring
    <2>4. QED
      BY <1>4, <1>10, <1>12, <2>1, <2>3
  <1>26. CASE RestoreTrees(t)
    <2>1. /\ pc'[t] = "restoreNodes" /\ call'[t] = c /\ p = "restoreTrees"
          /\ UNCHANGED <<document, layout, row, shown>>
      BY <1>26, GotoAlone DEF RestoreTrees, Goto, c, p
    <2>2. tree' = [i \in Tree |-> IF i = 0 THEN tree[i] ELSE c.tree[i]]
      BY <1>26 DEF RestoreTrees, c
    <2>3. Snapshot(c) /\ document = c.document
      BY <1>6, <1>13, <2>1 DEF RebuildPhase, Restoring
    <2>4. tree' = c.tree
      BY <1>4, <1>8, <2>2, <2>3 DEF Snapshot
    <2>5. Snapshot(call[t])'
      BY <2>1, <2>3 DEF Snapshot, Whole, Hidden, Laid
    <2>6. Hidden(tree)'
      BY <2>1, <2>3, <2>4 DEF Snapshot, Hidden
    <2>7. RebuildPhase(pc[t], call[t])'
      BY <2>1, <2>3, <2>4, <2>5 DEF RebuildPhase, Restoring
    <2>8. QED
      BY <1>4, <1>10, <2>1, <2>6, <2>7
  <1>27. CASE RestoreNodes(t)
    <2>1. /\ pc'[t] = "restoreEdges" /\ call'[t] = c /\ p = "restoreNodes"
          /\ UNCHANGED <<document, tree, layout, shown>>
      BY <1>27, GotoAlone DEF RestoreNodes, Goto, c, p
    <2>2. row' = [n \in Node |-> IF Ours(n) THEN c.row[n] ELSE row[n]]
      BY <1>27 DEF RestoreNodes, c
    <2>3. Snapshot(c) /\ document = c.document /\ tree = c.tree
      BY <1>6, <1>13, <2>1 DEF RebuildPhase, Restoring
    <2>4. \A n \in Node : n[1] = 0 => c.row[n] = row[n]
      <3>1. TAKE n \in Node
      <3>2. HAVE n[1] = 0
      <3>3. c.row[n] = IF Laid(n) THEN "active" ELSE "absent"
        BY <2>3, <3>2 DEF Snapshot, Whole
      <3>4. Laid(n) <=> n[2] <= 1
        <4>1. layout[n[1]] = <<Far>>
          BY <3>2 DEF Layered
        <4>2. Len(layout[n[1]]) = 1
          BY <4>1, Lengths
        <4>3. QED
          BY <4>2 DEF Laid
      <3>5. n[2] \in 1 .. 2
        BY DEF Node, Width
      <3>6. row[n] = IF n[2] = 1 THEN "active" ELSE "absent"
        BY <3>2 DEF Layered
      <3>7. QED
        BY <3>3, <3>4, <3>5, <3>6
    <2>5. row' = c.row
      BY <1>4, <2>2, <2>4 DEF Ours
    <2>6. Snapshot(call[t])'
      BY <2>1, <2>3 DEF Snapshot, Whole, Hidden, Laid
    <2>7. RebuildPhase(pc[t], call[t])'
      BY <2>1, <2>3, <2>5, <2>6 DEF RebuildPhase, Restoring
    <2>8. QED
      BY <1>4, <1>10, <1>12, <2>1, <2>7
  <1>28. CASE RestoreEdges(t) \/ RestoreReviewed(t)
    <2>1. p \in {"restoreEdges", "restoreReviewed"} /\ UNCHANGED <<document, tree, layout, row, shown>>
      BY <1>28 DEF RestoreEdges, RestoreReviewed, p
    <2>2. Snapshot(c) /\ document = c.document /\ tree = c.tree /\ row = c.row
      BY <1>6, <1>13, <2>1 DEF RebuildPhase, Restoring
    <2>3. Whole(document, tree, row)' /\ Hidden(tree)'
      BY <1>12, <1>14, <2>1, <2>2 DEF Snapshot
    <2>4. \/ call'[t] = NoCall
          \/ pc'[t] = "restoreReviewed" /\ call'[t] = c /\ c.edges \subseteq edges'
      <3>1. CASE RestoreEdges(t)
        <4> DEFINE kept == {e \in edges : e.home => e.id \in Ids(c.edges)}
        <4>1. /\ edges' = PutBack(c.edges, kept)
              /\ IF Returned(c.edges, kept) = c.edges
                 THEN Goto(t, "restoreEdges", "restoreReviewed") /\ UNCHANGED call
                 ELSE LeaveRestored(t, FALSE)
          BY <3>1 DEF RestoreEdges, c
        <4> HIDE DEF kept
        <4>2. CASE Returned(c.edges, kept) = c.edges
          <5>1. c.edges \subseteq edges'
            BY <4>1, <4>2 DEF PutBack
          <5>2. QED
            BY <4>1, <4>2, <5>1, GotoAlone DEF c
        <4>3. CASE Returned(c.edges, kept) # c.edges
          BY <4>1, <4>3, LeaveGoes
        <4>4. QED
          BY <4>2, <4>3
      <3>2. CASE RestoreReviewed(t)
        BY <3>2, LeaveGoes DEF RestoreReviewed
      <3>3. QED
        BY <1>28, <3>1, <3>2
    <2>5. CASE call'[t] = NoCall
      BY <1>11, <2>3, <2>5
    <2>6. CASE pc'[t] = "restoreReviewed" /\ call'[t] = c /\ c.edges \subseteq edges'
      <3>1. Snapshot(call[t])'
        BY <2>1, <2>2, <2>6 DEF Snapshot, Whole, Hidden, Laid
      <3>2. RebuildPhase(pc[t], call[t])'
        BY <2>1, <2>2, <2>6, <3>1 DEF RebuildPhase, Restoring
      <3>3. QED
        BY <1>4, <1>10, <2>3, <2>6, <3>2
    <2>7. QED
      BY <2>4, <2>5, <2>6
  <1>29. QED
    BY <1>16, <1>17, <1>18, <1>19, <1>20, <1>21, <1>22, <1>23, <1>24, <1>25, <1>26, <1>27, <1>28
       DEF RebuildStep

\* and so every step.
LEMMA VersionsStep ==
  ASSUME Types, Types', Touches, Touches', Layered, Layered', Versions, NEW t \in Thread, Step(t)
  PROVE  Versions'
  <1>1. Alone(t) /\ torn \subseteq torn'
    BY StepMoves, TornGrows
  <1>2. CASE BeginRebuild(t) \/ FindTree(t)
    BY <1>2, BeginVersions
  <1>3. CASE RebuildStep(t)
    BY <1>3, RebuildVersions
  <1>4. CASE ReviewTree(t) \/ ReviewNodes(t)
    BY <1>4, ReviewVersions
  <1>5. CASE Crash(t)
    <2>1. call'[t] = NoCall /\ torn' = torn \cup touch[t] /\ UNCHANGED storeVars
      BY <1>5 DEF Crash, Types
    <2>2. CASE call[t].op \in DocumentOps
      BY <2>1, <2>2 DEF Touches, Versions
    <2>3. CASE call[t].op \notin DocumentOps
      <3>1. call'[t].op \notin DocumentOps
        BY <2>1 DEF NoCall, DocumentOps
      <3>2. UNCHANGED <<document, tree, layout, row, shown>> /\ edges \subseteq edges'
        BY <2>1 DEF storeVars
      <3>3. QED
        BY <1>1, <2>3, <3>1, <3>2, VersionsQuiet
    <2>4. QED
      BY <2>2, <2>3
  <1>6. CASE CandidateStep(t)
    <2>1. UNCHANGED <<document, tree, layout, row, shown>> /\ edges \subseteq edges'
      BY <1>6 DEF CandidateStep, BeginSweep, LookAround, Foresee, QueuePairs, EndSweep, BeginDrift,
           CompareReport, QueueReport, BeginReview, BeginEdge, CheckEdge, InsertEdge, Judge, storeVars
    <2>2. QED
      BY <1>1, <1>6, <2>1, CandidateOps, VersionsQuiet
  <1>7. QED
    BY <1>2, <1>3, <1>4, <1>5, <1>6 DEF Step, TreeStep

-------------------------------------------------------------------------------
(* The ends of reviewed edges *)

\* The ends of an edge are nodes.
LEMMA EndsAreNodes ==
  ASSUME Types, NEW e \in EdgeRow
  PROVE  \A n \in Ends(e) : n \in Node /\ n[1] \in Tree /\ n[2] \in 1 .. Width
  BY DEF EdgeRow, Ends, Node

\* A node of the other document, or of a tree never shown, is as a reviewed edge may have it.
LEMMA ApartEnded ==
  ASSUME Types, Layered, NEW n \in Node, Laid(n), Apart(n)
  PROVE  Ended(n)
  <1>1. CASE n[1] = 0
    <2>1. layout[n[1]] = <<Far>>
      BY <1>1 DEF Layered
    <2>2. Len(layout[n[1]]) = 1
      BY <2>1, Lengths
    <2>3. n[2] \in 1 .. 2 /\ n[2] <= 1
      BY <2>2 DEF Laid, Node, Width
    <2>4. n[2] = 1
      BY <2>3
    <2>5. QED
      BY <1>1, <2>4 DEF Layered, Ended
  <1>2. CASE n[1] # 0
    BY <1>2 DEF Apart, Ended
  <1>3. QED
    BY <1>1, <1>2

\* Endings holds after a step of the only request of the document, if it holds of that one.
LEMMA EndingsKeeps ==
  ASSUME NEW t \in Thread, \A u \in Thread \ {t} : call'[u].op \notin DocumentOps,
         call'[t].op \notin DocumentOps => AllEnded',
         call'[t].op = "rebuild" => RebuildEdges(pc[t], call[t])',
         call'[t].op = "treeReview" => ReviewEdges(pc[t], call[t])'
  PROVE  Endings'
  <1>1. \A u \in Thread : call'[u].op \in DocumentOps => u = t
    OBVIOUS
  <1>2. "rebuild" \in DocumentOps /\ "treeReview" \in DocumentOps
    BY DEF DocumentOps
  <1>3. (\A u \in Thread : call'[u].op \notin DocumentOps) =>
          AllEnded'
    OBVIOUS
  <1>4. \A u \in Thread : call'[u].op = "rebuild" => RebuildEdges(pc[u], call[u])'
    BY <1>1, <1>2
  <1>5. \A u \in Thread : call'[u].op = "treeReview" => ReviewEdges(pc[u], call[u])'
    BY <1>1, <1>2
  <1>6. QED
    BY <1>3, <1>4, <1>5 DEF Endings

\* A step of neither a rebuild nor a review of a tree: what it adds stands on ended nodes.
LEMMA EndingsQuiet ==
  ASSUME Endings, NEW t \in Thread, Alone(t), torn \subseteq torn',
         call[t].op \notin DocumentOps, call'[t].op \notin DocumentOps,
         UNCHANGED <<row, shown>>,
         {Document, Edges} \cap torn' = {} => \A e \in edges' \ edges : Standing(e) =>
             /\ \A u \in Thread : call[u].op # "rebuild"
             /\ \A n \in Ends(e) : \/ Ended(n)
                                   \/ \E u \in Thread : /\ call[u].op = "treeReview"
                                                        /\ pc[u] = "reviewNodes"
                                                        /\ call[u].verdict = "active"
                                                        /\ n[1] = call[u].tree,
         Touches
  PROVE  Endings'
  <1>1. \A u \in Thread : call'[u].op \in DocumentOps => call'[u] = call[u] /\ pc'[u] = pc[u]
    BY DEF Alone
  <1>2. \A u \in Thread : call[u].op \in DocumentOps => call'[u] = call[u] /\ pc'[u] = pc[u]
    BY DEF Alone
  <1>3. SUFFICES ASSUME {Document, Edges} \cap torn' = {} PROVE Endings'
    BY DEF Endings
  <1>4. {Document, Edges} \cap torn = {} /\ Document \notin torn
    BY <1>3
  <1>5. \A n : (Ended(n)' <=> Ended(n)) /\ (Apart(n)' <=> Apart(n))
    BY DEF Ended, Apart
  <1>6. \A u, v \in Thread : call[u].op \in DocumentOps /\ call[v].op \in DocumentOps => u = v
    BY <1>4 DEF Touches
  <1>7. ASSUME NEW u \in Thread, call'[u].op = "rebuild"
        PROVE  RebuildEdges(pc[u], call[u])'
    <2>1. call'[u] = call[u] /\ pc'[u] = pc[u]
      BY <1>1, <1>7 DEF DocumentOps
    <2>2. RebuildEdges(pc[u], call[u])
      BY <1>4, <1>7, <2>1 DEF Endings
    <2>3. \A e \in edges' : Standing(e) => e \in edges
      BY <1>3, <1>7, <2>1
    <2>4. QED
      BY <2>1, <2>2, <2>3 DEF RebuildEdges, AllEnded, ReadEnds, KeptApart, OnTheWay, Arrived, Standing, Ends,
         Ended, Apart, OldNodes, Ours, Ids, ToCarry
  <1>8. ASSUME NEW u \in Thread, call'[u].op = "treeReview"
        PROVE  ReviewEdges(pc[u], call[u])'
    <2>1. call'[u] = call[u] /\ pc'[u] = pc[u]
      BY <1>1, <1>8 DEF DocumentOps
    <2>2. ReviewEdges(pc[u], call[u])
      BY <1>4, <1>8, <2>1 DEF Endings
    <2>3. \A e \in edges' \ edges : Standing(e) =>
            \A n \in Ends(e) :
               Ended(n) \/ (pc[u] = "reviewNodes" /\ call[u].verdict = "active" /\ n[1] = call[u].tree)
      <3>1. \A v \in Thread : call[v].op = "treeReview" => v = u
        BY <1>6, <1>8, <2>1 DEF DocumentOps
      <3>2. QED
        BY <1>3, <3>1
    <2>4. QED
      BY <2>1, <2>2, <2>3 DEF ReviewEdges, Standing, Ends, Ended
  <1>9. (\A u \in Thread : call'[u].op \notin DocumentOps) => AllEnded'
    <2>1. SUFFICES ASSUME \A u \in Thread : call'[u].op \notin DocumentOps PROVE AllEnded'
      OBVIOUS
    <2>2. \A u \in Thread : call[u].op \notin DocumentOps
      BY <1>2, <2>1
    <2>3. \A e \in edges : Standing(e) => \A n \in Ends(e) : Ended(n)
      BY <1>4, <2>2 DEF Endings, AllEnded
    <2>4. \A e \in edges' \ edges : Standing(e) => \A n \in Ends(e) : Ended(n)
      BY <1>3, <2>2 DEF DocumentOps
    <2>5. QED
      BY <2>3, <2>4 DEF AllEnded, Standing, Ends, Ended
  <1>10. QED
    BY <1>7, <1>8, <1>9 DEF Endings, AllEnded

\* An edge that an operator makes while nobody rebuilds is on nodes that are active, or
\* of a tree that has never been, unless it is being promoted.
LEMMA NewEdgeEnded ==
  ASSUME Types, Touches, Layered, Versions, Document \notin torn, \A u \in Thread : call[u].op # "rebuild",
         NEW n \in Node, row[n] \notin {"absent", "superseded"}
  PROVE  \/ Ended(n)
         \/ \E u \in Thread : /\ call[u].op = "treeReview" /\ pc[u] = "reviewNodes"
                              /\ call[u].verdict = "active" /\ n[1] = call[u].tree
  <1>1. Laid(n) /\ n[1] \in Tree /\ row[n] \in {"active", "pending_review", "rejected"}
    BY DEF Layered, Types, Node, TreeStatus
  <1>2. CASE n[1] = 0
    BY <1>1, <1>2, ApartEnded DEF Apart
  <1>3. CASE n[1] # 0
    <2>1. n[1] \in Version
      BY <1>1, <1>3, TreesAssumption DEF Tree, Version
    <2>2. Hidden(tree)
      BY DEF Versions
    <2>3. CASE Whole(document, tree, row)
      BY <1>1, <2>1, <2>2, <2>3 DEF Whole, Hidden, Ended
    <2>4. CASE ~ Whole(document, tree, row)
      <3>1. PICK u \in Thread : call[u].op \in DocumentOps
        BY <2>4 DEF Versions
      <3>2. call[u].op = "treeReview"
        BY <3>1 DEF DocumentOps
      <3>3. ReviewPhase(pc[u], call[u])
        BY <3>2 DEF Versions
      <3>4. /\ call[u].tree \in Version /\ call[u].verdict \in {"active", "rejected"}
            /\ pc[u] \in {"reviewTree", "reviewNodes"}
        BY <3>2, CallsAre
      <3>5. pc[u] = "reviewNodes"
        BY <2>4, <3>3, <3>4 DEF ReviewPhase
      <3> DEFINE tr == [tree EXCEPT ![call[u].tree] = "pending_review"]
      <3>6. Whole(document, tr, row) /\ tree[call[u].tree] = call[u].verdict
        BY <3>3, <3>5 DEF ReviewPhase
      <3>7. \A i \in Tree : tr[i] = IF i = call[u].tree THEN "pending_review" ELSE tree[i]
        BY DEF Types
      <3> HIDE DEF tr
      <3>8. row[n] = tr[n[1]]
        BY <1>1, <3>6 DEF Whole
      <3>9. CASE n[1] = call[u].tree
        BY <2>1, <2>2, <3>2, <3>4, <3>5, <3>6, <3>9 DEF Hidden, Ended
      <3>10. CASE n[1] # call[u].tree
        BY <1>1, <2>1, <2>2, <3>7, <3>8, <3>10 DEF Hidden, Ended
      <3>11. QED
        BY <3>9, <3>10
    <2>5. QED
      BY <2>3, <2>4
  <1>4. QED
    BY <1>2, <1>3

LEMMA ApartEndedNext ==
  ASSUME Types', Layered', NEW n \in Node, Laid(n)', Apart(n)'
  PROVE  Ended(n)'
  <1>1. CASE n[1] = 0
    <2>1. layout'[n[1]] = <<Far>>
      BY <1>1 DEF Layered
    <2>2. Len(layout'[n[1]]) = 1
      BY <2>1, Lengths
    <2>3. n[2] \in 1 .. 2 /\ n[2] <= 1
      BY <2>2 DEF Laid, Node, Width
    <2>4. n[2] = 1
      BY <2>3
    <2>5. QED
      BY <1>1, <2>4 DEF Layered, Ended
  <1>2. CASE n[1] # 0
    BY <1>2 DEF Apart, Ended
  <1>3. QED
    BY <1>1, <1>2

\* The ends of an edge are there.
LEMMA LaidEnds ==
  ASSUME Types', Layered', NEW f \in edges', NEW n \in Ends(f)
  PROVE  n \in Node /\ Laid(n)'
  BY DEF Layered, EndsLaid, Types, EdgeRow, Ends, Laid

\* What a rebuild has read of the edges stays true while no tree is shown that one of
\* their ends is in.
LEMMA ReadEndsStay ==
  ASSUME NEW t \in Thread, ReadEnds(call[t]),
         call'[t].edges = call[t].edges, call'[t].reviewed = call[t].reviewed,
         call'[t].row = call[t].row,
         \A e \in call[t].edges \cup call[t].reviewed : \A n \in Ends(e) : Apart(n) => Apart(n)'
  PROVE  ReadEnds(call[t])'
  BY DEF ReadEnds, OldNodes, Ours, Ends, Standing, Apart

\* So do the edges that it did not read stay apart, and those it has carried where they are.
LEMMA KeptApartStays ==
  ASSUME NEW t \in Thread, KeptApart(call[t]), call'[t].reviewed = call[t].reviewed,
         \A f \in edges' : Standing(f) => f \in edges,
         \A e \in edges : \A n \in Ends(e) : Apart(n) => Apart(n)'
  PROVE  KeptApart(call[t])'
  BY DEF KeptApart, Ids, Ends, Standing, Apart

LEMMA OnTheWayStays ==
  ASSUME NEW t \in Thread, OnTheWay(ToCarry(pc[t], call[t]), call[t]), call'[t].new = call[t].new,
         ToCarry(pc[t], call[t])' = ToCarry(pc[t], call[t]),
         \A f \in edges' : Standing(f) => f \in edges,
         \A e \in edges : \A n \in Ends(e) : Arrived(call[t], n) => Arrived(call[t], n)'
  PROVE  OnTheWay(ToCarry(pc[t], call[t]), call[t])'
  BY DEF OnTheWay, Ends, Standing, Arrived, Apart

\* When no edge is left to be carried, every one that stands is on ended nodes.
LEMMA AllArrived ==
  ASSUME Types', Layered', NEW t \in Thread,
         \A f \in edges' : Standing(f) => \A n \in Ends(f) : Apart(n)' \/ row'[n] = "active"
  PROVE  AllEnded'
  BY LaidEnds, ApartEndedNext DEF AllEnded, Standing, Ends, Ended

\* Endings survives a rebuild: while it runs, by what it has read and has to carry; when it
\* ends, as every edge has been carried or put back.
LEMMA RebuildEndings ==
  ASSUME Types, Types', Touches, Layered, Layered', Identified, Versions, Endings,
         NEW t \in Thread, RebuildStep(t)
  PROVE  Endings'
  <1> DEFINE c == call[t]
             p == pc[t]
  <1>1. Alone(t) /\ (Continues(t) \/ Finishes(t)) /\ torn \subseteq torn'
    BY RebuildMoves DEF Continues, Finishes
  <1>2. SUFFICES ASSUME {Document, Edges} \cap torn' = {} PROVE Endings'
    BY DEF Endings
  <1>3. p \in RebuildSteps
    BY DEF RebuildStep, ReadRows, ReadEdges, SupersedeTrees, SupersedeNodes, WriteDocument,
           InsertTree, InsertNode, InsertHints, MapNodes, CarryEdge, Fail, RestoreDocument, RestoreTrees,
           RestoreNodes, RestoreEdges, RestoreReviewed, Goto, RebuildSteps, Restoring, Trying
  <1>4. /\ c \in RebuildCall /\ c.op = "rebuild" /\ c.new \in Version /\ c.new \in Tree \ {0}
        /\ c.status \in {"active", "pending_review"} /\ c.layout \in Layouts
        /\ c.edges \subseteq EdgeRow /\ c.reviewed \subseteq EdgeRow /\ c.left \subseteq EdgeRow
    BY <1>3, AtRebuild, Numbers
  <1>5. {Document, Edges} \cap torn = {} /\ Document \notin torn /\ Document \notin torn'
    BY <1>1, <1>2
  <1>6. \A u \in Thread \ {t} : call'[u].op \notin DocumentOps
    BY <1>1, <1>4, <1>5, OthersStay DEF DocumentOps
  <1>7. RebuildEdges(p, c) /\ RebuildPhase(p, c) /\ Hidden(tree)
    BY <1>4, <1>5 DEF Endings, Versions
  <1>8. RebuildLaid(p, c) /\ Apiece(c.edges \cup c.reviewed)
    BY <1>4 DEF Layered, Identified
  <1>9. ASSUME call'[t].op = "rebuild", RebuildEdges(pc[t], call[t])'
        PROVE  Endings'
    BY <1>6, <1>9, EndingsKeeps DEF DocumentOps
  <1>10. ASSUME call'[t] = NoCall, AllEnded'
         PROVE  Endings'
    BY <1>6, <1>10, EndingsKeeps DEF DocumentOps, NoCall
  <1>11. edges \subseteq EdgeRow /\ EndsLaid(edges)
    BY DEF Types, Layered
  <1>12. /\ p \notin {"readRows", "readEdges"} => ReadEnds(c) /\ KeptApart(c)
         /\ p \in Trying => OnTheWay(ToCarry(p, c), c)
    BY <1>7 DEF RebuildEdges
  <1>13. CASE ReadRows(t)
    <2>1. p = "readRows" /\ pc'[t] = "readEdges" /\ UNCHANGED storeVars
      BY <1>13, GotoAlone DEF ReadRows, Goto
    <2>2. call'[t].op = "rebuild"
      BY <1>1, <1>4, <2>1 DEF Continues, Finishes
    <2>3. AllEnded'
      BY <1>7, <2>1 DEF RebuildEdges, AllEnded, Standing, Ends, Ended, storeVars
    <2>4. RebuildEdges(pc[t], call[t])'
      BY <2>1, <2>3 DEF RebuildEdges, Trying
    <2>5. QED
      BY <1>9, <2>2, <2>4
  <1>14. CASE ReadEdges(t)
    <2> DEFINE es == {e \in edges : e.home}
               rs == ReviewedTouching(OldNodes(c))
               d == [c EXCEPT !.edges = es, !.reviewed = rs]
    <2>1. pc'[t] = "supersedeTrees" /\ call'[t] = d /\ p = "readEdges" /\ UNCHANGED storeVars
      BY <1>14, GotoAlone DEF ReadEdges, Goto
    <2>2. row = c.row /\ AllEnded
      BY <1>7, <2>1 DEF RebuildPhase, RebuildEdges
    <2>3. \A e \in rs : e \in edges
      BY DEF ReviewedTouching
    <2>4. \A e \in edges : e.reviewed /\ Ends(e) \cap OldNodes(c) # {} => e \in rs
      BY DEF ReviewedTouching, Ends
    <2>5. \A e \in edges : Standing(e) => \A n \in Ends(e) : n \in OldNodes(c) \/ Apart(n)
      <3>1. ASSUME NEW e \in edges, Standing(e), NEW n \in Ends(e)
            PROVE  n \in OldNodes(c) \/ Apart(n)
        <4>1. Ended(n) /\ n \in Node
          BY <1>11, <2>2, <3>1, EndsAreNodes DEF AllEnded
        <4>2. QED
          BY <2>2, <4>1 DEF Ended, OldNodes, Ours, Apart
      <3>2. QED
        BY <3>1
    <2> HIDE DEF es, rs
    <2>6. d.edges = es /\ d.reviewed = rs /\ d.row = c.row /\ d.op = "rebuild"
      BY <1>4 DEF RebuildCall
    <2> HIDE DEF d
    <2>7. OldNodes(d) = OldNodes(c)
      BY <2>6 DEF OldNodes
    <2>8. ReadEnds(d)
      BY <2>3, <2>4, <2>5, <2>6, <2>7 DEF ReadEnds, es
    <2>9. KeptApart(d)
      BY <2>4, <2>5, <2>6 DEF KeptApart, Ids, Standing
    <2>10. OnTheWay(d.reviewed, d)
      BY <2>4, <2>5, <2>6 DEF OnTheWay, Arrived, Standing
    <2>11. ReadEnds(call[t])' /\ KeptApart(call[t])' /\ OnTheWay(call[t].reviewed, call[t])'
      BY <2>1, <2>8, <2>9, <2>10 DEF storeVars, ReadEnds, KeptApart, OnTheWay, Arrived, OldNodes, Ours, Ids,
           Ends, Standing, Apart
    <2>12. RebuildEdges(pc[t], call[t])'
      BY <2>1, <2>11 DEF RebuildEdges, ToCarry
    <2>13. QED
      BY <1>9, <2>1, <2>6, <2>12
  \* The writes that touch no reviewed edge.
  <1>15. CASE \/ SupersedeTrees(t) \/ SupersedeNodes(t) \/ WriteDocument(t) \/ InsertTree(t)
              \/ InsertNode(t) \/ InsertHints(t) \/ Fail(t)
              \/ RestoreDocument(t) \/ RestoreTrees(t) \/ RestoreNodes(t)
    <2>1. /\ p \in (Trying \cup Restoring) \ {"restoreEdges", "restoreReviewed"}
          /\ pc'[t] \in (Trying \cup Restoring) \ {"carryEdges"}
          /\ p = "carryEdges" => Fail(t)
          /\ p \in Restoring => pc'[t] \in Restoring
          /\ pc'[t] # "idle"
      BY <1>15 DEF SupersedeTrees, SupersedeNodes, WriteDocument, InsertTree, InsertNode, InsertHints, Fail,
           RestoreDocument, RestoreTrees, RestoreNodes, Goto, Trying, Restoring, Types
    <2>2. call'[t].op = "rebuild" /\ ~ ReadRows(t) /\ ~ ReadEdges(t)
      BY <1>1, <1>4, <2>1 DEF Continues, Finishes, ReadRows, ReadEdges, Goto, Trying, Restoring
    <2>3. /\ call'[t].new = c.new /\ call'[t].row = c.row
          /\ call'[t].edges = c.edges /\ call'[t].reviewed = c.reviewed
      BY <2>2, RebuildReads
    <2>4. \A f \in edges' : Standing(f) => f \in edges
      <3>1. edges' = edges \/ (InsertHints(t) /\ edges' = edges \cup Hints(c))
        BY <1>15 DEF SupersedeTrees, SupersedeNodes, WriteDocument, InsertTree, InsertNode, InsertHints,
             Fail, RestoreDocument, RestoreTrees, RestoreNodes, storeVars
      <3>2. \A h \in Hints(c) : ~ Standing(h)
        BY DEF Hints, Standing
      <3>3. QED
        BY <3>1, <3>2
    <2>5. /\ \A e \in edges : \A n \in Ends(e) : Apart(n) => Apart(n)'
          /\ \A e \in c.edges \cup c.reviewed : \A n \in Ends(e) : Apart(n) => Apart(n)'
      <3>1. CASE ~ InsertTree(t)
        <4>1. shown' = shown
          BY <1>15, <3>1 DEF SupersedeTrees, SupersedeNodes, WriteDocument, InsertNode, InsertHints,
               Fail, RestoreDocument, RestoreTrees, RestoreNodes, storeVars
        <4>2. QED
          BY <4>1 DEF Apart
      <3>2. CASE InsertTree(t)
        <4>1. layout[c.new] = <<>> /\ \A i \in shown' : i \in shown \/ i = c.new
          BY <1>8, <3>2 DEF RebuildLaid, InsertTree, Goto
        <4>2. \A n \in Node : Laid(n) => n[1] # c.new
          BY <4>1, Lengths DEF Laid, Node, Width
        <4>3. \A n \in Node : Laid(n) /\ Apart(n) => Apart(n)'
          BY <4>1, <4>2 DEF Apart
        <4>4. \A e \in EdgeRow : Laid(e.src) /\ Laid(e.dst) => \A n \in Ends(e) : Apart(n) => Apart(n)'
          BY <4>3, EndsAreNodes DEF Ends
        <4>5. QED
          BY <1>4, <1>8, <1>11, <4>4 DEF RebuildLaid, EndsLaid
      <3>3. QED
        BY <3>1, <3>2
    <2>6. ReadEnds(c) /\ KeptApart(c)
      BY <1>12, <2>1 DEF Trying, Restoring
    <2>7. ReadEnds(call[t])' /\ KeptApart(call[t])'
      BY <2>3, <2>4, <2>5, <2>6, ReadEndsStay, KeptApartStays
    <2>8. ASSUME pc'[t] \in Trying
          PROVE  OnTheWay(ToCarry(pc[t], call[t]), call[t])'
      <3>1. /\ p \in Trying \ {"carryEdges"} /\ pc'[t] # "carryEdges" /\ ~ Fail(t) /\ ~ RestoreNodes(t)
        BY <2>1, <2>8 DEF Trying, Restoring, Fail, RestoreNodes, Goto, Types
      <3>2. ToCarry(pc[t], call[t])' = ToCarry(pc[t], call[t])
        BY <2>3, <3>1 DEF ToCarry
      <3>3. \A e \in edges : \A n \in Ends(e) : n \in Node
        BY <1>11, EndsAreNodes
      <3>4. \A n \in Node : n[1] = c.new /\ row[n] = "active" => row'[n] = "active"
        <4>1. CASE SupersedeNodes(t)
          <5>1. layout[c.new] = <<>>
            BY <1>8, <4>1 DEF RebuildLaid, SupersedeNodes, Goto
          <5>2. \A n \in Node : Laid(n) => n[1] # c.new
            BY <5>1, Lengths DEF Laid, Node, Width
          <5>3. QED
            BY <5>2 DEF Layered
        <4>2. CASE InsertNode(t)
          <5>1. /\ row = [n \in Node |-> IF n[1] = c.new /\ n[2] < c.key
                                         THEN c.status ELSE RetiredRows(c.row)[n]]
                /\ row' = [row EXCEPT ![<<c.new, c.key>>] = c.status]
            BY <1>7, <4>2 DEF RebuildPhase, InsertNode, Goto
          <5>2. /\ c.key \in 1 .. Width + 1 /\ <<c.new, c.key>>[1] # 0 /\ <<c.new, c.key>>[2] = c.key
                /\ ~ (c.key < c.key)
            BY <1>3, <1>4, AtRebuild DEF Width
          <5>3. ASSUME NEW n \in Node, n = <<c.new, c.key>>
                PROVE  row[n] # "active"
            <6>1. row[n] = RetiredRows(c.row)[n]
              BY <5>1, <5>2, <5>3
            <6>2. row[n] = Superseded(c.row[n])
              BY <5>2, <5>3, <6>1 DEF RetiredRows, Ours
            <6>3. QED
              BY <6>2 DEF Superseded
          <5>4. \A n \in Node : n # <<c.new, c.key>> => row'[n] = row[n]
            BY <5>1
          <5>5. QED
            BY <5>3, <5>4
        <4>3. CASE ~ SupersedeNodes(t) /\ ~ InsertNode(t)
          <5>1. row' = row
            BY <1>15, <3>1, <4>3 DEF SupersedeTrees, WriteDocument, InsertTree, InsertHints,
                 RestoreDocument, RestoreTrees
          <5>2. QED
            BY <5>1
        <4>4. QED
          BY <4>1, <4>2, <4>3
      <3>5. \A e \in edges : \A n \in Ends(e) : Arrived(call[t], n) => Arrived(call[t], n)'
        BY <2>3, <2>5, <3>3, <3>4 DEF Arrived
      <3>6. OnTheWay(ToCarry(pc[t], call[t]), call[t])
        BY <1>12, <3>1
      <3>7. QED
        BY <2>3, <2>4, <3>2, <3>5, <3>6, OnTheWayStays
    <2>9. pc'[t] \notin {"readRows", "readEdges"}
      BY <2>1 DEF Trying, Restoring
    <2>10. RebuildEdges(pc[t], call[t])'
      BY <2>7, <2>8, <2>9 DEF RebuildEdges
    <2>11. QED
      BY <1>9, <2>2, <2>10
  <1>16. CASE MapNodes(t)
    <2>1. p = "mapNodes" /\ UNCHANGED storeVars
      BY <1>16 DEF MapNodes
    <2>2. ReadEnds(c) /\ KeptApart(c) /\ OnTheWay(c.reviewed, c)
      BY <1>12, <2>1 DEF Trying, ToCarry
    <2>3. CASE c.reviewed = {}
      <3>1. \A f \in edges : Standing(f) => \A n \in Ends(f) : Apart(n) \/ row[n] = "active"
        BY <2>2, <2>3 DEF OnTheWay, Arrived
      <3>2. \A f \in edges' : Standing(f) => \A n \in Ends(f) : Apart(n)' \/ row'[n] = "active"
        BY <2>1, <3>1 DEF storeVars, Apart
      <3>3. AllEnded'
        BY <3>2, AllArrived
      <3>4. QED
        BY <1>10, <1>16, <2>3, <3>3, LeaveAlone DEF MapNodes
    <2>4. CASE c.reviewed # {}
      <3> DEFINE cs == Counterparts(c)
                 d == [c EXCEPT !.map = cs, !.left = c.reviewed]
      <3>1. pc'[t] = "carryEdges" /\ call'[t] = d
        <4>1. Goto(t, "mapNodes", "carryEdges") /\ call' = [call EXCEPT ![t] = d]
          BY <1>16, <2>4 DEF MapNodes, Types
        <4> HIDE DEF d
        <4>2. QED
          BY <4>1, GotoAlone
      <3> HIDE DEF cs
      <3>2. /\ d.op = "rebuild" /\ d.new = c.new /\ d.row = c.row /\ d.edges = c.edges
            /\ d.reviewed = c.reviewed /\ d.left = c.reviewed
        BY <1>4 DEF RebuildCall
      <3> HIDE DEF d
      <3>3. ReadEnds(call[t])' /\ KeptApart(call[t])'
        BY <2>1, <2>2, <3>1, <3>2, ReadEndsStay, KeptApartStays DEF storeVars, Apart
      <3>4. OnTheWay(call[t].left, call[t])'
        BY <2>1, <2>2, <3>1, <3>2 DEF storeVars, OnTheWay, Arrived, Ends, Standing, Apart
      <3>5. RebuildEdges(pc[t], call[t])'
        BY <3>1, <3>3, <3>4 DEF RebuildEdges, ToCarry
      <3>6. QED
        BY <1>9, <3>1, <3>2, <3>5
    <2>5. QED
      BY <2>3, <2>4
  <1>17. CASE CarryEdge(t)
    <2>1. PICK old \in c.left :
            /\ edges' = {IF e.id = old.id THEN Carried(c, old, e) ELSE e : e \in edges}
            /\ IF c.left = {old}
               THEN Leave(t)
               ELSE /\ Goto(t, "carryEdges", "carryEdges")
                    /\ call' = [call EXCEPT ![t].left = @ \ {old}]
      BY <1>17 DEF CarryEdge
    <2>2. p = "carryEdges" /\ UNCHANGED <<document, tree, layout, row, made, minted, shown>>
      BY <1>17 DEF CarryEdge
    <2>3. ReadEnds(c) /\ KeptApart(c) /\ OnTheWay(c.left, c) /\ c.left \subseteq c.reviewed
      BY <1>8, <1>12, <2>2 DEF Trying, ToCarry, RebuildLaid
    <2>4. old \in EdgeRow /\ old \in c.reviewed
      BY <1>4, <2>3
    <2>5. \A n \in OldNodes(c) : ~ Lost(c, n) => Arrived(c, Moved(c, n))
      <3>1. \A q \in c.map : q[2] \in Node /\ q[2][1] = c.new /\ Laid(q[2])
        BY <1>3, <1>8, <2>2, AtRebuild DEF RebuildLaid
      <3>2. tree[c.new] = c.status /\ \A n \in Node : Laid(n) => row[n] = tree[n[1]]
        BY <1>7, <2>2 DEF RebuildPhase, Whole
      <3>3. \A q \in c.map : Arrived(c, q[2])
        BY <1>4, <1>7, <3>1, <3>2 DEF Arrived, Hidden, Apart
      <3>4. TAKE n \in OldNodes(c)
      <3>5. HAVE ~ Lost(c, n)
      <3>6. \E q \in c.map : q[1] = n
        BY <3>5 DEF Lost
      <3>7. (CHOOSE q \in c.map : q[1] = n) \in c.map
        BY <3>6
      <3>8. QED
        BY <3>3, <3>6, <3>7 DEF Moved
    <2>6. \A f \in edges' : Standing(f) => \/ f \in c.left \ {old}
                                           \/ \A n \in Ends(f) : Arrived(c, n)
      <3>1. SUFFICES ASSUME NEW f \in edges', Standing(f), f \notin c.left \ {old}
                     PROVE  \A n \in Ends(f) : Arrived(c, n)
        OBVIOUS
      <3>2. PICK e \in edges : f = IF e.id = old.id THEN Carried(c, old, e) ELSE e
        BY <2>1
      <3>3. e \in EdgeRow
        BY <1>11
      <3>4. CASE e.id # old.id
        BY <2>3, <3>1, <3>2, <3>4 DEF OnTheWay
      <3>5. CASE e.id = old.id
        <4> DEFINE a == IF old.src \in OldNodes(c) THEN Moved(c, old.src) ELSE e.src
                   b == IF old.dst \in OldNodes(c) THEN Moved(c, old.dst) ELSE e.dst
                   moved == [e EXCEPT !.src = a, !.dst = b]
        <4>1. \/ f = [e EXCEPT !.flagged = TRUE]
              \/ f = moved /\ ~ Lost(c, old.src) /\ ~ Lost(c, old.dst)
          BY <3>2, <3>5 DEF Carried
        <4> HIDE DEF a, b
        <4>2. [e EXCEPT !.flagged = TRUE].flagged
          BY <3>3 DEF EdgeRow
        <4>3. /\ moved.src = a /\ moved.dst = b
              /\ moved.reviewed = e.reviewed /\ moved.flagged = e.flagged /\ moved.late = e.late
          BY <3>3 DEF EdgeRow
        <4>4. f = moved /\ ~ Lost(c, old.src) /\ ~ Lost(c, old.dst)
          BY <3>1, <4>1, <4>2 DEF Standing
        <4> HIDE DEF moved
        <4>5. Standing(e)
          BY <3>1, <4>3, <4>4 DEF Standing
        <4>6. \/ e = old
              \/ Arrived(c, e.src) /\ Arrived(c, e.dst)
          <5>1. CASE e \in c.left
            <6>1. e \in c.reviewed
              BY <2>3, <5>1
            <6>2. QED
              BY <1>8, <2>4, <3>5, <6>1 DEF Apiece
          <5>2. CASE e \notin c.left
            BY <2>3, <4>5, <5>2 DEF OnTheWay, Ends
          <5>3. QED
            BY <5>1, <5>2
        <4>7. e = old => /\ old.src \in OldNodes(c) \/ Arrived(c, old.src)
                         /\ old.dst \in OldNodes(c) \/ Arrived(c, old.dst)
          BY <2>3, <2>4, <4>5 DEF ReadEnds, Arrived, Ends
        <4>8. Arrived(c, a) /\ Arrived(c, b)
          BY <2>5, <4>4, <4>6, <4>7 DEF a, b
        <4>9. QED
          BY <4>3, <4>4, <4>8 DEF Ends
      <3>6. QED
        BY <3>4, <3>5
    <2>7. CASE c.left = {old}
      <3>1. \A f \in edges' : Standing(f) => \A n \in Ends(f) : Apart(n) \/ row[n] = "active"
        BY <2>6, <2>7 DEF Arrived
      <3>2. \A f \in edges' : Standing(f) => \A n \in Ends(f) : Apart(n)' \/ row'[n] = "active"
        BY <2>2, <3>1 DEF Apart
      <3>3. AllEnded'
        BY <3>2, AllArrived
      <3>4. QED
        BY <1>10, <2>1, <2>7, <3>3, LeaveAlone
    <2>8. CASE c.left # {old}
      <3> DEFINE es == c.left \ {old}
                 d == [c EXCEPT !.left = es]
      <3>1. call' = [call EXCEPT ![t] = d]
        BY <2>1, <2>8 DEF Types
      <3>2. pc'[t] = "carryEdges" /\ call'[t] = d
        BY <2>1, <2>8, <3>1, GotoAlone
      <3> HIDE DEF es
      <3>3. /\ d.op = "rebuild" /\ d.new = c.new /\ d.row = c.row /\ d.edges = c.edges
            /\ d.reviewed = c.reviewed /\ d.left = es
        BY <1>4 DEF RebuildCall
      <3> HIDE DEF d
      <3>4. ReadEnds(call[t])'
        BY <2>2, <2>3, <3>2, <3>3, ReadEndsStay DEF Apart
      <3>5. KeptApart(call[t])'
        <4>1. \A f \in edges' : f.id \notin Ids(c.reviewed) => f \in edges
          <5>1. TAKE f \in edges'
          <5>2. HAVE f.id \notin Ids(c.reviewed)
          <5>3. PICK e \in edges : f = IF e.id = old.id THEN Carried(c, old, e) ELSE e
            BY <2>1
          <5>4. e.id = old.id => f.id = old.id
            BY <1>4, <1>11, <2>4, <5>3, CarriedType
          <5>5. QED
            BY <2>4, <5>2, <5>3, <5>4 DEF Ids
        <4>2. \A f \in edges' : Standing(f) /\ f.id \notin Ids(c.reviewed) => \A n \in Ends(f) : Apart(n)
          BY <2>3, <4>1 DEF KeptApart
        <4>3. QED
          BY <2>2, <3>2, <3>3, <4>2 DEF KeptApart, Ids, Standing, Ends, Apart
      <3>6. OnTheWay(call[t].left, call[t])'
        BY <2>2, <2>6, <3>2, <3>3 DEF OnTheWay, Arrived, Standing, Ends, Apart, es
      <3>7. RebuildEdges(pc[t], call[t])'
        BY <3>2, <3>4, <3>5, <3>6 DEF RebuildEdges, ToCarry
      <3>8. QED
        BY <1>9, <3>2, <3>3, <3>7
    <2>9. QED
      BY <2>7, <2>8
  <1>18. CASE RestoreEdges(t)
    <2> DEFINE kept == {e \in edges : e.home => e.id \in Ids(c.edges)}
    <2>1. /\ p = "restoreEdges" /\ edges' = PutBack(c.edges, kept)
          /\ IF Returned(c.edges, kept) = c.edges
             THEN Goto(t, "restoreEdges", "restoreReviewed") /\ UNCHANGED call
             ELSE LeaveRestored(t, FALSE)
          /\ UNCHANGED <<document, tree, layout, row, made, minted, shown>>
      BY <1>18 DEF RestoreEdges
    <2>2. \A e \in kept : e \in edges
      OBVIOUS
    <2> HIDE DEF kept
    <2>3. Returned(c.edges, kept) = c.edges
      <3>1. SUFFICES ASSUME LeaveRestored(t, FALSE) PROVE FALSE
        BY <2>1
      <3>2. QED
        BY <1>2, <3>1 DEF LeaveRestored
    <2>4. pc'[t] = "restoreReviewed" /\ call'[t] = c
      BY <2>1, <2>3, GotoAlone
    <2>5. ReadEnds(c) /\ KeptApart(c)
      BY <1>12, <2>1
    <2>6. ReadEnds(call[t])'
      BY <2>1, <2>4, <2>5, ReadEndsStay DEF Apart
    <2>7. \A f \in edges' : f \in edges \/ f \in c.edges
      BY <2>1, <2>2, <2>3 DEF PutBack
    <2>8. ASSUME NEW f \in edges', Standing(f), f.id \notin Ids(c.reviewed)
          PROVE  \A n \in Ends(f) : Apart(n)
      <3>1. CASE f \in edges
        BY <2>5, <2>8, <3>1 DEF KeptApart
      <3>2. CASE f \in c.edges
        <4>1. f \notin c.reviewed /\ f.reviewed
          BY <2>8 DEF Ids, Standing
        <4>2. Ends(f) \cap OldNodes(c) = {}
          BY <2>5, <3>2, <4>1 DEF ReadEnds
        <4>3. QED
          BY <2>5, <2>8, <3>2, <4>2 DEF ReadEnds
      <3>3. QED
        BY <2>7, <3>1, <3>2
    <2>9. KeptApart(call[t])'
      BY <2>1, <2>4, <2>8 DEF KeptApart, Ids, Standing, Ends, Apart
    <2>10. RebuildEdges(pc[t], call[t])'
      BY <2>4, <2>6, <2>9 DEF RebuildEdges, Trying
    <2>11. QED
      BY <1>4, <1>9, <2>4, <2>10
  <1>19. CASE RestoreReviewed(t)
    <2>1. /\ p = "restoreReviewed" /\ edges' = PutBack(c.reviewed, edges)
          /\ LeaveRestored(t, Returned(c.reviewed, edges) = c.reviewed)
          /\ UNCHANGED <<document, tree, layout, row, made, minted, shown>>
      BY <1>19 DEF RestoreReviewed
    <2>2. Returned(c.reviewed, edges) = c.reviewed
      BY <1>2, <2>1 DEF LeaveRestored
    <2>3. ReadEnds(c) /\ KeptApart(c) /\ row = c.row
      BY <1>7, <1>12, <2>1 DEF RebuildPhase
    <2>4. \A f \in edges' : (f \in edges /\ f.id \notin Ids(c.reviewed)) \/ f \in c.reviewed
      BY <2>1, <2>2 DEF PutBack
    <2>5. \A f \in edges' : Standing(f) => \A n \in Ends(f) : Apart(n) \/ row[n] = "active"
      BY <2>3, <2>4 DEF ReadEnds, KeptApart, OldNodes
    <2>6. \A f \in edges' : Standing(f) => \A n \in Ends(f) : Apart(n)' \/ row'[n] = "active"
      BY <2>1, <2>5 DEF Apart
    <2>7. AllEnded'
      BY <2>6, AllArrived
    <2>8. QED
      BY <1>10, <2>1, <2>7, LeaveGoes
  <1>20. QED
    BY <1>13, <1>14, <1>15, <1>16, <1>17, <1>18, <1>19 DEF RebuildStep

\* It survives the begin of a rebuild or of a review of a tree,
LEMMA BeginEndings ==
  ASSUME Types, Types', Touches, Touches', Layered, Endings, NEW t \in Thread, BeginRebuild(t) \/ FindTree(t)
  PROVE  Endings'
  <1>1. Alone(t) /\ Begins(t)
    BY BeginMoves
  <1>2. torn \subseteq torn'
    BY <1>1 DEF Begins
  <1>3. SUFFICES ASSUME {Document, Edges} \cap torn' = {} PROVE Endings'
    BY DEF Endings
  <1>4. UNCHANGED <<row, edges, shown>>
    BY DEF BeginRebuild, FindTree, storeVars
  <1>5. CASE BeginRebuild(t)
    <2>1. PICK l, s : Enter(t, "readRows", {Document, Queue}, Rebuild(made + 1, l, s))
      BY <1>5 DEF BeginRebuild
    <2>2. pc'[t] = "readRows" /\ call'[t].op = "rebuild" /\ Document \in touch'[t]
      BY <2>1, EnterAlone DEF Rebuild
    <2>3. \A u \in Thread \ {t} : call'[u].op \notin DocumentOps
      BY <1>3, <2>2, OneRequest
    <2>4. \A u \in Thread : call[u].op \notin DocumentOps
      BY <1>1, <2>3 DEF Alone, Begins, NoCall, DocumentOps
    <2>5. AllEnded
      BY <1>2, <1>3, <2>4 DEF Endings
    <2>6. AllEnded'
      BY <1>4, <2>5 DEF AllEnded, Standing, Ends, Ended
    <2>7. RebuildEdges(pc[t], call[t])'
      BY <2>2, <2>6 DEF RebuildEdges, Trying
    <2>8. QED
      BY <2>2, <2>3, <2>7, EndingsKeeps DEF DocumentOps
  <1>6. CASE FindTree(t)
    <2>1. call'[t].op = "treeReview" /\ Document \in touch'[t]
      BY <1>6, EnterAlone DEF FindTree
    <2>2. \A u \in Thread \ {t} : call'[u].op \notin DocumentOps
      BY <1>3, <2>1, OneRequest
    <2>3. \A u \in Thread : call[u].op \notin DocumentOps
      BY <1>1, <2>2 DEF Alone, Begins, NoCall, DocumentOps
    <2>4. AllEnded
      BY <1>2, <1>3, <2>3 DEF Endings
    <2>5. ReviewEdges(pc[t], call[t])'
      BY <1>4, <2>4 DEF ReviewEdges, AllEnded, Standing, Ends, Ended
    <2>6. QED
      BY <2>1, <2>2, <2>5, EndingsKeeps DEF DocumentOps
  <1>7. QED
    BY <1>5, <1>6

\* a review of a tree,
LEMMA ReviewEndings ==
  ASSUME Types, Types', Touches, Layered, Versions, Endings, NEW t \in Thread, ReviewTree(t) \/ ReviewNodes(t)
  PROVE  Endings'
  <1> DEFINE c == call[t]
  <1>1. Alone(t) /\ (Continues(t) \/ Finishes(t)) /\ torn \subseteq torn'
    BY OtherMoves DEF Continues, Finishes
  <1>2. SUFFICES ASSUME {Document, Edges} \cap torn' = {} PROVE Endings'
    BY DEF Endings
  <1>3. {Document, Edges} \cap torn = {} /\ Document \notin torn
    BY <1>1, <1>2
  <1>4. c.op = "treeReview" /\ c.tree \in Version /\ c.verdict \in {"active", "rejected"}
    <2>1. pc[t] \in {"reviewTree", "reviewNodes"} /\ CallTypes(pc[t], c)
      BY DEF ReviewTree, ReviewNodes, Goto, Types
    <2>2. c.op = "treeReview"
      BY <2>1, CallKinds
    <2>3. QED
      BY <2>2, CallsAre
  <1>5. \A u \in Thread \ {t} : call'[u].op \notin DocumentOps
    BY <1>1, <1>3, <1>4, OthersStay DEF DocumentOps
  <1>6. ReviewEdges(pc[t], c) /\ ReviewPhase(pc[t], c) /\ Hidden(tree)
    BY <1>3, <1>4 DEF Endings, Versions
  <1>7. \A e \in edges : \A n \in Ends(e) : n \in Node /\ n[1] \in Tree /\ Laid(n)
    <2>1. edges \subseteq EdgeRow
      BY DEF Types
    <2>2. \A e \in edges : \A n \in Ends(e) : Laid(n)
      BY DEF Layered, EndsLaid, Ends
    <2>3. QED
      BY <2>1, <2>2, EndsAreNodes
  <1>8. CASE ReviewTree(t)
    <2>1. pc[t] = "reviewTree" /\ pc'[t] = "reviewNodes" /\ call'[t] = c
      BY <1>8, GotoAlone DEF ReviewTree, Goto
    <2>2. /\ shown' = IF c.verdict = "active" THEN shown \cup {c.tree} ELSE shown
          /\ UNCHANGED <<row, edges>>
      BY <1>8 DEF ReviewTree
    <2>3. \A e \in edges : Standing(e) => \A n \in Ends(e) : Ended(n)
      BY <1>6, <2>1 DEF ReviewEdges
    <2>4. ReviewEdges(pc[t], call[t])'
      BY <2>1, <2>2, <2>3 DEF ReviewEdges, Standing, Ends, Ended
    <2>5. QED
      BY <1>4, <1>5, <2>1, <2>4, EndingsKeeps DEF DocumentOps
  <1>9. CASE ReviewNodes(t)
    <2>1. pc[t] = "reviewNodes" /\ call'[t] = NoCall /\ UNCHANGED <<edges, shown>>
      BY <1>9, LeaveAlone DEF ReviewNodes
    <2>2. \A n \in Node : row'[n] = IF n[1] = c.tree /\ row[n] # "absent" THEN c.verdict ELSE row[n]
      BY <1>9 DEF ReviewNodes
    <2> DEFINE tr == [tree EXCEPT ![c.tree] = "pending_review"]
    <2>3. Whole(document, tr, row) /\ tree[c.tree] = c.verdict
      BY <1>6, <2>1 DEF ReviewPhase
    <2>4. tr[c.tree] = "pending_review"
      BY <1>4, Numbers DEF Types
    <2> HIDE DEF tr
    <2>5. \A n \in Node : Laid(n) /\ n[1] = c.tree => row[n] = "pending_review"
      BY <2>3, <2>4 DEF Whole
    <2>6. c.verdict = "rejected" => c.tree \notin shown
      BY <1>4, <1>6, <2>3 DEF Hidden
    <2>7. ASSUME NEW e \in edges, Standing(e), NEW n \in Ends(e)
          PROVE  Ended(n)'
      <3>1. n \in Node /\ Laid(n)
        BY <1>7, <2>7
      <3>2. Ended(n) \/ (c.verdict = "active" /\ n[1] = c.tree)
        BY <1>6, <2>7 DEF ReviewEdges
      <3>3. CASE n[1] = c.tree
        BY <1>4, <2>1, <2>2, <2>5, <2>6, <3>1, <3>3 DEF Ended
      <3>4. CASE n[1] # c.tree
        BY <2>1, <2>2, <3>1, <3>2, <3>4 DEF Ended
      <3>5. QED
        BY <3>3, <3>4
    <2>8. AllEnded'
      BY <2>1, <2>7 DEF AllEnded, Standing, Ends
    <2>9. QED
      BY <1>5, <2>1, <2>8, EndingsKeeps DEF NoCall, DocumentOps
  <1>10. QED
    BY <1>8, <1>9

\* and so every step.
LEMMA EndingsStep ==
  ASSUME Types, Types', Touches, Touches', Layered, Layered', Identified, Versions, Endings,
         NEW t \in Thread, Step(t)
  PROVE  Endings'
  <1>1. Alone(t) /\ torn \subseteq torn'
    BY StepMoves, TornGrows
  <1>2. CASE BeginRebuild(t) \/ FindTree(t)
    BY <1>2, BeginEndings
  <1>3. CASE RebuildStep(t)
    BY <1>3, RebuildEndings
  <1>4. CASE ReviewTree(t) \/ ReviewNodes(t)
    BY <1>4, ReviewEndings
  <1>5. CASE Crash(t)
    <2>1. call'[t] = NoCall /\ torn' = torn \cup touch[t] /\ UNCHANGED storeVars
      BY <1>5 DEF Crash, Types
    <2>2. CASE call[t].op \in DocumentOps
      BY <2>1, <2>2 DEF Touches, Endings
    <2>3. CASE call[t].op \notin DocumentOps
      <3>1. call'[t].op \notin DocumentOps
        BY <2>1 DEF NoCall, DocumentOps
      <3>2. UNCHANGED <<row, shown>> /\ edges' \ edges = {}
        BY <2>1 DEF storeVars
      <3>3. QED
        BY <1>1, <2>3, <3>1, <3>2, EndingsQuiet
    <2>4. QED
      BY <2>2, <2>3
  <1>6. CASE CandidateStep(t)
    <2>1. UNCHANGED <<row, shown>>
      BY <1>6 DEF CandidateStep, BeginSweep, LookAround, Foresee, QueuePairs, EndSweep, BeginDrift,
           CompareReport, QueueReport, BeginReview, BeginEdge, CheckEdge, InsertEdge, Judge, storeVars
    <2>2. call[t].op \notin DocumentOps /\ call'[t].op \notin DocumentOps
      BY <1>6, CandidateOps
    <2>3. \A e \in edges' \ edges : InsertEdge(t) /\ e = ReviewedEdge(call[t].pair)
      BY <1>6 DEF CandidateStep, BeginSweep, LookAround, Foresee, QueuePairs, EndSweep, BeginDrift,
           CompareReport, QueueReport, BeginReview, BeginEdge, CheckEdge, InsertEdge, Judge, storeVars
    <2>4. ASSUME {Document, Edges} \cap torn' = {}, NEW e \in edges' \ edges, Standing(e)
          PROVE  /\ \A u \in Thread : call[u].op # "rebuild"
                 /\ \A n \in Ends(e) : \/ Ended(n)
                                       \/ \E u \in Thread : /\ call[u].op = "treeReview"
                                                            /\ pc[u] = "reviewNodes"
                                                            /\ call[u].verdict = "active"
                                                            /\ n[1] = call[u].tree
      <3> DEFINE q == call[t].pair
      <3>1. pc[t] = "insertEdge" /\ e = ReviewedEdge(q)
        BY <2>3, <2>4 DEF InsertEdge
      <3>2. q \in PairRow
        BY <3>1, CallsAre
      <3> HIDE DEF q
      <3>3. e.src = q.src /\ e.dst = q.dst
            /\ e.late = (Rebuilding \/ {"absent", "superseded"} \cap {row[q.src], row[q.dst]} # {})
        BY <3>1 DEF ReviewedEdge
      <3>4. ~ (Rebuilding \/ {"absent", "superseded"} \cap {row[q.src], row[q.dst]} # {})
        BY <2>4, <3>3 DEF Standing
      <3>5. \A u \in Thread : call[u].op # "rebuild"
        BY <3>4 DEF Rebuilding
      <3>6. /\ q.src \in Node /\ q.dst \in Node
            /\ row[q.src] \notin {"absent", "superseded"} /\ row[q.dst] \notin {"absent", "superseded"}
        BY <3>2, <3>4 DEF PairRow
      <3>7. Document \notin torn
        BY <1>1, <2>4
      <3>8. QED
        BY <3>3, <3>5, <3>6, <3>7, NewEdgeEnded DEF Ends
    <2>5. QED
      BY <1>1, <2>1, <2>2, <2>4, EndingsQuiet
  <1>7. QED
    BY <1>2, <1>3, <1>4, <1>5, <1>6 DEF Step, TreeStep

-------------------------------------------------------------------------------
(* Invariance *)

Inv == Types /\ Queued /\ Touches /\ Judged /\ Layered /\ Identified /\ Versions /\ Endings

\* What the requests tell of themselves holds where there are none yet.
LEMMA InvInit == Init => Inv
  <1> SUFFICES ASSUME Init PROVE Inv
    OBVIOUS
  <1>1. Types
    BY TypesInit
  <1>2. /\ \A t \in Thread : call[t].op = "none" /\ pc[t] = "idle" /\ touch[t] = {}
        /\ torn = {} /\ edges = {} /\ candidates = {} /\ born = {} /\ made = 1 /\ document = 1
        /\ minted = 0
    BY DEF Init, TreesInit, NoCall
  <1>3. PICK l \in Layouts, s \in Statuses :
          /\ tree = [i \in Tree |-> IF i = 0 THEN "active" ELSE IF i = 1 THEN s ELSE "absent"]
          /\ layout = [i \in Tree |-> IF i = 0 THEN <<Far>> ELSE IF i = 1 THEN l ELSE <<>>]
          /\ row = [n \in Node |-> IF n = <<0, 1>> THEN "active"
                                   ELSE IF n[1] = 1 /\ n[2] <= Len(l) THEN s ELSE "absent"]
          /\ shown = IF s = "active" THEN {0, 1} ELSE {0}
    BY DEF Init, TreesInit
  <1>4. s \in {"active", "pending_review"}
    BY TreesAssumption
  <1>5. /\ 1 \in Version /\ 0 \notin Version /\ \A i \in Version : i \in Tree /\ i # 0
        /\ Tree = Version \cup {0} /\ \A i \in Version : i \in Nat /\ (i > 1 <=> i # 1)
    BY TreesAssumption DEF Version, Tree
  <1>6. \A n \in Node : n = <<n[1], n[2]>> /\ n[1] \in Tree /\ n[2] \in 1 .. 2
    BY DEF Node, Width
  <1>7. \A n \in Node : Laid(n) <=> \/ n = <<0, 1>>
                                    \/ n[1] = 1 /\ n[2] <= Len(l)
    <2>1. TAKE n \in Node
    <2>2. CASE n[1] = 0
      <3>1. Len(layout[n[1]]) = 1
        BY <1>3, <1>5, <2>2, Lengths
      <3>2. n[2] <= 1 <=> n[2] = 1
        BY <1>6
      <3>3. QED
        BY <1>6, <2>2, <3>1, <3>2 DEF Laid
    <2>3. CASE n[1] = 1
      BY <1>3, <1>5, <2>3 DEF Laid
    <2>4. CASE n[1] \notin {0, 1}
      <3>1. Len(layout[n[1]]) = 0
        BY <1>3, <1>6, <2>4, Lengths
      <3>2. ~ (n[2] <= 0)
        BY <1>6
      <3>3. QED
        BY <2>4, <3>1, <3>2 DEF Laid
    <2>5. QED
      BY <2>2, <2>3, <2>4
  <1>8. Queued /\ Touches /\ Judged /\ Identified
    BY <1>2 DEF Queued, Touches, Judged, Identified, Apiece, DocumentOps
  <1>9. Layered
    <2>1. layout[0] = <<Far>> /\ tree[0] = "active"
      BY <1>3, <1>5
    <2>2. \A n \in Node : n[1] = 0 => row[n] = IF n[2] = 1 THEN "active" ELSE "absent"
      BY <1>3, <1>6
    <2>3. \A i \in Version : i > made => layout[i] = <<>>
      BY <1>2, <1>3, <1>5
    <2>4. \A i \in Tree : tree[i] # "absent" \/ i \in shown => layout[i] # <<>>
      BY <1>3, <1>5, Lengths
    <2>5. \A n \in Node : row[n] # "absent" => Laid(n)
      BY <1>3, <1>7
    <2>6. QED
      BY <1>2, <2>1, <2>2, <2>3, <2>4, <2>5 DEF Layered, EndsLaid
  <1>10. Versions
    <2>1. Hidden(tree)
      BY <1>3, <1>4, <1>5 DEF Hidden
    <2>2. \A i \in Version : tree[i] \in {"absent", "superseded"} <=> i # document
      BY <1>2, <1>3, <1>4, <1>5
    <2>3. \A n \in Node : row[n] = IF Laid(n) THEN tree[n[1]] ELSE "absent"
      BY <1>3, <1>5, <1>6, <1>7
    <2>4. QED
      BY <1>2, <2>1, <2>2, <2>3 DEF Versions, Whole
  <1>11. Endings
    BY <1>2 DEF Endings, AllEnded
  <1>12. QED
    BY <1>1, <1>8, <1>9, <1>10, <1>11 DEF Inv

\* The inductive invariant survives a stutter and a step.
LEMMA InvStays ==
  ASSUME Inv, UNCHANGED vars
  PROVE  Inv'
  <1> USE DEF vars, treeVars, storeVars, threadVars, queueVars
  <1>1. Types'
    BY TypesStep DEF Inv
  <1>2. Queued' /\ Touches'
    BY DEF Inv, Queued, Reviewed, Touches
  <1>3. Judged'
    BY DEF Inv, Judged, Accepts
  <1>4. Layered'
    BY DEF Inv, Layered, EndsLaid, Laid, RebuildLaid
  <1>5. Identified'
    BY DEF Inv, Identified, Apiece
  <1>6. Versions'
    BY DEF Inv, Versions, Hidden, Whole, Laid, RebuildPhase, Snapshot, ReviewPhase
  <1>7. Endings'
    BY DEF Inv, Endings, AllEnded, RebuildEdges, ReviewEdges, ReadEnds, KeptApart, OnTheWay, Arrived, ToCarry,
         Standing, Ends, Ended, Apart, OldNodes, Ours, Ids
  <1>8. QED
    BY <1>1, <1>2, <1>3, <1>4, <1>5, <1>6, <1>7 DEF Inv

LEMMA InvNext == Inv /\ [Next]_vars => Inv'
  <1> SUFFICES ASSUME Inv, [Next]_vars PROVE Inv'
    OBVIOUS
  <1>1. CASE UNCHANGED vars
    BY <1>1, InvStays
  <1>2. CASE Next
    <2>1. PICK t \in Thread : Step(t)
      BY <1>2, StepsAre
    <2>2. Types /\ Queued /\ Touches /\ Judged /\ Layered /\ Identified /\ Versions /\ Endings
      BY DEF Inv
    <2>3. Types'
      BY <2>2, TypesStep
    <2>4. Touches'
      BY <2>1, <2>2, <2>3, TouchesStep
    <2>5. Queued'
      BY <2>1, <2>2, <2>3, QueuedStep
    <2>6. Judged'
      BY <2>1, <2>2, <2>3, <2>4, <2>5, JudgedStep
    <2>7. Layered'
      BY <2>1, <2>2, <2>3, LayeredStep
    <2>8. Identified'
      BY <2>1, <2>2, <2>3, IdentifiedStep
    <2>9. Versions'
      BY <2>1, <2>2, <2>3, <2>4, <2>7, VersionsStep
    <2>10. Endings'
      BY <2>1, <2>2, <2>3, <2>4, <2>7, EndingsStep
    <2>11. QED
      BY <2>3, <2>4, <2>5, <2>6, <2>7, <2>8, <2>9, <2>10 DEF Inv
  <1>3. QED
    BY <1>1, <1>2

\* The inductive invariant holds.
THEOREM Invariance == Spec => []Inv
  BY InvInit, InvNext, PTL DEF Spec

-------------------------------------------------------------------------------
(* What follows *)

\* Every variable, and the locals of every request, have their types.
THEOREM TypeCorrect == Spec => []TypeOK
  <1>1. Inv => TypeOK
    <2> SUFFICES ASSUME Inv PROVE TypeOK
      OBVIOUS
    <2>1. Types /\ Queued /\ Identified
      BY DEF Inv
    <2>2. budget \in [DOMAIN budget -> Nat]
      BY <2>1 DEF Types
    <2>3. minted \in Nat /\ \A i \in 1 .. MaxEdges : i <= minted => i \in 1 .. minted
      BY <2>1, TreesAssumption DEF Types
    <2>4. \A e \in edges : e.id \in 1 .. minted /\ {e.src, e.dst} \subseteq Node /\ e.rel \in Relation
      BY <2>1, <2>3 DEF Types, EdgeRow, Identified
    <2>5. \A t \in Thread : pc[t] = "idle" <=> call[t] = NoCall
      <3>1. TAKE t \in Thread
      <3>2. CallTypes(pc[t], call[t])
        BY <2>1 DEF Types
      <3>3. QED
        BY <3>2, CallKinds
    <2>6. TreesTypeOK
      BY <2>1, <2>2, <2>4, <2>5 DEF Types, TreesTypeOK
    <2>7. QED
      BY <2>1, <2>6 DEF Types, Queued, Reviewed, CandidateRow, TypeOK
  <1>2. QED
    BY <1>1, Invariance, PTL

\* A rejected pair has made no edge and an accepted one has, whatever rebuilds, reports
\* and operators did meanwhile, unless two judged it at once or one died.
THEOREM VerdictsTakeEffect == Spec => []VerdictsHaveEffect
  <1>1. Inv => VerdictsHaveEffect
    BY JudgedHolds DEF Inv
  <1>2. QED
    BY <1>1, Invariance, PTL

\* Nobody is at a document at rest, and nobody has died there.
LEMMA Resting ==
  ASSUME Inv, AtRest
  PROVE  Document \notin torn /\ \A t \in Thread : call[t].op \notin DocumentOps
  BY DEF Inv, Touches, AtRest

\* At rest a document has one version that is not superseded, the one its record is of,
\* and every tree has all its nodes, in its own status.
THEOREM TreesStayWhole == Spec => []TreesAreWhole
  <1>1. Inv => TreesAreWhole
    <2> SUFFICES ASSUME Inv, AtRest
                 PROVE  /\ Cardinality({i \in Version : tree[i] \notin {"absent", "superseded"}}) = 1
                        /\ tree[document] # "superseded"
                        /\ \A n \in Node : row[n] = IF n \in Rows(n[1]) THEN tree[n[1]] ELSE "absent"
      BY DEF TreesAreWhole
    <2>1. Whole(document, tree, row)
      BY Resting DEF Inv, Versions
    <2>2. document \in Version
      BY DEF Inv, Types
    <2>3. {i \in Version : tree[i] \notin {"absent", "superseded"}} = {document}
      BY <2>1, <2>2 DEF Whole
    <2>4. \A n \in Node : n \in Rows(n[1]) <=> Laid(n)
      <3>1. TAKE n \in Node
      <3>2. n = <<n[1], n[2]>> /\ n[1] \in Tree /\ n[2] \in 1 .. 2
        BY DEF Node, Width
      <3>3. Len(layout[n[1]]) \in Nat
        <4>1. layout[n[1]] \in Layouts \cup {<<>>, <<Far>>}
          BY <3>2 DEF Inv, Types
        <4>2. QED
          BY <4>1, Lengths DEF Width
      <3> DEFINE k == Len(layout[n[1]])
      <3> HIDE DEF k
      <3>4. n \in {<<n[1], j>> : j \in 1 .. k} <=> n[2] \in 1 .. k
        BY <3>2
      <3>5. n[2] \in 1 .. k <=> n[2] <= k
        BY <3>2, <3>3 DEF k
      <3>6. QED
        BY <3>4, <3>5 DEF Rows, Laid, k
    <2>5. QED
      BY <2>1, <2>2, <2>3, <2>4, FS_Singleton DEF Whole
  <1>2. QED
    BY <1>1, Invariance, PTL

\* At rest a standing reviewed edge is on active nodes, or on nodes of a tree that has
\* never been shown, whatever rebuilds the document has been through.
THEOREM EdgesAlwaysFollow == Spec => []EdgesFollow
  <1>1. Inv => EdgesFollow
    <2> SUFFICES ASSUME Inv, AtRest, Edges \notin torn
                 PROVE  \A e \in edges : e.reviewed /\ ~e.flagged /\ ~e.late =>
                          \A n \in {e.src, e.dst} : row[n] = "active" \/ n[1] \notin shown
      BY DEF EdgesFollow
    <2>1. AllEnded
      BY Resting DEF Inv, Endings
    <2>2. QED
      BY <2>1 DEF AllEnded, Standing, Ends, Ended
  <1>2. QED
    BY <1>1, Invariance, PTL

\* A rebuild that fails and puts everything back leaves the document, its trees and nodes,
\* and every edge that it read, as it found them.
THEOREM FailedRebuildsLeaveNoTrace == Spec => FailedRebuildLeavesNoTrace
  <1> DEFINE Undone(t) ==
        pc[t] = "restoreReviewed" /\ pc'[t] = "idle" /\ {Document, Edges} \cap torn' = {} =>
            LET c == call[t]
            IN /\ document = c.document /\ tree = c.tree /\ row = c.row
               /\ \A e \in c.edges \cup c.reviewed : e \in edges'
  <1>1. ASSUME Inv, Inv', Next, NEW t \in Thread
        PROVE  Undone(t)
    <2> SUFFICES ASSUME pc[t] = "restoreReviewed", pc'[t] = "idle", {Document, Edges} \cap torn' = {}
                 PROVE  /\ document = call[t].document /\ tree = call[t].tree /\ row = call[t].row
                        /\ \A e \in call[t].edges \cup call[t].reviewed : e \in edges'
      OBVIOUS
    <2>1. Types /\ Types' /\ Touches /\ Identified /\ Versions
      BY <1>1 DEF Inv
    <2>2. PICK u \in Thread : Step(u)
      BY <1>1, StepsAre
    <2>3. Alone(u) /\ torn \subseteq torn'
      BY <2>1, <2>2, StepMoves, TornGrows
    <2>4. u = t
      BY <2>3 DEF Alone
    <2>5. call[t].op = "rebuild"
      BY <2>1, AtRebuild DEF RebuildSteps, Restoring
    <2>6. ~ Crash(t)
      BY <2>1, <2>5 DEF Crash, Touches, DocumentOps
    <2>7. RebuildStep(t)
      BY <2>1, <2>2, <2>4, <2>5, <2>6, DocumentSteps
    <2>8. RestoreReviewed(t)
      BY <2>7 DEF RebuildStep, ReadRows, ReadEdges, SupersedeTrees, SupersedeNodes, WriteDocument,
           InsertTree, InsertNode, InsertHints, MapNodes, CarryEdge, Fail, RestoreDocument, RestoreTrees,
           RestoreNodes, RestoreEdges, Goto, Trying
    <2> DEFINE read == call[t].reviewed
    <2>9. edges' = PutBack(read, edges) /\ LeaveRestored(t, Returned(read, edges) = read)
      BY <2>8 DEF RestoreReviewed
    <2>10. Returned(read, edges) = read
      BY <2>9 DEF LeaveRestored
    <2>11. RebuildPhase(pc[t], call[t])
      BY <2>1, <2>3, <2>5 DEF Versions
    <2>12. document = call[t].document /\ tree = call[t].tree /\ row = call[t].row /\ call[t].edges \subseteq edges
      BY <2>11 DEF RebuildPhase, Restoring
    <2>13. Apiece(call[t].edges \cup read)
      BY <2>1, <2>5 DEF Identified
    <2>14. \A e \in call[t].edges \cup read : e \in edges'
      BY <2>9, <2>10, <2>12, <2>13 DEF PutBack, Apiece, Ids
    <2>15. QED
      BY <2>12, <2>14
  <1>2. Inv /\ Inv' /\ [Next]_vars => [\A t \in Thread : Undone(t)]_treeVars
    BY <1>1 DEF vars
  <1> HIDE DEF Undone
  <1>3. Spec => [][\A t \in Thread : Undone(t)]_treeVars
    BY <1>2, Invariance, PTL DEF Spec
  <1>4. QED
    BY <1>3 DEF Undone, FailedRebuildLeavesNoTrace

================================================================================

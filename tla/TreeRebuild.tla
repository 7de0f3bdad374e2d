------------------------------ MODULE TreeRebuild ------------------------------
(***************************************************************************)
(* Targeted rebuild of a document (db/repositories.py                      *)
(* targeted_rebuild_document): the rows of its active tree are changed in  *)
(* place, one write after the other and without a transaction, to the      *)
(* layout of a new parse; a failure restores what was read before.         *)
(* Operators endorse nodes, write summaries and add edges meanwhile.  One  *)
(* document with one tree, one rebuild at a time; a node_key is unique in  *)
(* its tree by index.                                                      *)
(***************************************************************************)
EXTENDS RebuildDiff, FiniteSets

CONSTANTS
    Text,         \* titles and texts
    First,        \* the parse that was committed
    Proposals,    \* later parses of the source: [nodes, rels], in document order
    MaxId,        \* bound on the node rows ever inserted
    MaxRuns,      \* bound on the rebuilds
    MaxActs       \* bound on what operators do

Id == 1 .. MaxId
Pair == Id \X Id

Keys(P) == {P.nodes[n].key : n \in DOMAIN P.nodes}

Node == [key : Nat \ {0}, parent : Nat, title : Text, text : Text]

ASSUME BoundAssumption ==
    /\ MaxId \in Nat /\ MaxRuns \in Nat /\ MaxActs \in Nat
    /\ "none" \in Text

\* Keys are distinct and parents exist (validate_parent_keys); 0 is no parent.
ASSUME ProposalAssumption ==
    /\ Len(First.nodes) <= MaxId
    /\ \A P \in Proposals \cup {First} :
          /\ P.nodes \in Seq(Node)
          /\ \A m, n \in DOMAIN P.nodes : P.nodes[m].key = P.nodes[n].key => m = n
          /\ \A n \in DOMAIN P.nodes : P.nodes[n].parent \in Keys(P) \cup {0}
          /\ P.rels \subseteq Keys(P) \X Keys(P)

VARIABLES
    rows,       \* nodes rows of the tree, by _id
    edge,       \* graph_edges rows, by source and target
    stamp,      \* ingestion_epoch of the document row and of the tree row
    used,       \* ids ever given: ids are never given again
    run,        \* number of the rebuild; its epoch
    pc, prop,   \* the rebuild's next step, its parse
    snap,       \* active rows it read first, for the diff
    match,      \* the diff: row of each proposed node
    prev,       \* what it read to restore: rows, edges, stamp
    kid,        \* key_to_id
    todo,       \* what is left of its current loop
    acts,       \* number of operator acts
    quiet,      \* whether operators keep still during rebuilds
    before      \* history: rows, edges and stamp when the rebuild began

store == <<rows, edge, stamp, used>>
locals == <<prop, snap, match, prev, kid>>
vars == <<store, run, pc, locals, todo, acts, quiet, before>>

NoRow == [status |-> "absent", key |-> Plain(0), parent |-> 0, pid |-> 0, order |-> 0,
          title |-> "none", text |-> "none", mark |-> "none", sum |-> "machine", prov |-> "none"]

\* mark is the text that a human judgement (endorsement_label) is about.
NewRow(p, n, pid) ==
    [status |-> "active", key |-> Plain(p.key), parent |-> p.parent, pid |-> pid, order |-> n,
     title |-> p.title, text |-> p.text, mark |-> "none", sum |-> "machine", prov |-> "none"]

Present(rs) == {i \in Id : rs[i].status # "absent"}
ReviewedStates == {"reviewed", "superseded", "changed"}
Reviewed(es) == {e \in Pair : es[e] \in ReviewedStates}

\* update_one by _id: a row that is gone is not written.
Written(i, row) == IF i \in Present(rows) THEN [rows EXCEPT ![i] = row] ELSE rows

Image == [rows |-> rows, edge |-> edge, stamp |-> stamp]
NoImage == [rows |-> [i \in Id |-> NoRow], edge |-> [e \in Pair |-> "none"],
            stamp |-> [document |-> 0, tree |-> 0]]
NoParse == [nodes |-> <<>>, rels |-> {}]

IdOfKey(P, k) == CHOOSE n \in DOMAIN P.nodes : P.nodes[n].key = k

\* A committed document: nodes in document order, parents resolved.
Init ==
    /\ LET P == First
           Parent(p) == IF p.parent = 0 THEN 0 ELSE IdOfKey(P, p.parent)
       IN /\ rows = [i \in Id |-> IF i \in DOMAIN P.nodes
                                    THEN NewRow(P.nodes[i], i, Parent(P.nodes[i])) ELSE NoRow]
          /\ edge = [e \in Pair |->
                        IF \E r \in P.rels : e = <<IdOfKey(P, r[1]), IdOfKey(P, r[2])>>
                          THEN "machine" ELSE "none"]
          /\ used = Len(P.nodes)
    /\ stamp = [document |-> 0, tree |-> 0]
    /\ run = 0
    /\ pc = "idle"
    /\ prop = NoParse /\ snap = NoImage.rows /\ match = <<>> /\ prev = NoImage /\ kid = <<>>
    /\ todo = {}
    /\ acts = 0
    /\ quiet \in BOOLEAN
    /\ before = NoImage

At(step) == pc = step
Goto(step, S) == pc' = step /\ todo' = S

\* Rows come in the order of their ids, proposed nodes in document order.
InTurn(step, x) == At(step) /\ x \in todo /\ \A y \in todo : x <= y

Forget == /\ prop' = NoParse /\ snap' = NoImage.rows /\ match' = <<>> /\ prev' = NoImage
          /\ kid' = <<>>

-------------------------------------------------------------------------------
(* Reading: targeted_rebuild_document *)

Begin(P) ==
    /\ At("idle")
    /\ run < MaxRuns
    /\ used + Len(P.nodes) <= MaxId
    /\ run' = run + 1
    /\ prop' = P
    /\ before' = Image
    /\ Goto("read", {})
    /\ UNCHANGED <<store, snap, match, prev, kid, acts, quiet>>

\* existing_nodes and their diff.
ReadExisting ==
    /\ At("read")
    /\ snap' = rows
    /\ match' \in Matching(rows, prop.nodes)
    /\ Goto("previous", {})
    /\ UNCHANGED <<store, run, prop, prev, kid, acts, quiet, before>>

\* Mutant: the active rows only.
ActivePreviousRows == [i \in Id |-> IF rows[i].status = "active" THEN rows[i] ELSE NoRow]

\* previous_nodes: all rows of the tree, whatever their status.
PreviousRows == rows

\* previous_nodes, previous_edges, reviewed_edges; with one tree all reviewed
\* edges are among the edges of the tree.
ReadPrevious ==
    /\ At("previous")
    /\ prev' = [Image EXCEPT !.rows = PreviousRows]
    /\ Goto("document", {})
    /\ UNCHANGED <<store, run, prop, snap, match, kid, acts, quiet, before>>

-------------------------------------------------------------------------------
(* Writing: apply_targeted_rebuild *)

Matched == {match[n] : n \in DOMAIN match} \ {0}

\* keeps_key
Keeps == {match[n] : n \in {m \in DOMAIN match : /\ match[m] # 0
                                                 /\ snap[match[m]].key = Plain(prop.nodes[m].key)}}

\* Mutant: only the rows that get another key.
ToParkMatched ==
    {i \in Matched \ Keeps : \E k \in Keys(prop) : rows[i].key = Plain(k)}

\* Rows that hold a key the new layout needs for another row.
ToPark == {i \in Present(rows) \ Keeps : \E k \in Keys(prop) : rows[i].key = Plain(k)}

Removed == ActiveRows(snap) \ Matched

ContentChanged ==
    {match[n] : n \in {m \in DOMAIN match : /\ match[m] # 0
                                            /\ ~SameText(snap[match[m]], prop.nodes[m])}}

WriteStamp(step, field, next, S) ==
    /\ At(step)
    /\ stamp' = [stamp EXCEPT ![field] = run]
    /\ Goto(next, S)
    /\ UNCHANGED <<rows, edge, used, run, locals, acts, quiet, before>>

WriteDocument == WriteStamp("document", "document", "tree", {})
WriteTree == WriteStamp("tree", "tree", "park", ToPark)

\* free_node_keys_for_layout
Park(i) ==
    /\ InTurn("park", i)
    /\ rows' = Written(i, [rows[i] EXCEPT
                              !.key = IF i \in Matched THEN Rekeying(i) ELSE Superseded(i)])
    /\ Goto("park", todo \ {i})
    /\ UNCHANGED <<edge, stamp, used, run, locals, acts, quiet, before>>


\* key_to_id.get: 0 for no parent and for one that was not written yet.
IdOf(key) == IF key \in DOMAIN kid THEN kid[key] ELSE 0

Placed(n, i) ==
    /\ kid' = [k \in DOMAIN kid \cup {prop.nodes[n].key} |->
                  IF k = prop.nodes[n].key THEN i ELSE kid[k]]
    /\ Goto("write", todo \ {n})
    /\ UNCHANGED <<edge, stamp, run, prop, snap, match, prev, acts, quiet, before>>

KeepNode(n) ==
    /\ InTurn("write", n)
    /\ match[n] # 0 /\ Unchanged(snap[match[n]], prop.nodes[n])
    /\ rows' = Written(match[n], [rows[match[n]] EXCEPT
                                     !.order = n, !.pid = IdOf(prop.nodes[n].parent)])
    /\ UNCHANGED used
    /\ Placed(n, match[n])

Relaid(row, n) ==
    [row EXCEPT !.key = Plain(prop.nodes[n].key), !.parent = prop.nodes[n].parent,
                !.pid = IdOf(prop.nodes[n].parent), !.order = n, !.title = prop.nodes[n].title]

\* content_change_resets; regenerated_summary_provenance looks at the row read first.
Rewritten(row, text, old) ==
    [row EXCEPT !.text = text, !.mark = "none", !.sum = "machine",
                !.prov = IF old.prov = "none" THEN @ ELSE "derived"]

\* changed and moved
UpdateNode(n) ==
    /\ InTurn("write", n)
    /\ match[n] # 0 /\ ~Unchanged(snap[match[n]], prop.nodes[n])
    /\ LET i == match[n]
           row == Relaid(rows[i], n)
       IN rows' = Written(i, IF i \in ContentChanged
                               THEN Rewritten(row, prop.nodes[n].text, snap[i]) ELSE row)
    /\ UNCHANGED used
    /\ Placed(n, match[n])

AddNode(n) ==
    /\ InTurn("write", n)
    /\ match[n] = 0 /\ used < MaxId
    /\ used' = used + 1
    /\ rows' = [rows EXCEPT ![used + 1] = NewRow(prop.nodes[n], n, IdOf(prop.nodes[n].parent))]
    /\ Placed(n, used + 1)

Supersede(i) ==
    /\ InTurn("remove", i)
    /\ rows' = Written(i, [rows[i] EXCEPT !.status = "superseded"])
    /\ Goto("remove", todo \ {i})
    /\ UNCHANGED <<edge, stamp, used, run, locals, acts, quiet, before>>

\* Nodes that came before their parent.
Pending == {kid[prop.nodes[n].key] : n \in {m \in DOMAIN prop.nodes :
               \E l \in DOMAIN prop.nodes : m <= l /\ prop.nodes[l].key = prop.nodes[m].parent}}

\* link_pending_parents: by now every parent has its id.
Link(i) ==
    /\ InTurn("link", i)
    /\ rows' = Written(i, [rows[i] EXCEPT !.pid = IdOf(rows[i].parent)])
    /\ Goto("link", todo \ {i})
    /\ UNCHANGED <<edge, stamp, used, run, locals, acts, quiet, before>>

\* delete_graph_edges_for_tree, reviewed edges spared
DropEdges ==
    /\ At("drop")
    /\ edge' = [e \in Pair |-> IF edge[e] = "machine" THEN "none" ELSE edge[e]]
    /\ Goto("insert", {})
    /\ UNCHANGED <<rows, stamp, used, run, locals, acts, quiet, before>>

\* What insert_relation_edges inserts: not what was reviewed when the rebuild read it.
NewEdges == {<<kid[r[1]], kid[r[2]]>> : r \in prop.rels} \ Reviewed(prev.edge)

InsertEdges ==
    /\ At("insert")
    /\ \A e \in NewEdges : edge[e] = "none"
    /\ edge' = [e \in Pair |-> IF e \in NewEdges THEN "machine" ELSE edge[e]]
    /\ Goto("flag", Reviewed(prev.edge))
    /\ UNCHANGED <<rows, stamp, used, run, locals, acts, quiet, before>>

\* The unique index refuses an edge; those before it are in.
InsertEdgesRaises ==
    /\ At("insert")
    /\ \E e \in NewEdges : edge[e] # "none"
    /\ \E S \in SUBSET {e \in NewEdges : edge[e] = "none"} :
          edge' = [e \in Pair |-> IF e \in S THEN "machine" ELSE edge[e]]
    /\ Goto("rdocument", {})
    /\ UNCHANGED <<rows, stamp, used, run, locals, acts, quiet, before>>

\* flag_reviewed_edges
Flagged(e) ==
    IF \E x \in {1, 2} : e[x] \in Removed THEN "superseded"
    ELSE IF \E x \in {1, 2} : e[x] \in ContentChanged THEN "changed"
    ELSE edge[e]

FlagEdge(e) ==
    /\ At("flag") /\ e \in todo
    /\ edge' = [edge EXCEPT ![e] = Flagged(e)]
    /\ Goto("flag", todo \ {e})
    /\ UNCHANGED <<rows, stamp, used, run, locals, acts, quiet, before>>

-------------------------------------------------------------------------------
(* Failure: the except branch, restore_rows_in_scope *)

Applying == {"document", "tree", "park", "write", "remove", "link", "drop", "insert", "flag"}

RestoreStep == {"rdocument", "rtree", "rdelete", "rpark", "rreplace", "redges"}

\* A write, or the embedder, raises.
Fail ==
    /\ pc \in Applying
    /\ Goto("rdocument", {})
    /\ UNCHANGED <<store, run, locals, acts, quiet, before>>

RestoreDocument ==
    /\ At("rdocument")
    /\ stamp' = [stamp EXCEPT !.document = prev.stamp.document]
    /\ Goto("rtree", {})
    /\ UNCHANGED <<rows, edge, used, run, locals, acts, quiet, before>>

\* The rows that the failed write added.
AddedRows == Present(rows) \ Present(prev.rows)

RestoreTree ==
    /\ At("rtree")
    /\ stamp' = [stamp EXCEPT !.tree = prev.stamp.tree]
    /\ Goto("rdelete", AddedRows)
    /\ UNCHANGED <<rows, edge, used, run, locals, acts, quiet, before>>

DeleteRow(i) ==
    /\ InTurn("rdelete", i)
    /\ rows' = [rows EXCEPT ![i] = NoRow]
    /\ Goto("rdelete", todo \ {i})
    /\ UNCHANGED <<edge, stamp, used, run, locals, acts, quiet, before>>

ParkForRestore(i) ==
    /\ InTurn("rpark", i)
    /\ rows' = Written(i, [rows[i] EXCEPT !.key = Restoring(i)])
    /\ Goto("rpark", todo \ {i})
    /\ UNCHANGED <<edge, stamp, used, run, locals, acts, quiet, before>>

ReplaceRow(i) ==
    /\ InTurn("rreplace", i)
    /\ rows' = [rows EXCEPT ![i] = prev.rows[i]]
    /\ Goto("rreplace", todo \ {i})
    /\ UNCHANGED <<edge, stamp, used, run, locals, acts, quiet, before>>

\* Edges that were not there are deleted, the others restored, by their _id.
RestoreEdges ==
    /\ At("redges")
    /\ edge' = prev.edge
    /\ Goto("restored", {})
    /\ UNCHANGED <<rows, stamp, used, run, locals, acts, quiet, before>>

-------------------------------------------------------------------------------

\* The loops, each with the step after it and what that step goes through.
Loop == {"park", "write", "remove", "link", "flag", "rdelete", "rpark", "rreplace"}

EndLoop ==
    /\ pc \in Loop /\ todo = {}
    /\ CASE At("park")     -> Goto("write", DOMAIN prop.nodes)
         [] At("write")    -> Goto("remove", Removed)
         [] At("remove")   -> Goto("link", Pending)
         [] At("link")     -> Goto("drop", {})
         [] At("flag")     -> Goto("done", {})
         [] At("rdelete")  -> Goto("rpark", {i \in Present(rows) : rows[i].key # prev.rows[i].key})
         [] At("rpark")    -> Goto("rreplace", Present(prev.rows))
         [] At("rreplace") -> Goto("redges", {})
    /\ UNCHANGED <<store, run, locals, acts, quiet, before>>

Return ==
    /\ pc \in {"done", "restored"}
    /\ Goto("idle", {})
    /\ Forget
    /\ before' = NoImage
    /\ UNCHANGED <<store, run, acts, quiet>>

\* The process dies, or its restore raises; nothing takes its work up again.
Crash ==
    /\ pc \notin {"idle", "done", "restored"}
    /\ Goto("idle", {})
    /\ Forget
    /\ before' = NoImage
    /\ UNCHANGED <<store, run, acts, quiet>>

-------------------------------------------------------------------------------
(* Operators *)

Operate ==
    /\ acts < MaxActs
    /\ quiet => At("idle")
    /\ acts' = acts + 1
    /\ UNCHANGED <<stamp, used, run, pc, locals, todo, quiet, before>>

\* update_node_endorsement, of generated output
Endorse(i) ==
    /\ Operate
    /\ i \in Present(rows) /\ rows[i].mark # rows[i].text
    /\ rows' = [rows EXCEPT ![i].mark = rows[i].text]
    /\ UNCHANGED edge

\* update_node_summary
Summarise(i) ==
    /\ Operate
    /\ i \in Present(rows)
    /\ rows' = [rows EXCEPT ![i].sum = "operator", ![i].prov = "operator"]
    /\ UNCHANGED edge

\* create_reviewed_semantic_edge
AddReviewedEdge(i, j) ==
    /\ Operate
    /\ {i, j} \subseteq Present(rows) /\ i # j
    /\ edge[<<i, j>>] = "none"
    /\ edge' = [edge EXCEPT ![<<i, j>>] = "reviewed"]
    /\ UNCHANGED rows

-------------------------------------------------------------------------------

RebuildNext ==
    \/ \E P \in Proposals : Begin(P)
    \/ ReadExisting \/ ReadPrevious
    \/ WriteDocument \/ WriteTree
    \/ \E i \in Id : Park(i) \/ Supersede(i) \/ Link(i)
    \/ \E n \in DOMAIN prop.nodes : KeepNode(n) \/ UpdateNode(n) \/ AddNode(n)
    \/ DropEdges \/ InsertEdges \/ InsertEdgesRaises
    \/ \E e \in Pair : FlagEdge(e)
    \/ RestoreDocument \/ RestoreTree
    \/ \E i \in Id : DeleteRow(i) \/ ParkForRestore(i) \/ ReplaceRow(i)
    \/ RestoreEdges
    \/ EndLoop \/ Return

OperatorNext ==
    \/ \E i \in Id : Endorse(i) \/ Summarise(i)
    \/ \E i, j \in Id : AddReviewedEdge(i, j)

Next == RebuildNext \/ Fail \/ Crash \/ OperatorNext

Spec == Init /\ [][Next]_vars

-------------------------------------------------------------------------------
(* Properties *)

KeyValue == {"key", "rekeying", "superseded", "restoring"} \X Nat

Row == [status : {"absent", "active", "superseded"}, key : KeyValue, parent : Nat,
        pid : 0 .. MaxId, order : Nat, title : Text, text : Text, mark : Text,
        sum : {"machine", "operator"}, prov : {"none", "operator", "derived"}]

Images == [rows : [Id -> Row], edge : [Pair -> {"none", "machine"} \cup ReviewedStates],
           stamp : [document : 0 .. MaxRuns, tree : 0 .. MaxRuns]]

\* Types; ids that were not given have no row; the diff is there once it is made.
TypeOK ==
    /\ Image \in Images /\ prev \in Images /\ before \in Images
    /\ snap \in [Id -> Row]
    /\ used \in 0 .. MaxId /\ run \in 0 .. MaxRuns /\ acts \in 0 .. MaxActs
    /\ Present(rows) \cup Present(prev.rows) \subseteq 1 .. used
    /\ prop \in Proposals \cup {NoParse}
    /\ \A k \in DOMAIN kid : kid[k] \in 0 .. MaxId
    /\ pc \in Applying \cup RestoreStep \cup {"idle", "read", "previous", "done", "restored"}
    /\ pc \in Applying \cup {"previous"} => match \in [DOMAIN prop.nodes -> 0 .. MaxId]
    /\ quiet \in BOOLEAN

\* The unique index on (tree_id, node_key) never refuses a write: whatever rows
\* swap their keys, in the new layout or in the restored one, no two rows of the
\* tree hold one key, also when an earlier rebuild died in between.
KeysAreUnique ==
    \A i, j \in Present(rows) : rows[i].key = rows[j].key => i = j

\* Every key is one that a parse gave or a temporary one of its own row.
OwnKey(i, key) == key[1] = "key" \/ key[2] = i

KeysFit(rs) ==
    /\ \A i \in Present(rs) : OwnKey(i, rs[i].key)
    /\ \A i, j \in Present(rs) : rs[i].key = rs[j].key => i = j

\* How the keys get from one layout to the other: while rows are parked, one that
\* holds a key of the new layout keeps it or is yet to be parked; while nodes are
\* written, it is the row of a written node or keeps the key of one to be written;
\* while rows are restored, each has its old key or its own temporary one.
KeyInv ==
    /\ KeysFit(rows)
    /\ pc \in Applying \cup RestoreStep => KeysFit(prev.rows)
    /\ pc \in {"previous", "document", "tree"} => \A i \in Id : rows[i].key = snap[i].key
    /\ At("park") =>
          /\ todo \cap Keeps = {}
          /\ \A i \in Keeps : rows[i].key = snap[i].key
          /\ \A i \in Present(rows), k \in Keys(prop) :
                rows[i].key = Plain(k) => i \in todo \cup Keeps
    /\ At("write") =>
          \A i \in Present(rows), n \in DOMAIN prop.nodes :
              rows[i].key = Plain(prop.nodes[n].key) =>
                  i = IF n \in todo THEN match[n] ELSE IdOf(prop.nodes[n].key)
    /\ At("rdelete") => Present(rows) \ Present(prev.rows) \subseteq todo
    /\ pc \in {"rpark", "rreplace"} =>
          \A i \in Present(rows) :
              /\ i \in Present(prev.rows)
              /\ \/ rows[i].key \in {prev.rows[i].key, Restoring(i)}
                 \/ At("rpark") /\ i \in todo

\* restore_rows_in_scope: "A crash part-way leaves extra or not-yet-restored
\* rows, never missing ones": no row that was there when the rebuild began goes.
RowsStay ==
    [][\A i \in Id : i \in Present(rows) \ Present(rows)' => i \notin Present(before.rows)]_vars

\* A rebuild that failed and was undisturbed leaves rows, edges and epochs as
\* they were when it began, whichever step it failed at.
RollbackRestores == At("restored") /\ quiet => Image = before

Blank(rs) == \A i \in Id \ Present(rs) : rs[i] = NoRow

\* What the rows rest on: no row of before is given up, absent rows are blank, and
\* an undisturbed rebuild holds in prev what it found.
RestoreInv ==
    /\ Blank(rows) /\ Blank(prev.rows)
    /\ pc \in {"read", "previous"} => Present(before.rows) \subseteq Present(rows)
    /\ pc \in {"read", "previous"} /\ quiet => Image = before
    /\ pc \in Applying \cup RestoreStep => Present(before.rows) \subseteq Present(prev.rows)
    /\ pc \in Applying \cup RestoreStep /\ quiet => prev = before
    /\ pc \in RestoreStep \ {"rdocument"} => stamp.document = prev.stamp.document
    /\ pc \in RestoreStep \ {"rdocument", "rtree"} => stamp.tree = prev.stamp.tree
    /\ At("rdelete") => todo \cap Present(prev.rows) = {}
    /\ At("rreplace") => todo \subseteq Present(prev.rows)
    /\ At("rreplace") /\ quiet => \A i \in Present(prev.rows) \ todo : rows[i] = prev.rows[i]
    /\ At("redges") /\ quiet => rows = prev.rows
    /\ RollbackRestores

RowAt(n) == CHOOSE i \in ActiveRows(rows) : rows[i].order = n

\* A rebuild that returned has made the active rows the new parse, in its order
\* and with parents resolved, and the machine edges its relations, also if an
\* earlier rebuild left the tree half written.
LayoutIsProposal ==
    At("done") =>
        /\ Cardinality(ActiveRows(rows)) = Len(prop.nodes)
        /\ \A n \in DOMAIN prop.nodes :
              /\ \E i \in ActiveRows(rows) : rows[i].order = n
              /\ Unchanged(rows[RowAt(n)], prop.nodes[n])
              /\ rows[RowAt(n)].pid =
                    IF prop.nodes[n].parent = 0 THEN 0
                    ELSE RowAt(IdOfKey(prop, prop.nodes[n].parent))
        /\ \A e \in Pair : edge[e] = "machine" =>
              \E r \in prop.rels : /\ rows[e[1]].key = Plain(r[1])
                                  /\ rows[e[2]].key = Plain(r[2])
        /\ stamp = [document |-> run, tree |-> run]

\* The judgement on a row is about the text that the row has.
MarkFits(row) == row.mark \in {"none", row.text}

\* docs/consolidated-requirements-and-design.md:456, "a kept id always holds the
\* same text it held before": a text that is one row's before and one node's of
\* the parse stays on its row with the judgement on it, wherever its key moves.
\* No judgement is ever on another text than it was made about, and a summary
\* that says it is an operator's is one, unless it was written meanwhile.
JudgementsFit ==
    /\ \A i \in Present(rows) : MarkFits(rows[i])
    /\ quiet => \A i \in Id : rows[i].prov = "operator" => rows[i].sum = "operator"
    /\ At("done") =>
          \A i \in ActiveRows(before.rows), n \in DOMAIN prop.nodes :
              LET old == before.rows[i]
                  new == prop.nodes[n]
              IN (/\ old.text = new.text
                  /\ \A j \in ActiveRows(before.rows) : before.rows[j].text = old.text => j = i
                  /\ \A m \in DOMAIN prop.nodes : prop.nodes[m].text = new.text => m = n)
                 => /\ rows[i].status = "active" /\ rows[i].order = n
                    /\ rows[i].text = old.text
                    /\ old.mark # "none" => rows[i].mark = old.mark

\* Of the reviewed edges there were, a rebuild that returned has flagged those
\* with an end that was superseded or rewritten, and no others.
ReviewedEdgesFlagged ==
    At("done") =>
        \A e \in Reviewed(before.edge) :
            LET touched == \E x \in {1, 2} :
                    \/ before.rows[e[x]].status # rows[e[x]].status
                    \/ before.rows[e[x]].text # rows[e[x]].text
            IN IF touched THEN edge[e] \in {"superseded", "changed"}
               ELSE edge[e] = before.edge[e]

\* A rebuild that returned is right in all its parts: layout, judgements, flags.
RebuildIsRight == LayoutIsProposal /\ JudgementsFit /\ ReviewedEdgesFlagged

================================================================================

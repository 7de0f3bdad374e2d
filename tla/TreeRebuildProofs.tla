--------------------------- MODULE TreeRebuildProofs ---------------------------
(***************************************************************************)
(* Theorems about TreeRebuild for any parses and any number of rows,       *)
(* rebuilds and operator acts: the types, the uniqueness of the keys, that *)
(* no row is lost, that a failed rebuild is undone and that one that       *)
(* returned is right.                                                      *)
(***************************************************************************)
EXTENDS TreeRebuild, FiniteSetTheorems, TLAPS

USE DEF At, Goto, InTurn, Image, store, locals

\* The parse of a rebuild is a sequence of nodes with distinct keys.
LEMMA ParseType ==
  ASSUME prop \in Proposals \cup {NoParse}
  PROVE  /\ prop.nodes \in Seq(Node)
         /\ \A n \in DOMAIN prop.nodes : n \in Nat /\ prop.nodes[n] \in Node
         /\ \A m, n \in DOMAIN prop.nodes : prop.nodes[m].key = prop.nodes[n].key => m = n
  <1>1. prop.nodes \in Seq(Node)
    <2>1. CASE prop \in Proposals
      <3>1. prop \in Proposals \cup {First}
        BY <2>1
      <3>2. QED
        BY <3>1, ProposalAssumption DEF Node
    <2>2. CASE prop = NoParse
      BY <2>2 DEF NoParse
    <2>3. QED
      BY <2>1, <2>2
  <1>2. \A m, n \in DOMAIN prop.nodes : prop.nodes[m].key = prop.nodes[n].key => m = n
    <2>1. CASE prop \in Proposals
      <3>1. prop \in Proposals \cup {First}
        BY <2>1
      <3>2. QED
        BY <3>1, ProposalAssumption
    <2>2. CASE prop = NoParse
      BY <2>2 DEF NoParse
    <2>3. QED
      BY <2>1, <2>2
  <1>3. QED
    BY <1>1, <1>2

\* A diff gives each proposed node a row or none.
LEMMA MatchingType ==
  ASSUME NEW rs \in [Id -> Row], NEW P, NEW m \in Matching(rs, P)
  PROVE  m \in [DOMAIN P -> 0 .. MaxId]
  <1>1. m \in [DOMAIN P -> DOMAIN rs \cup {0}]
    BY DEF Matching, Passes
  <1>2. DOMAIN rs \cup {0} = 0 .. MaxId
    BY BoundAssumption DEF Id
  <1>3. QED
    BY <1>1, <1>2

\* The keys that code gives to rows.
LEMMA KeyType ==
  ASSUME NEW k \in Nat
  PROVE  {Plain(k), Rekeying(k), Superseded(k), Restoring(k)} \subseteq KeyValue
  BY DEF Plain, Rekeying, Superseded, Restoring, KeyValue

\* The row of a node that is inserted.
LEMMA NewRowType ==
  ASSUME NEW p \in Node, NEW n \in Nat, NEW pid \in 0 .. MaxId
  PROVE  NewRow(p, n, pid) \in Row
  <1>1. p.key \in Nat /\ p.parent \in Nat /\ p.title \in Text /\ p.text \in Text
    BY DEF Node
  <1>2. Plain(p.key) \in KeyValue
    BY <1>1, KeyType
  <1>3. "none" \in Text
    BY BoundAssumption
  <1>4. QED
    BY <1>1, <1>2, <1>3 DEF NewRow, Row

\* A blank row.
LEMMA NoRowType == NoRow \in Row
  <1>1. Plain(0) \in KeyValue
    BY KeyType
  <1>2. 0 \in 0 .. MaxId
    BY BoundAssumption
  <1>3. "none" \in Text
    BY BoundAssumption
  <1>4. QED
    BY <1>1, <1>2, <1>3 DEF NoRow, Row

\* Nothing read yet.
LEMMA NoImageType == NoImage \in Images /\ NoImage.rows \in [Id -> Row] /\ Present(NoImage.rows) = {}
  <1>1. [i \in Id |-> NoRow] \in [Id -> Row]
    BY NoRowType
  <1>2. [e \in Pair |-> "none"] \in [Pair -> {"none", "machine"} \cup ReviewedStates]
    OBVIOUS
  <1>3. [document |-> 0, tree |-> 0] \in [document : 0 .. MaxRuns, tree : 0 .. MaxRuns]
    BY BoundAssumption
  <1>4. \A i \in Id : NoImage.rows[i].status = "absent"
    BY DEF NoImage, NoRow
  <1>5. QED
    BY <1>1, <1>2, <1>3, <1>4 DEF NoImage, Images, Present

\* A step that adds and deletes no rows.
SameRows ==
    /\ Present(rows') = Present(rows)
    /\ \A j \in Id \ Present(rows) : rows'[j] = rows[j]

\* Writing a row by its _id.
LEMMA WrittenType ==
  ASSUME NEW i, NEW row, rows \in [Id -> Row],
         i \in Present(rows) => row \in Row /\ row.status # "absent"
  PROVE  /\ Written(i, row) \in [Id -> Row]
         /\ Present(Written(i, row)) = Present(rows)
         /\ \A j \in Id \ Present(rows) : Written(i, row)[j] = rows[j]
         /\ \A j \in Id : j # i => Written(i, row)[j] = rows[j]
         /\ i \in Present(rows) => Written(i, row)[i] = row
  BY DEF Written, Present

\* Fields of a row that are overwritten.
LEMMA RowKey ==
  ASSUME NEW row \in Row, NEW k \in KeyValue
  PROVE  /\ [row EXCEPT !.key = k] \in Row
         /\ [row EXCEPT !.key = k].status = row.status
         /\ [row EXCEPT !.key = k].key = k
  BY DEF Row

LEMMA RowPid ==
  ASSUME NEW row \in Row, NEW d \in 0 .. MaxId
  PROVE  /\ [row EXCEPT !.pid = d] \in Row
         /\ [row EXCEPT !.pid = d].status = row.status
         /\ [row EXCEPT !.pid = d].key = row.key
  BY DEF Row

\* Ids of parents.
LEMMA IdOfType ==
  ASSUME NEW k, \A l \in DOMAIN kid : kid[l] \in 0 .. MaxId
  PROVE  IdOf(k) \in 0 .. MaxId
  BY BoundAssumption DEF IdOf

-------------------------------------------------------------------------------
(* Types *)

\* The initial state has the types.
LEMMA TypeInit == Init => TypeOK
  <1> SUFFICES ASSUME Init PROVE TypeOK
    OBVIOUS
  <1> DEFINE Parent(p) == IF p.parent = 0 THEN 0 ELSE IdOfKey(First, p.parent)
             Made(i) == NewRow(First.nodes[i], i, Parent(First.nodes[i]))
  <1>1. /\ First.nodes \in Seq(Node) /\ Len(First.nodes) \in 0 .. MaxId
        /\ \A n \in DOMAIN First.nodes : First.nodes[n].parent \in Keys(First) \cup {0}
    <2>1. First \in Proposals \cup {First}
      OBVIOUS
    <2>2. First.nodes \in Seq(Node) /\ Len(First.nodes) <= MaxId
      BY <2>1, ProposalAssumption
    <2>3. \A n \in DOMAIN First.nodes : First.nodes[n].parent \in Keys(First) \cup {0}
      BY <2>1, ProposalAssumption
    <2>4. QED
      BY <2>2, <2>3, BoundAssumption
  <1>2. \A k \in Keys(First) : IdOfKey(First, k) \in DOMAIN First.nodes
    BY DEF Keys, IdOfKey
  <1>3. ASSUME NEW i \in DOMAIN First.nodes PROVE Made(i) \in Row /\ Made(i).status = "active"
    <2>1. First.nodes[i] \in Node /\ i \in Nat
      BY <1>1
    <2>2. Parent(First.nodes[i]) \in 0 .. MaxId
      BY <1>1, <1>2, BoundAssumption
    <2> HIDE DEF Parent
    <2>3. Made(i) \in Row
      BY <2>1, <2>2, NewRowType
    <2>4. QED
      BY <2>3 DEF NewRow
  <1>4. rows = [i \in Id |-> IF i \in DOMAIN First.nodes THEN Made(i) ELSE NoRow]
    BY DEF Init
  <1>5. used = Len(First.nodes)
    BY DEF Init
  <1> HIDE DEF Made, Parent
  <1>6. rows \in [Id -> Row]
    BY <1>3, <1>4, NoRowType
  <1>7. Present(rows) \subseteq 1 .. used
    BY <1>1, <1>4, <1>5 DEF Present, NoRow
  <1>8. edge \in [Pair -> {"none", "machine"} \cup ReviewedStates]
    BY DEF Init
  <1>9. Image \in Images /\ NoImage \in Images
    <2>1. stamp \in [document : 0 .. MaxRuns, tree : 0 .. MaxRuns]
      BY BoundAssumption DEF Init
    <2>2. QED
      BY <1>6, <1>8, <2>1, NoImageType DEF Images
  <1>10. /\ prev \in Images /\ before \in Images /\ snap \in [Id -> Row]
         /\ Present(prev.rows) \subseteq 1 .. used
    BY NoImageType DEF Init
  <1>11. used \in 0 .. MaxId /\ run \in 0 .. MaxRuns /\ acts \in 0 .. MaxActs
    BY <1>1, <1>5, BoundAssumption DEF Init
  <1>12. /\ prop \in Proposals \cup {NoParse} /\ pc = "idle"
         /\ \A k \in DOMAIN kid : kid[k] \in 0 .. MaxId
    BY DEF Init
  <1>13. quiet \in BOOLEAN
    BY DEF Init
  <1>14. /\ pc \in Applying \cup RestoreStep \cup {"idle", "read", "previous", "done", "restored"}
         /\ pc \notin Applying \cup {"previous"}
    BY <1>12 DEF Applying, RestoreStep
  <1>15. QED
    BY <1>7, <1>9, <1>10, <1>11, <1>12, <1>13, <1>14 DEF TypeOK

\* The types of the single variables.
LEMMA TypeFacts ==
  ASSUME TypeOK
  PROVE  /\ rows \in [Id -> Row]
         /\ edge \in [Pair -> {"none", "machine"} \cup ReviewedStates]
         /\ stamp \in [document : 0 .. MaxRuns, tree : 0 .. MaxRuns]
         /\ prev.rows \in [Id -> Row]
         /\ prev.edge \in [Pair -> {"none", "machine"} \cup ReviewedStates]
         /\ prev.stamp \in [document : 0 .. MaxRuns, tree : 0 .. MaxRuns]
  BY DEF TypeOK, Images

\* A step of a rebuild that writes rows and goes on in the same loop, or to the next.
LEMMA TypeRows ==
  ASSUME TypeOK, rows' \in [Id -> Row], Present(rows') \subseteq 1 .. used',
         used' \in 0 .. MaxId, used <= used',
         \A k \in DOMAIN kid' : kid'[k] \in 0 .. MaxId, pc' = pc,
         UNCHANGED <<edge, stamp, run, prop, snap, match, prev, acts, quiet, before>>
  PROVE  TypeOK'
  <1>1. Image' \in Images
    BY TypeFacts DEF Images
  <1>2. Present(prev.rows) \subseteq 1 .. used'
    <2>1. Present(prev.rows) \subseteq 1 .. used /\ used \in 0 .. MaxId
      BY DEF TypeOK
    <2>2. QED
      BY <2>1
  <1>3. QED
    BY <1>1, <1>2 DEF TypeOK

\* A step that changes one row by its _id.
LEMMA TypeWritten ==
  ASSUME TypeOK, NEW i, NEW row, i \in Present(rows) => row \in Row /\ row.status # "absent",
         rows' = Written(i, row), used' = used, pc' = pc,
         \A k \in DOMAIN kid' : kid'[k] \in 0 .. MaxId,
         UNCHANGED <<edge, stamp, run, prop, snap, match, prev, acts, quiet, before>>
  PROVE  TypeOK' /\ SameRows
  <1>1. rows' \in [Id -> Row] /\ Present(rows') = Present(rows)
    BY TypeFacts, WrittenType
  <1>2. used \in 0 .. MaxId /\ used <= used /\ Present(rows) \subseteq 1 .. used
    BY BoundAssumption DEF TypeOK
  <1>3. QED
    BY <1>1, <1>2, WrittenType, TypeFacts, TypeRows DEF SameRows

\* Reading keeps the types.
LEMMA TypeReading ==
  ASSUME TypeOK, (\E P \in Proposals : Begin(P)) \/ ReadExisting \/ ReadPrevious
  PROVE  TypeOK'
  <1> USE TypeFacts DEF TypeOK, Applying, RestoreStep
  <1>1. ASSUME NEW P \in Proposals, Begin(P) PROVE TypeOK'
    <2>1. run + 1 \in 0 .. MaxRuns
      BY <1>1, BoundAssumption DEF Begin
    <2>2. Image' \in Images /\ before' \in Images
      BY <1>1 DEF Begin
    <2>3. QED
      BY <1>1, <2>1, <2>2 DEF Begin
  <1>2. CASE ReadExisting
    <2>1. match' \in [DOMAIN prop.nodes -> 0 .. MaxId]
      BY <1>2, MatchingType DEF ReadExisting
    <2>2. Image' \in Images
      BY <1>2 DEF ReadExisting
    <2>3. QED
      BY <1>2, <2>1, <2>2 DEF ReadExisting
  <1>3. CASE ReadPrevious
    <2>1. prev' = Image
      BY <1>3 DEF ReadPrevious, PreviousRows
    <2>2. Image' \in Images /\ prev' \in Images /\ prev'.rows = rows
      BY <1>3, <2>1 DEF ReadPrevious
    <2>3. QED
      BY <1>3, <2>2 DEF ReadPrevious
  <1>4. QED
    BY <1>1, <1>2, <1>3

\* A step that writes the epochs, or edges, or only goes on.
LEMMA TypeOthers ==
  ASSUME TypeOK,
         stamp' \in [document : 0 .. MaxRuns, tree : 0 .. MaxRuns],
         edge' \in [Pair -> {"none", "machine"} \cup ReviewedStates],
         acts' \in 0 .. MaxActs,
         UNCHANGED <<rows, used, run, locals, quiet, before>>,
         \/ pc' = pc
         \/ pc \in Applying /\ pc' \in Applying \cup RestoreStep \cup {"done"}
         \/ pc' \in RestoreStep \cup {"restored"}
  PROVE  TypeOK'
  <1>1. Image' \in Images
    BY TypeFacts DEF Images
  <1>2. QED
    BY <1>1 DEF TypeOK, Applying, RestoreStep

\* The steps that write a row by its _id keep the types.
LEMMA TypeWrites ==
  ASSUME TypeOK,
         \/ \E i \in Id : Park(i) \/ Supersede(i) \/ Link(i) \/ ParkForRestore(i)
         \/ \E n \in DOMAIN prop.nodes : KeepNode(n) \/ UpdateNode(n)
  PROVE  TypeOK' /\ SameRows
  <1> USE TypeFacts
  <1>1. ASSUME NEW i \in Id, Park(i) PROVE TypeOK' /\ SameRows
    <2> DEFINE row == [rows[i] EXCEPT !.key = IF i \in Matched THEN Rekeying(i) ELSE Superseded(i)]
    <2>1. row \in Row /\ row.status = rows[i].status
      <3>1. /\ rows[i] \in Row
            /\ (IF i \in Matched THEN Rekeying(i) ELSE Superseded(i)) \in KeyValue
        BY KeyType DEF Id
      <3>2. QED
        BY <3>1, RowKey
    <2>2. rows' = Written(i, row) /\ UNCHANGED <<used, pc, kid>>
      BY <1>1 DEF Park
    <2>3. i \in Present(rows) => row \in Row /\ row.status # "absent"
      BY <2>1 DEF Present
    <2> HIDE DEF row
    <2>4. QED
      BY <1>1, <2>2, <2>3, TypeWritten DEF Park, TypeOK
  <1>2. ASSUME NEW i \in Id, Supersede(i) PROVE TypeOK' /\ SameRows
    <2> DEFINE row == [rows[i] EXCEPT !.status = "superseded"]
    <2>1. row \in Row /\ row.status # "absent"
      BY DEF Row
    <2>2. rows' = Written(i, row) /\ UNCHANGED <<used, pc, kid>>
      BY <1>2 DEF Supersede
    <2> HIDE DEF row
    <2>3. QED
      BY <1>2, <2>1, <2>2, TypeWritten DEF Supersede, TypeOK
  <1>3. ASSUME NEW i \in Id, Link(i) PROVE TypeOK' /\ SameRows
    <2> DEFINE row == [rows[i] EXCEPT !.pid = IdOf(rows[i].parent)]
    <2>1. row \in Row /\ row.status = rows[i].status
      <3>1. rows[i] \in Row /\ IdOf(rows[i].parent) \in 0 .. MaxId
        BY IdOfType DEF TypeOK
      <3>2. QED
        BY <3>1, RowPid
    <2>2. rows' = Written(i, row) /\ UNCHANGED <<used, pc, kid>>
      BY <1>3 DEF Link
    <2>3. i \in Present(rows) => row \in Row /\ row.status # "absent"
      BY <2>1 DEF Present
    <2> HIDE DEF row
    <2>4. QED
      BY <1>3, <2>2, <2>3, TypeWritten DEF Link, TypeOK
  <1>4. ASSUME NEW i \in Id, ParkForRestore(i) PROVE TypeOK' /\ SameRows
    <2> DEFINE row == [rows[i] EXCEPT !.key = Restoring(i)]
    <2>1. row \in Row /\ row.status = rows[i].status
      <3>1. rows[i] \in Row /\ Restoring(i) \in KeyValue
        BY KeyType DEF Id
      <3>2. QED
        BY <3>1, RowKey
    <2>2. rows' = Written(i, row) /\ UNCHANGED <<used, pc, kid>>
      BY <1>4 DEF ParkForRestore
    <2>3. i \in Present(rows) => row \in Row /\ row.status # "absent"
      BY <2>1 DEF Present
    <2> HIDE DEF row
    <2>4. QED
      BY <1>4, <2>2, <2>3, TypeWritten DEF ParkForRestore, TypeOK
  <1>5. ASSUME NEW n \in DOMAIN prop.nodes, KeepNode(n) PROVE TypeOK' /\ SameRows
    <2> DEFINE i == match[n]
               row == [rows[i] EXCEPT !.order = n, !.pid = IdOf(prop.nodes[n].parent)]
    <2>1. i \in 0 .. MaxId /\ \A k \in DOMAIN kid' : kid'[k] \in 0 .. MaxId
      BY <1>5 DEF KeepNode, Placed, TypeOK, Applying
    <2>2. IdOf(prop.nodes[n].parent) \in 0 .. MaxId /\ n \in Nat
      BY IdOfType, ParseType DEF TypeOK
    <2>3. i \in Present(rows) => row \in Row /\ row.status # "absent"
      <3>1. i \in Present(rows) => rows[i] \in Row /\ rows[i].status # "absent"
        BY DEF Present
      <3>2. ASSUME NEW q \in Row
            PROVE  LET w == [q EXCEPT !.order = n, !.pid = IdOf(prop.nodes[n].parent)]
                   IN w \in Row /\ w.status = q.status
        BY <2>2 DEF Row
      <3>3. QED
        BY <3>1, <3>2
    <2>4. rows' = Written(i, row) /\ UNCHANGED <<used, pc>>
      BY <1>5 DEF KeepNode, Placed
    <2> HIDE DEF row, i
    <2>5. QED
      BY <1>5, <2>1, <2>3, <2>4, TypeWritten DEF KeepNode, Placed
  <1>6. ASSUME NEW n \in DOMAIN prop.nodes, UpdateNode(n) PROVE TypeOK' /\ SameRows
    <2> DEFINE i == match[n]
               laid == Relaid(rows[i], n)
               row == IF i \in ContentChanged THEN Rewritten(laid, prop.nodes[n].text, snap[i]) ELSE laid
    <2>1. i \in 0 .. MaxId /\ \A k \in DOMAIN kid' : kid'[k] \in 0 .. MaxId
      BY <1>6 DEF UpdateNode, Placed, TypeOK, Applying
    <2>2. IdOf(prop.nodes[n].parent) \in 0 .. MaxId /\ n \in Nat /\ prop.nodes[n] \in Node
      BY IdOfType, ParseType DEF TypeOK
    <2>3. ASSUME i \in Present(rows) PROVE laid \in Row /\ laid.status = rows[i].status
      <3>1. Plain(prop.nodes[n].key) \in KeyValue
        BY <2>2, KeyType DEF Node
      <3>2. rows[i] \in Row /\ prop.nodes[n].parent \in Nat /\ prop.nodes[n].title \in Text
        BY <2>2, <2>3 DEF Node, Present
      <3>3. ASSUME NEW q \in Row
            PROVE  Relaid(q, n) \in Row /\ Relaid(q, n).status = q.status
        BY <2>2, <3>1, <3>2 DEF Relaid, Row
      <3>4. QED
        BY <3>2, <3>3
    <2>4. ASSUME NEW r \in Row
          PROVE  LET w == Rewritten(r, prop.nodes[n].text, snap[i])
                 IN w \in Row /\ w.status = r.status
      BY <2>2, BoundAssumption DEF Rewritten, Row, Node
    <2> HIDE DEF laid
    <2>5. i \in Present(rows) => row \in Row /\ row.status # "absent"
      BY <2>3, <2>4 DEF Present
    <2>6. rows' = Written(i, row) /\ UNCHANGED <<used, pc>>
      BY <1>6 DEF UpdateNode, Placed, laid
    <2> HIDE DEF row, i
    <2>7. UNCHANGED <<edge, stamp, run, prop, snap, match, prev, acts, quiet, before>>
      BY <1>6 DEF UpdateNode, Placed
    <2>8. QED
      BY <2>1, <2>5, <2>6, <2>7, TypeWritten
  <1>7. QED
    BY <1>1, <1>2, <1>3, <1>4, <1>5, <1>6

\* Inserting, deleting and replacing rows keeps the types.
LEMMA TypeRowsInOut ==
  ASSUME TypeOK,
         \/ \E n \in DOMAIN prop.nodes : AddNode(n)
         \/ \E i \in Id : DeleteRow(i) \/ ReplaceRow(i),
         At("rreplace") => todo \subseteq Present(prev.rows)
  PROVE  TypeOK'
  <1> USE TypeFacts
  <1>1. ASSUME NEW n \in DOMAIN prop.nodes, AddNode(n) PROVE TypeOK'
    <2> DEFINE row == NewRow(prop.nodes[n], n, IdOf(prop.nodes[n].parent))
    <2>1. used \in 0 .. MaxId /\ used < MaxId /\ used' = used + 1
      BY <1>1 DEF AddNode, TypeOK
    <2>2. row \in Row
      BY IdOfType, ParseType, NewRowType DEF TypeOK
    <2>3. rows' = [rows EXCEPT ![used + 1] = row]
      BY <1>1 DEF AddNode
    <2> HIDE DEF row
    <2>4. rows' \in [Id -> Row] /\ Present(rows) \subseteq 1 .. used
      BY <2>2, <2>3 DEF TypeOK
    <2>5. Present(rows') \subseteq 1 .. used'
      BY <2>1, <2>3, <2>4, BoundAssumption DEF Present, Id
    <2>6. used' \in 0 .. MaxId /\ used <= used'
      BY <2>1, BoundAssumption
    <2>7. \A k \in DOMAIN kid' : kid'[k] \in 0 .. MaxId
      BY <1>1, <2>1, <2>6 DEF AddNode, Placed, TypeOK
    <2>8. pc' = pc /\ UNCHANGED <<edge, stamp, run, prop, snap, match, prev, acts, quiet, before>>
      BY <1>1 DEF AddNode, Placed
    <2>9. QED
      BY <2>4, <2>5, <2>6, <2>7, <2>8, TypeRows
  <1>2. ASSUME NEW i \in Id, DeleteRow(i) PROVE TypeOK'
    <2>1. rows' \in [Id -> Row]
      BY <1>2, NoRowType DEF DeleteRow
    <2>2. Present(rows') \subseteq 1 .. used' /\ used' \in 0 .. MaxId /\ used <= used'
      BY <1>2, BoundAssumption DEF DeleteRow, Present, NoRow, TypeOK
    <2>3. QED
      BY <1>2, <2>1, <2>2, TypeRows DEF DeleteRow, TypeOK
  <1>3. ASSUME NEW i \in Id, ReplaceRow(i) PROVE TypeOK'
    <2>1. rows' \in [Id -> Row]
      BY <1>3 DEF ReplaceRow
    <2>2. Present(rows') \subseteq 1 .. used' /\ used' \in 0 .. MaxId /\ used <= used'
      BY <1>3, BoundAssumption DEF ReplaceRow, Present, TypeOK
    <2>3. QED
      BY <1>3, <2>1, <2>2, TypeRows DEF ReplaceRow, TypeOK
  <1>4. QED
    BY <1>1, <1>2, <1>3

\* Epochs, edges and the ends of loops keep the types.
LEMMA TypeRest ==
  ASSUME TypeOK,
         \/ WriteDocument \/ WriteTree \/ DropEdges \/ InsertEdges \/ InsertEdgesRaises
         \/ \E e \in Pair : FlagEdge(e)
         \/ RestoreDocument \/ RestoreTree \/ RestoreEdges \/ EndLoop \/ Fail
  PROVE  TypeOK'
  <1> USE TypeFacts
  <1>1. ASSUME NEW f \in {"document", "tree"}, NEW next \in {"tree", "park"}, NEW S,
               WriteStamp(f, f, next, S)
        PROVE  TypeOK'
    <2>1. run \in 0 .. MaxRuns
      BY DEF TypeOK
    <2>2. stamp' \in [document : 0 .. MaxRuns, tree : 0 .. MaxRuns]
      BY <1>1, <2>1 DEF WriteStamp
    <2>3. QED
      BY <1>1, <2>2, TypeOthers DEF WriteStamp, Applying, TypeOK
  <1>2. CASE WriteDocument \/ WriteTree
    BY <1>1, <1>2 DEF WriteDocument, WriteTree
  <1>3. CASE DropEdges \/ InsertEdges \/ InsertEdgesRaises
    <2>1. edge' \in [Pair -> {"none", "machine"} \cup ReviewedStates]
      BY <1>3 DEF DropEdges, InsertEdges, InsertEdgesRaises
    <2>2. QED
      BY <1>3, <2>1, TypeOthers DEF DropEdges, InsertEdges, InsertEdgesRaises, Applying,
         RestoreStep, TypeOK
  <1>4. ASSUME NEW e \in Pair, FlagEdge(e) PROVE TypeOK'
    <2>1. edge' \in [Pair -> {"none", "machine"} \cup ReviewedStates]
      BY <1>4 DEF FlagEdge, Flagged, ReviewedStates
    <2>2. QED
      BY <1>4, <2>1, TypeOthers DEF FlagEdge, TypeOK
  <1>5. CASE RestoreDocument
    BY <1>5, TypeOthers DEF RestoreDocument, RestoreStep, TypeOK
  <1>6. CASE RestoreTree
    BY <1>6, TypeOthers DEF RestoreTree, RestoreStep, TypeOK
  <1>7. CASE RestoreEdges
    BY <1>7, TypeOthers DEF RestoreEdges, RestoreStep, TypeOK
  <1>8. CASE EndLoop
    <2>1. \/ pc \in Applying /\ pc' \in Applying \cup RestoreStep \cup {"done"}
          \/ pc' \in RestoreStep \cup {"restored"}
      BY <1>8 DEF EndLoop, Loop, Applying, RestoreStep
    <2>2. QED
      BY <1>8, <2>1, TypeOthers DEF EndLoop, TypeOK
  <1>9. CASE Fail
    BY <1>9, TypeOthers DEF Fail, RestoreStep, TypeOK
  <1>10. QED
    BY <1>2, <1>3, <1>4, <1>5, <1>6, <1>7, <1>8, <1>9

\* Operators overwrite fields of a row that is there.
LEMMA OperatorRow ==
  ASSUME TypeOK, NEW i \in Id, Endorse(i) \/ Summarise(i)
  PROVE  \E row \in Row :
             /\ rows' = [rows EXCEPT ![i] = row] /\ i \in Present(rows)
             /\ row.status = rows[i].status /\ row.key = rows[i].key
  <1>1. rows[i] \in Row
    BY TypeFacts
  <1>2. ASSUME NEW q \in Row
        PROVE  /\ [q EXCEPT !.mark = q.text] \in Row
               /\ [q EXCEPT !.mark = q.text].status = q.status
               /\ [q EXCEPT !.mark = q.text].key = q.key
               /\ [q EXCEPT !.sum = "operator", !.prov = "operator"] \in Row
               /\ [q EXCEPT !.sum = "operator", !.prov = "operator"].status = q.status
               /\ [q EXCEPT !.sum = "operator", !.prov = "operator"].key = q.key
    BY DEF Row
  <1>3. CASE Endorse(i)
    <2>1. /\ rows' = [rows EXCEPT ![i] = [rows[i] EXCEPT !.mark = rows[i].text]]
          /\ i \in Present(rows)
      BY <1>3 DEF Endorse
    <2>2. QED
      BY <1>1, <1>2, <2>1
  <1>4. CASE Summarise(i)
    <2>1. /\ rows' = [rows EXCEPT ![i] = [rows[i] EXCEPT !.sum = "operator", !.prov = "operator"]]
          /\ i \in Present(rows)
      BY <1>4 DEF Summarise
    <2>2. QED
      BY <1>1, <1>2, <2>1
  <1>5. QED
    BY <1>3, <1>4

\* A rebuild that is over, and operators, keep the types.
LEMMA TypeOver ==
  ASSUME TypeOK, Return \/ Crash \/ OperatorNext \/ UNCHANGED vars
  PROVE  TypeOK'
  <1> USE TypeFacts
  <1>1. CASE Return \/ Crash
    <2>1. Image' \in Images /\ Present(prev'.rows) \subseteq 1 .. used'
      BY <1>1, NoImageType DEF Return, Crash, Forget, TypeOK
    <2>2. prev' \in Images /\ before' \in Images /\ snap' \in [Id -> Row]
      BY <1>1, NoImageType DEF Return, Crash, Forget
    <2>3. pc' = "idle" /\ prop' = NoParse /\ DOMAIN kid' = {}
      BY <1>1 DEF Return, Crash, Forget
    <2>4. QED
      BY <1>1, <2>1, <2>2, <2>3 DEF TypeOK, Return, Crash, Applying
  <1>2. ASSUME NEW i \in Id, Endorse(i) \/ Summarise(i) PROVE TypeOK'
    <2>1. acts' \in 0 .. MaxActs
      BY <1>2, BoundAssumption DEF Endorse, Summarise, Operate, TypeOK
    <2>2. rows' \in [Id -> Row] /\ Present(rows') = Present(rows)
      BY <1>2, OperatorRow, TypeFacts DEF Present
    <2>3. Image' \in Images
      BY <1>2, <2>2 DEF Endorse, Summarise, Operate, Images
    <2>4. QED
      BY <1>2, <2>1, <2>2, <2>3 DEF TypeOK, Endorse, Summarise, Operate
  <1>3. ASSUME NEW i \in Id, NEW j \in Id, AddReviewedEdge(i, j) PROVE TypeOK'
    <2>1. acts' \in 0 .. MaxActs
      BY <1>3, BoundAssumption DEF AddReviewedEdge, Operate, TypeOK
    <2>2. edge' \in [Pair -> {"none", "machine"} \cup ReviewedStates]
      BY <1>3 DEF AddReviewedEdge, ReviewedStates
    <2>3. QED
      BY <1>3, <2>1, <2>2, TypeOthers DEF AddReviewedEdge, Operate
  <1>4. CASE UNCHANGED vars
    BY <1>4, TypeOthers DEF vars, TypeOK
  <1>5. QED
    BY <1>1, <1>2, <1>3, <1>4 DEF OperatorNext

\* Each step keeps the types.
LEMMA TypeStep ==
  TypeOK /\ (At("rreplace") => todo \subseteq Present(prev.rows)) /\ [Next]_vars => TypeOK'
  BY TypeReading, TypeWrites, TypeRowsInOut, TypeRest, TypeOver
  DEF Next, RebuildNext

-------------------------------------------------------------------------------
(* Keys *)

\* A row's own temporary keys.
LEMMA OwnKeys ==
  ASSUME NEW i \in Id
  PROVE  /\ OwnKey(i, Rekeying(i)) /\ OwnKey(i, Superseded(i)) /\ OwnKey(i, Restoring(i))
         /\ \A k : OwnKey(i, Plain(k))
         /\ \A k : Plain(k) \notin {Rekeying(i), Superseded(i), Restoring(i)}
         /\ \A j \in Id : OwnKey(j, Rekeying(i)) \/ OwnKey(j, Superseded(i)) \/ OwnKey(j, Restoring(i))
              => i = j
  BY DEF OwnKey, Rekeying, Superseded, Restoring, Plain

LEMMA PlainKeys == \A k, l : Plain(k) = Plain(l) => k = l
  BY DEF Plain

\* Rows keep their keys when a step leaves key and presence of each alone.
LEMMA KeysSame ==
  ASSUME NEW rs, NEW qs, KeysFit(rs), Present(qs) \subseteq Present(rs),
         \A i \in Id : qs[i].key = rs[i].key
  PROVE  KeysFit(qs)
  BY DEF KeysFit, Present

\* Steps at which KeyInv asks only that the keys fit.
LEMMA KeyCalm ==
  ASSUME KeysFit(rows'), KeysFit(prev'.rows),
         pc' \in {"idle", "read", "done", "restored", "remove", "link", "drop", "insert",
                  "flag", "rdocument", "rtree", "redges"}
  PROVE  KeyInv'
  BY DEF KeyInv

\* Rows that keep their keys are rows.
LEMMA KeepsAreIds ==
  ASSUME TypeOK, pc \in Applying
  PROVE  Keeps \subseteq Id /\ Matched \subseteq Id
  BY BoundAssumption DEF TypeOK, Keeps, Matched, Id

\* Where the rows keep their keys and nothing goes on, KeyInv stays.
LEMMA KeyStutter ==
  ASSUME TypeOK, KeyInv, Present(rows') = Present(rows), \A i \in Id : rows'[i].key = rows[i].key,
         UNCHANGED <<pc, todo, locals>>
  PROVE  KeyInv'
  <1>1. KeysFit(rows')
    BY KeysSame DEF KeyInv
  <1>2. Keeps' = Keeps /\ Keys(prop)' = Keys(prop)
    BY DEF Keeps, Keys
  <1>3. \A k : IdOf(k)' = IdOf(k)
    BY DEF IdOf
  <1>4. Present(rows) \subseteq Id
    BY DEF Present
  <1>5. At("park") => Keeps \subseteq Id
    BY KeepsAreIds DEF Applying
  <1>6. /\ pc' \in Applying \cup RestoreStep => KeysFit(prev'.rows)
        /\ pc' \in {"previous", "document", "tree"} => \A i \in Id : rows'[i].key = snap'[i].key
        /\ At("rdelete")' => Present(rows') \ Present(prev'.rows) \subseteq todo'
    BY DEF KeyInv
  <1>7. At("park")' =>
          /\ todo' \cap Keeps' = {}
          /\ \A i \in Keeps' : rows'[i].key = snap'[i].key
          /\ \A i \in Present(rows'), k \in Keys(prop)' :
                rows'[i].key = Plain(k) => i \in todo' \cup Keeps'
    BY <1>2, <1>4, <1>5 DEF KeyInv
  <1>8. At("write")' =>
          \A i \in Present(rows'), n \in DOMAIN prop'.nodes :
              rows'[i].key = Plain(prop'.nodes[n].key) =>
                  i = IF n \in todo' THEN match'[n] ELSE IdOf(prop.nodes[n].key)'
    BY <1>3, <1>4 DEF KeyInv
  <1>9. pc' \in {"rpark", "rreplace"} =>
          \A i \in Present(rows') :
              /\ i \in Present(prev'.rows)
              /\ \/ rows'[i].key \in {prev'.rows[i].key, Restoring(i)}
                 \/ At("rpark")' /\ i \in todo'
    BY <1>4 DEF KeyInv
  <1>10. QED
    BY <1>1, <1>6, <1>7, <1>8, <1>9 DEF KeyInv

\* Reading and the epochs: what holds the keys that the parse needs is parked next.
LEMMA KeyReading ==
  ASSUME TypeOK, KeyInv,
         \/ \E P \in Proposals : Begin(P)
         \/ ReadExisting \/ ReadPrevious \/ WriteDocument \/ WriteTree
  PROVE  KeyInv'
  <1>1. ASSUME NEW P \in Proposals, Begin(P) PROVE KeyInv'
    BY <1>1 DEF Begin, KeyInv, Applying, RestoreStep
  <1>2. CASE ReadExisting
    BY <1>2 DEF ReadExisting, KeyInv, Applying, RestoreStep
  <1>3. CASE ReadPrevious
    <2>1. prev'.rows = rows /\ pc = "previous" /\ pc' = "document" /\ UNCHANGED <<rows, snap>>
      BY <1>3 DEF ReadPrevious, PreviousRows
    <2>2. KeysFit(prev'.rows) /\ KeysFit(rows')
      BY <2>1 DEF KeyInv
    <2>3. QED
      BY <2>1, <2>2 DEF KeyInv
  <1>4. CASE WriteDocument
    BY <1>4 DEF WriteDocument, WriteStamp, KeyInv, Applying, RestoreStep
  <1>5. CASE WriteTree
    <2>1. /\ pc = "tree" /\ pc' = "park" /\ todo' = ToPark
          /\ UNCHANGED <<rows, prop, snap, match, prev, kid>>
      BY <1>5 DEF WriteTree, WriteStamp
    <2>2. Keeps' = Keeps /\ Keys(prop)' = Keys(prop) /\ Keeps \subseteq Id
      BY <2>1, KeepsAreIds DEF Keeps, Keys, Applying
    <2>3. ToPark \cap Keeps = {}
      BY DEF ToPark
    <2>4. \A i \in Keeps : rows[i].key = snap[i].key
      BY <2>1, <2>2 DEF KeyInv
    <2>5. \A i \in Present(rows), k \in Keys(prop) : rows[i].key = Plain(k) => i \in ToPark \cup Keeps
      BY DEF ToPark
    <2>6. KeysFit(rows') /\ KeysFit(prev'.rows)
      BY <2>1 DEF KeyInv, Applying
    <2>7. QED
      BY <2>1, <2>2, <2>3, <2>4, <2>5, <2>6 DEF KeyInv
  <1>6. QED
    BY <1>1, <1>2, <1>3, <1>4, <1>5

\* A row that gets a temporary key of its own leaves the keys unique.
LEMMA KeysFitParked ==
  ASSUME NEW rs, NEW qs, KeysFit(rs), NEW i \in Id, Present(qs) = Present(rs),
         \A j \in Id : j # i => qs[j].key = rs[j].key,
         i \in Present(rs) => qs[i].key \in {Rekeying(i), Superseded(i), Restoring(i)}
  PROVE  KeysFit(qs)
  <1>1. Present(rs) \subseteq Id
    BY DEF Present
  <1>2. \A j \in Present(qs) : OwnKey(j, qs[j].key)
    BY <1>1, OwnKeys DEF KeysFit
  <1>3. ASSUME NEW j \in Present(qs), NEW k \in Present(qs), qs[j].key = qs[k].key PROVE j = k
    <2>1. CASE j = i /\ k # i
      BY <1>1, <1>2, <1>3, <2>1, OwnKeys
    <2>2. CASE j # i /\ k = i
      BY <1>1, <1>2, <1>3, <2>2, OwnKeys
    <2>3. CASE j # i /\ k # i
      BY <1>1, <1>3, <2>3 DEF KeysFit
    <2>4. QED
      BY <2>1, <2>2, <2>3
  <1>4. QED
    BY <1>2, <1>3 DEF KeysFit

\* free_node_keys_for_layout: what is left to be parked gets less.
LEMMA KeyPark ==
  ASSUME TypeOK, KeyInv, NEW i \in Id, Park(i)
  PROVE  KeyInv'
  <1> DEFINE row == [rows[i] EXCEPT !.key = IF i \in Matched THEN Rekeying(i) ELSE Superseded(i)]
  <1>1. /\ pc = "park" /\ pc' = "park" /\ i \in todo /\ todo' = todo \ {i}
        /\ rows' = Written(i, row) /\ UNCHANGED <<prop, snap, match, prev, kid>>
    BY Zenon DEF Park
  <1>2. /\ row \in Row /\ row.status = rows[i].status
        /\ row.key \in {Rekeying(i), Superseded(i)}
    <2>1. rows[i] \in Row /\ (IF i \in Matched THEN Rekeying(i) ELSE Superseded(i)) \in KeyValue
      BY TypeFacts, KeyType DEF Id
    <2>2. QED
      BY <2>1, RowKey
  <1> HIDE DEF row
  <1>3. /\ Present(rows') = Present(rows) /\ Present(rows) \subseteq Id
        /\ \A j \in Id : j # i => rows'[j].key = rows[j].key
        /\ i \in Present(rows) => rows'[i].key \in {Rekeying(i), Superseded(i)}
    <2>1. i \in Present(rows) => row \in Row /\ row.status # "absent"
      BY <1>2 DEF Present
    <2>2. QED
      BY <1>1, <1>2, <2>1, WrittenType, TypeFacts DEF Present
  <1>4. KeysFit(rows') /\ KeysFit(prev'.rows)
    BY <1>1, <1>3, KeysFitParked DEF KeyInv, Applying
  <1>5. Keeps' = Keeps /\ Keys(prop)' = Keys(prop) /\ Keeps \subseteq Id
    BY <1>1, KeepsAreIds DEF Keeps, Keys, Applying
  <1>6. todo' \cap Keeps = {} /\ \A j \in Keeps : rows'[j].key = snap[j].key
    BY <1>1, <1>3, <1>5 DEF KeyInv
  <1>7. ASSUME NEW j \in Present(rows'), NEW k \in Keys(prop), rows'[j].key = Plain(k)
        PROVE  j \in todo' \cup Keeps
    <2>1. j # i
      BY <1>3, <1>7, OwnKeys
    <2>2. QED
      BY <1>1, <1>3, <1>7, <2>1 DEF KeyInv
  <1>8. QED
    BY <1>1, <1>4, <1>5, <1>6, <1>7 DEF KeyInv

\* key_to_id after a node is placed.
LEMMA IdOfPlaced ==
  ASSUME NEW n, NEW i, Placed(n, i)
  PROVE  /\ IdOf(prop.nodes[n].key)' = i
         /\ \A k : k # prop.nodes[n].key => IdOf(k)' = IdOf(k)
  BY DEF Placed, IdOf

\* The row of a proposed node gets or keeps its key: the only one that could have
\* held it is that row.
LEMMA KeyWritten ==
  ASSUME TypeOK, KeyInv, NEW n \in DOMAIN prop.nodes, NEW i \in 0 .. MaxId,
         InTurn("write", n), Placed(n, i),
         Present(rows') \subseteq Present(rows) \cup {i},
         \A j \in Id : j # i => rows'[j].key = rows[j].key,
         i \in Present(rows') =>
             \/ rows'[i].key = Plain(prop.nodes[n].key)
             \/ i \in Present(rows) /\ rows'[i].key = rows[i].key,
         match[n] \in {0, i}
  PROVE  KeyInv'
  <1> DEFINE key == prop.nodes[n].key
  <1>1. /\ pc = "write" /\ pc' = "write" /\ n \in todo /\ todo' = todo \ {n}
        /\ UNCHANGED <<prop, snap, match, prev>>
    BY DEF Placed
  <1>2. Present(rows') \subseteq Id /\ Present(rows) \subseteq Id
    BY DEF Present
  <1>3. ASSUME NEW j \in Present(rows'), j # i
        PROVE  /\ j \in Present(rows) /\ rows'[j].key = rows[j].key
               /\ rows[j].key # Plain(key)
    <2>1. j \in Present(rows) /\ rows'[j].key = rows[j].key
      BY <1>2, <1>3
    <2>2. rows[j].key = Plain(key) => j = match[n]
      BY <1>1, <2>1 DEF KeyInv
    <2>3. j # 0
      BY <1>2, BoundAssumption DEF Id
    <2>4. QED
      BY <1>3, <2>1, <2>2, <2>3
  <1>4. KeysFit(rows')
    <2>1. \A j \in Present(rows') : OwnKey(j, rows'[j].key)
      BY <1>2, <1>3, OwnKeys DEF KeyInv, KeysFit
    <2>2. \A j, k \in Present(rows') : rows'[j].key = rows'[k].key => j = k
      BY <1>3 DEF KeyInv, KeysFit
    <2>3. QED
      BY <2>1, <2>2 DEF KeysFit
  <1>5. KeysFit(prev'.rows)
    BY <1>1 DEF KeyInv, Applying
  <1>6. ASSUME NEW j \in Present(rows'), NEW m \in DOMAIN prop.nodes,
               rows'[j].key = Plain(prop.nodes[m].key)
        PROVE  j = IF m \in todo' THEN match[m] ELSE IdOf(prop.nodes[m].key)'
    <2>1. CASE m = n
      <3>1. j = i
        BY <1>3, <1>6, <2>1
      <3>2. QED
        BY <1>1, <2>1, <3>1, IdOfPlaced
    <2>2. CASE m # n
      <3>1. prop.nodes[m].key # key
        BY <2>2, ParseType DEF TypeOK
      <3>2. j \in Present(rows) /\ rows'[j].key = rows[j].key
        BY <1>3, <1>6, <3>1, PlainKeys
      <3>3. j = IF m \in todo THEN match[m] ELSE IdOf(prop.nodes[m].key)
        <4>1. rows[j].key = Plain(prop.nodes[m].key)
          BY <1>6, <3>2
        <4>2. QED
          BY <1>1, <3>2, <4>1 DEF KeyInv
      <3>4. IdOf(prop.nodes[m].key)' = IdOf(prop.nodes[m].key)
        BY <3>1, <1>1, IdOfPlaced
      <3>5. QED
        BY <1>1, <2>2, <3>3, <3>4
    <2>3. QED
      BY <2>1, <2>2
  <1>7. QED
    BY <1>1, <1>4, <1>5, <1>6 DEF KeyInv

\* Writing the nodes of the parse.
LEMMA KeyNodes ==
  ASSUME TypeOK, KeyInv, NEW n \in DOMAIN prop.nodes, KeepNode(n) \/ UpdateNode(n) \/ AddNode(n)
  PROVE  KeyInv'
  <1>1. InTurn("write", n) /\ match[n] \in 0 .. MaxId
    BY DEF KeepNode, UpdateNode, AddNode, TypeOK, Applying
  <1>2. CASE KeepNode(n)
    <2> DEFINE i == match[n]
               row == [rows[i] EXCEPT !.order = n, !.pid = IdOf(prop.nodes[n].parent)]
    <2>1. rows' = Written(i, row) /\ Placed(n, i)
      BY <1>2 DEF KeepNode
    <2>2. i \in Present(rows) => rows[i] \in Row
      BY TypeFacts DEF Present
    <2>3. ASSUME NEW q \in Row
          PROVE  LET w == [q EXCEPT !.order = n, !.pid = IdOf(prop.nodes[n].parent)]
                 IN w.status = q.status /\ w.key = q.key
      BY DEF Row
    <2>4. i \in Present(rows) => row.status # "absent" /\ row.key = rows[i].key
      BY <2>2, <2>3 DEF Present
    <2> HIDE DEF row
    <2>5. /\ Present(rows') = Present(rows)
          /\ \A j \in Id : j # i => rows'[j].key = rows[j].key
          /\ i \in Present(rows) => rows'[i].key = rows[i].key
      BY <2>1, <2>4, TypeFacts DEF Written, Present
    <2>6. QED
      BY <1>1, <2>1, <2>5, KeyWritten
  <1>3. CASE UpdateNode(n)
    <2> DEFINE i == match[n]
               laid == Relaid(rows[i], n)
               row == IF i \in ContentChanged THEN Rewritten(laid, prop.nodes[n].text, snap[i]) ELSE laid
    <2>1. rows' = Written(i, row) /\ Placed(n, i)
      BY <1>3 DEF UpdateNode
    <2>2. i \in Present(rows) => rows[i] \in Row
      BY TypeFacts DEF Present
    <2>3. ASSUME NEW q \in Row
          PROVE  /\ Relaid(q, n).status = q.status /\ Relaid(q, n).key = Plain(prop.nodes[n].key)
                 /\ DOMAIN Relaid(q, n) = DOMAIN q
      BY DEF Row, Relaid
    <2>4. ASSUME NEW q, DOMAIN q = {"status", "key", "parent", "pid", "order", "title", "text",
                                    "mark", "sum", "prov"}
          PROVE  LET w == Rewritten(q, prop.nodes[n].text, snap[i])
                 IN w.status = q.status /\ w.key = q.key
      BY <2>4 DEF Rewritten
    <2>5. i \in Present(rows) => row.status # "absent" /\ row.key = Plain(prop.nodes[n].key)
      BY <2>2, <2>3, <2>4 DEF Present, Row
    <2> HIDE DEF row, laid
    <2>6. /\ Present(rows') = Present(rows)
          /\ \A j \in Id : j # i => rows'[j].key = rows[j].key
          /\ i \in Present(rows) => rows'[i].key = Plain(prop.nodes[n].key)
      BY <2>1, <2>5, TypeFacts DEF Written, Present
    <2>7. QED
      BY <1>1, <2>1, <2>6, KeyWritten
  <1>4. CASE AddNode(n)
    <2> DEFINE row == NewRow(prop.nodes[n], n, IdOf(prop.nodes[n].parent))
    <2>1. /\ rows' = [rows EXCEPT ![used + 1] = row] /\ Placed(n, used + 1)
          /\ match[n] = 0 /\ used + 1 \in 0 .. MaxId
      BY <1>4, BoundAssumption DEF AddNode, TypeOK
    <2>2. row.key = Plain(prop.nodes[n].key)
      BY DEF NewRow
    <2> HIDE DEF row
    <2>3. /\ Present(rows') \subseteq Present(rows) \cup {used + 1}
          /\ \A j \in Id : j # used + 1 => rows'[j].key = rows[j].key
          /\ used + 1 \in Id => rows'[used + 1].key = Plain(prop.nodes[n].key)
      BY <2>1, <2>2, TypeFacts DEF Present
    <2>4. QED
      BY <1>1, <2>1, <2>3, KeyWritten DEF Present
  <1>5. QED
    BY <1>2, <1>3, <1>4

\* Steps that write no key, where KeyInv asks only that the keys fit.
LEMMA KeyRest ==
  ASSUME TypeOK, KeyInv,
         \/ \E i \in Id : Supersede(i) \/ Link(i)
         \/ \E e \in Pair : FlagEdge(e)
         \/ DropEdges \/ InsertEdges \/ InsertEdgesRaises
         \/ Fail \/ RestoreDocument \/ RestoreEdges \/ Return \/ Crash
  PROVE  KeyInv'
  <1>1. ASSUME NEW i \in Id, Supersede(i) PROVE KeyInv'
    <2>1. Present(rows') \subseteq Present(rows) /\ \A j \in Id : rows'[j].key = rows[j].key
      <3>1. [rows[i] EXCEPT !.status = "superseded"].key = rows[i].key
        BY TypeFacts DEF Row
      <3>2. QED
        BY <1>1, <3>1, TypeFacts DEF Supersede, Written, Present
    <2>2. KeysFit(rows') /\ KeysFit(prev'.rows)
      BY <1>1, <2>1, KeysSame DEF Supersede, KeyInv, Applying
    <2>3. QED
      BY <1>1, <2>2, KeyCalm DEF Supersede
  <1>2. ASSUME NEW i \in Id, Link(i) PROVE KeyInv'
    <2>1. Present(rows') \subseteq Present(rows) /\ \A j \in Id : rows'[j].key = rows[j].key
      <3>1. [rows[i] EXCEPT !.pid = IdOf(rows[i].parent)].key = rows[i].key
        BY TypeFacts DEF Row
      <3>2. QED
        BY <1>2, <3>1, TypeFacts DEF Link, Written, Present
    <2>2. KeysFit(rows') /\ KeysFit(prev'.rows)
      BY <1>2, <2>1, KeysSame DEF Link, KeyInv, Applying
    <2>3. QED
      BY <1>2, <2>2, KeyCalm DEF Link
  <1>3. CASE \/ \E e \in Pair : FlagEdge(e)
             \/ DropEdges \/ InsertEdges \/ InsertEdgesRaises \/ Fail
    <2>1. /\ pc \in Applying /\ UNCHANGED <<rows, prev>>
          /\ pc' \in {"drop", "insert", "flag", "rdocument"}
      BY <1>3 DEF FlagEdge, DropEdges, InsertEdges, InsertEdgesRaises, Fail, Applying
    <2>2. QED
      BY <2>1, KeyCalm DEF KeyInv
  <1>4. CASE RestoreDocument \/ RestoreEdges
    <2>1. /\ pc \in RestoreStep /\ UNCHANGED <<rows, prev>>
          /\ pc' \in {"rtree", "restored"}
      BY <1>4 DEF RestoreDocument, RestoreEdges, RestoreStep
    <2>2. QED
      BY <2>1, KeyCalm DEF KeyInv
  <1>5. CASE Return \/ Crash
    <2>1. pc' = "idle" /\ UNCHANGED rows
      BY <1>5 DEF Return, Crash
    <2>2. QED
      BY <2>1 DEF KeyInv, Applying, RestoreStep
  <1>6. QED
    BY <1>1, <1>2, <1>3, <1>4, <1>5

\* Restoring: first the rows that were added go, then each row has its old key or
\* one of its own.
LEMMA KeyRestore ==
  ASSUME TypeOK, KeyInv, At("rreplace") => todo \subseteq Present(prev.rows),
         RestoreTree \/ \E i \in Id : DeleteRow(i) \/ ParkForRestore(i) \/ ReplaceRow(i)
  PROVE  KeyInv'
  <1>1. KeysFit(rows) /\ KeysFit(prev.rows) /\ prev' = prev
    BY DEF RestoreTree, DeleteRow, ParkForRestore, ReplaceRow, KeyInv, RestoreStep
  <1>2. CASE RestoreTree
    BY <1>1, <1>2 DEF RestoreTree, AddedRows, KeyInv
  <1>3. ASSUME NEW i \in Id, DeleteRow(i) PROVE KeyInv'
    <2>1. /\ Present(rows') = Present(rows) \ {i} /\ todo' = todo \ {i}
          /\ \A j \in Present(rows') : rows'[j].key = rows[j].key
          /\ pc = "rdelete" /\ pc' = "rdelete"
      BY <1>3, TypeFacts DEF DeleteRow, Present, NoRow
    <2>2. KeysFit(rows')
      BY <1>1, <2>1 DEF KeysFit
    <2>3. QED
      BY <1>1, <2>1, <2>2 DEF KeyInv
  <1>4. ASSUME NEW i \in Id, ParkForRestore(i) PROVE KeyInv'
    <2> DEFINE row == [rows[i] EXCEPT !.key = Restoring(i)]
    <2>1. rows' = Written(i, row) /\ todo' = todo \ {i} /\ pc = "rpark" /\ pc' = "rpark"
      BY <1>4, Zenon DEF ParkForRestore
    <2>2. row \in Row /\ row.status = rows[i].status /\ row.key = Restoring(i)
      <3>1. rows[i] \in Row /\ Restoring(i) \in KeyValue
        BY TypeFacts, KeyType DEF Id
      <3>2. QED
        BY <3>1, RowKey
    <2> HIDE DEF row
    <2>3. /\ Present(rows') = Present(rows)
          /\ \A j \in Id : j # i => rows'[j].key = rows[j].key
          /\ i \in Present(rows) => rows'[i].key = Restoring(i)
      <3>1. i \in Present(rows) => row \in Row /\ row.status # "absent"
        BY <2>2 DEF Present
      <3>2. QED
        BY <2>1, <2>2, <3>1, WrittenType, TypeFacts
    <2>4. KeysFit(rows')
      BY <1>1, <2>3, KeysFitParked
    <2>5. ASSUME NEW j \in Present(rows')
          PROVE  /\ j \in Present(prev.rows)
                 /\ rows'[j].key \in {prev.rows[j].key, Restoring(j)} \/ j \in todo'
      BY <2>1, <2>3 DEF KeyInv, Present
    <2>6. QED
      BY <1>1, <2>1, <2>4, <2>5 DEF KeyInv
  <1>5. ASSUME NEW i \in Id, ReplaceRow(i) PROVE KeyInv'
    <2>1. /\ pc = "rreplace" /\ pc' = "rreplace" /\ i \in Present(prev.rows)
          /\ rows' = [rows EXCEPT ![i] = prev.rows[i]]
      BY <1>5 DEF ReplaceRow
    <2>2. Present(rows') = Present(rows) \cup {i} /\ Present(rows') \subseteq Id
      BY <2>1, TypeFacts DEF Present
    <2>3. /\ rows'[i].key = prev.rows[i].key
          /\ \A j \in Id : j # i => rows'[j].key = rows[j].key
      BY <2>1, TypeFacts
    <2>4. ASSUME NEW j \in Present(rows')
          PROVE  j \in Present(prev.rows) /\ rows'[j].key \in {prev.rows[j].key, Restoring(j)}
      BY <2>1, <2>2, <2>3 DEF KeyInv
    <2>5. ASSUME NEW j \in Present(rows'), j # i PROVE rows'[j].key # rows'[i].key
      <3>1. prev.rows[j].key # prev.rows[i].key
        BY <1>1, <2>1, <2>4, <2>5 DEF KeysFit
      <3>2. Restoring(j) # prev.rows[i].key
        <4>1. OwnKey(i, prev.rows[i].key) /\ j \in Id
          BY <1>1, <2>1, <2>2 DEF KeysFit
        <4>2. ~OwnKey(i, Restoring(j))
          BY <2>5, <4>1, OwnKeys
        <4>3. QED
          BY <4>1, <4>2
      <3>3. QED
        BY <2>3, <2>4, <3>1, <3>2
    <2>6. KeysFit(rows')
      <3>1. \A j \in Present(rows') : OwnKey(j, rows'[j].key)
        BY <1>1, <2>2, <2>4, OwnKeys DEF KeysFit
      <3>2. \A j, k \in Present(rows') : rows'[j].key = rows'[k].key => j = k
        BY <1>1, <2>2, <2>3, <2>5 DEF KeysFit
      <3>3. QED
        BY <3>1, <3>2 DEF KeysFit
    <2>7. QED
      BY <1>1, <2>1, <2>4, <2>6 DEF KeyInv
  <1>6. QED
    BY <1>2, <1>3, <1>4, <1>5

\* From one loop to the next.
LEMMA KeyEndLoop ==
  ASSUME TypeOK, KeyInv, EndLoop
  PROVE  KeyInv'
  <1>1. KeysFit(rows) /\ KeysFit(prev.rows) /\ UNCHANGED <<rows, prop, snap, match, prev, kid>>
    BY DEF EndLoop, KeyInv, Loop, Applying, RestoreStep
  <1>2. CASE At("park")
    <2>1. pc' = "write" /\ todo' = DOMAIN prop.nodes /\ todo = {}
      BY <1>2 DEF EndLoop
    <2>2. ASSUME NEW i \in Present(rows), NEW n \in DOMAIN prop.nodes,
                 rows[i].key = Plain(prop.nodes[n].key)
          PROVE  i = match[n]
      <3>1. i \in Keeps
        BY <1>2, <2>1, <2>2 DEF KeyInv, Keys
      <3>2. rows[i].key = snap[i].key
        BY <1>2, <3>1 DEF KeyInv
      <3>3. PICK m \in DOMAIN match : match[m] = i /\ snap[i].key = Plain(prop.nodes[m].key)
        BY <3>1 DEF Keeps
      <3>4. m \in DOMAIN prop.nodes
        BY <1>2, <3>3 DEF TypeOK, Applying
      <3>5. prop.nodes[m].key = prop.nodes[n].key
        BY <2>2, <3>2, <3>3, PlainKeys
      <3>6. m = n
        BY <3>4, <3>5, ParseType DEF TypeOK
      <3>7. QED
        BY <3>3, <3>6
    <2>3. QED
      BY <1>1, <2>1, <2>2 DEF KeyInv
  <1>3. CASE At("rdelete")
    <2>1. pc' = "rpark" /\ todo' = {i \in Present(rows) : rows[i].key # prev.rows[i].key} /\ todo = {}
      BY <1>3 DEF EndLoop
    <2>2. Present(rows) \subseteq Present(prev.rows)
      BY <1>3, <2>1 DEF KeyInv
    <2>3. QED
      BY <1>1, <2>1, <2>2 DEF KeyInv
  <1>4. CASE At("rpark")
    <2>1. pc' = "rreplace" /\ todo = {}
      BY <1>4 DEF EndLoop
    <2>2. QED
      BY <1>1, <1>4, <2>1 DEF KeyInv
  <1>5. CASE pc \in {"write", "remove", "link", "flag", "rreplace"}
    <2>1. pc' \in {"remove", "link", "drop", "done", "redges"}
      BY <1>5 DEF EndLoop
    <2>2. QED
      BY <1>1, <2>1, KeyCalm
  <1>6. QED
    BY <1>2, <1>3, <1>4, <1>5 DEF EndLoop, Loop

\* Operators write no keys.
LEMMA KeyOperators ==
  ASSUME TypeOK, KeyInv, OperatorNext \/ UNCHANGED vars
  PROVE  KeyInv'
  <1>1. ASSUME NEW i \in Id, Endorse(i) \/ Summarise(i) PROVE KeyInv'
    <2>3. Present(rows') = Present(rows) /\ \A j \in Id : rows'[j].key = rows[j].key
      BY <1>1, OperatorRow, TypeFacts DEF Present
    <2>4. QED
      BY <1>1, <2>3, KeyStutter DEF Endorse, Summarise, Operate
  <1>2. ASSUME NEW i \in Id, NEW j \in Id, AddReviewedEdge(i, j) PROVE KeyInv'
    BY <1>2, KeyStutter DEF AddReviewedEdge, Operate
  <1>3. CASE UNCHANGED vars
    BY <1>3, KeyStutter DEF vars
  <1>4. QED
    BY <1>1, <1>2, <1>3 DEF OperatorNext

-------------------------------------------------------------------------------
(* What a failed rebuild goes back to *)

\* The initial state has all of it.
LEMMA RestoreInit == Init => KeyInv /\ RestoreInv
  <1> SUFFICES ASSUME Init PROVE KeyInv /\ RestoreInv
    OBVIOUS
  <1>1. pc = "idle" /\ prev = NoImage /\ before = NoImage
    BY DEF Init
  <1>2. \A i \in Id : i \notin DOMAIN First.nodes => rows[i] = NoRow
    BY DEF Init
  <1>3. \A i \in Id : i \in DOMAIN First.nodes =>
            /\ rows[i].status # "absent" /\ rows[i].key = Plain(First.nodes[i].key)
    BY DEF Init, NewRow
  <1>4. \A i, j \in DOMAIN First.nodes : First.nodes[i].key = First.nodes[j].key => i = j
    <2>1. First \in Proposals \cup {First}
      OBVIOUS
    <2>2. QED
      BY <2>1, ProposalAssumption
  <1>5. Present(rows) = {i \in Id : i \in DOMAIN First.nodes}
    BY <1>2, <1>3 DEF Present, NoRow
  <1>6. KeysFit(rows)
    BY <1>3, <1>4, <1>5, PlainKeys, OwnKeys DEF KeysFit
  <1>7. KeyInv
    BY <1>1, <1>6 DEF KeyInv, Applying, RestoreStep
  <1>8. \A i \in Id \ Present(rows) : rows[i] = NoRow
    BY <1>2, <1>5
  <1>9. \A i \in Id : prev.rows[i] = NoRow
    BY <1>1 DEF NoImage
  <1>10. RestoreInv
    BY <1>1, <1>8, <1>9 DEF RestoreInv, RollbackRestores, Applying, RestoreStep, Blank
  <1>11. QED
    BY <1>7, <1>10

\* Steps of the writing that keep the rows there are.
LEMMA RestoreApply ==
  ASSUME TypeOK, RestoreInv, pc \in Applying, pc' \in Applying \cup {"done", "rdocument"},
         Blank(rows'), UNCHANGED <<prev, before, quiet>>
  PROVE  RestoreInv'
  BY DEF RestoreInv, RollbackRestores, Applying, RestoreStep, Blank

\* Reading what was there.
LEMMA RestoreReading ==
  ASSUME TypeOK, RestoreInv, (\E P \in Proposals : Begin(P)) \/ ReadExisting \/ ReadPrevious
  PROVE  RestoreInv'
  <1>1. ASSUME NEW P \in Proposals, Begin(P) PROVE RestoreInv'
    <2>1. pc' = "read" /\ Image' = before' /\ UNCHANGED <<rows, prev>> /\ before'.rows = rows'
      BY <1>1 DEF Begin
    <2>2. QED
      BY <2>1 DEF RestoreInv, RollbackRestores, Applying, RestoreStep
  <1>2. CASE ReadExisting
    <2>1. pc = "read" /\ pc' = "previous" /\ Image' = Image /\ UNCHANGED <<rows, prev, before, quiet>>
      BY <1>2 DEF ReadExisting
    <2>2. QED
      BY <2>1 DEF RestoreInv, RollbackRestores, Applying, RestoreStep
  <1>3. CASE ReadPrevious
    <2>1. /\ pc = "previous" /\ pc' = "document" /\ UNCHANGED <<rows, before, quiet>>
          /\ prev' = Image /\ prev'.rows = rows
      BY <1>3 DEF ReadPrevious, PreviousRows
    <2>2. QED
      BY <2>1 DEF RestoreInv, RollbackRestores, Applying, RestoreStep
  <1>4. QED
    BY <1>1, <1>2, <1>3

\* Writing the parse leaves what was there to be restored.
LEMMA RestoreWriting ==
  ASSUME TypeOK, RestoreInv,
         \/ \E i \in Id : Park(i) \/ Supersede(i) \/ Link(i)
         \/ \E n \in DOMAIN prop.nodes : KeepNode(n) \/ UpdateNode(n) \/ AddNode(n)
         \/ WriteDocument \/ WriteTree \/ DropEdges \/ InsertEdges \/ InsertEdgesRaises
         \/ \E e \in Pair : FlagEdge(e)
         \/ Fail
  PROVE  RestoreInv'
  <1>1. pc \in Applying /\ pc' \in Applying \cup {"rdocument"} /\ UNCHANGED <<prev, before, quiet>>
    BY DEF Park, Supersede, Link, KeepNode, UpdateNode, AddNode, Placed, WriteDocument, WriteTree,
       WriteStamp, DropEdges, InsertEdges, InsertEdgesRaises, FlagEdge, Fail, Applying
  <1>2. Blank(rows)
    BY DEF RestoreInv, Blank
  <1>3. Blank(rows')
    <2>1. CASE \/ \E i \in Id : Park(i) \/ Supersede(i) \/ Link(i)
               \/ \E n \in DOMAIN prop.nodes : KeepNode(n) \/ UpdateNode(n)
      <3>1. SameRows
        BY <2>1, TypeWrites
      <3>2. QED
        BY <1>2, <3>1 DEF SameRows, Blank
    <2>2. ASSUME NEW n \in DOMAIN prop.nodes, AddNode(n) PROVE Blank(rows')
      <3> DEFINE row == NewRow(prop.nodes[n], n, IdOf(prop.nodes[n].parent))
      <3>1. rows' = [rows EXCEPT ![used + 1] = row] /\ row.status # "absent"
        BY <2>2 DEF AddNode, NewRow
      <3> HIDE DEF row
      <3>2. QED
        BY <1>2, <3>1, TypeFacts DEF Blank, Present
    <2>3. CASE UNCHANGED rows
      BY <1>2, <2>3
    <2>4. QED
      BY <2>1, <2>2, <2>3 DEF WriteDocument, WriteTree, WriteStamp, DropEdges, InsertEdges,
         InsertEdgesRaises, FlagEdge, Fail
  <1>4. QED
    BY <1>1, <1>3, RestoreApply

\* Restoring it step by step.
LEMMA RestoreRestoring ==
  ASSUME TypeOK, KeyInv, RestoreInv,
         \/ RestoreDocument \/ RestoreTree \/ RestoreEdges
         \/ \E i \in Id : DeleteRow(i) \/ ParkForRestore(i) \/ ReplaceRow(i)
  PROVE  RestoreInv'
  <1>1. UNCHANGED <<prev, before, quiet>> /\ pc \in RestoreStep
    BY DEF RestoreDocument, RestoreTree, RestoreEdges, DeleteRow, ParkForRestore, ReplaceRow,
       RestoreStep
  <1>2. Blank(rows) /\ Blank(prev.rows)
    BY DEF RestoreInv, Blank
  <1>3. CASE RestoreDocument
    <2>1. /\ pc = "rdocument" /\ pc' = "rtree" /\ UNCHANGED rows
          /\ stamp'.document = prev.stamp.document
      BY <1>3, TypeFacts DEF RestoreDocument
    <2>2. QED
      BY <1>1, <2>1 DEF RestoreInv, RollbackRestores, Applying, RestoreStep
  <1>4. CASE RestoreTree
    <2>1. /\ pc = "rtree" /\ pc' = "rdelete" /\ UNCHANGED rows
          /\ stamp'.tree = prev.stamp.tree /\ stamp'.document = stamp.document
          /\ todo' = Present(rows) \ Present(prev.rows)
      BY <1>4, TypeFacts DEF RestoreTree, AddedRows
    <2>2. QED
      BY <1>1, <2>1 DEF RestoreInv, RollbackRestores, Applying, RestoreStep
  <1>5. ASSUME NEW i \in Id, DeleteRow(i) PROVE RestoreInv'
    <2>1. /\ pc = "rdelete" /\ pc' = "rdelete" /\ UNCHANGED stamp /\ todo' = todo \ {i}
          /\ rows' = [rows EXCEPT ![i] = NoRow]
      BY <1>5 DEF DeleteRow
    <2>2. Blank(rows')
      BY <1>2, <2>1, TypeFacts DEF Blank, Present, NoRow
    <2>3. QED
      BY <1>1, <2>1, <2>2 DEF RestoreInv, RollbackRestores, Applying, RestoreStep, Blank
  <1>6. ASSUME NEW i \in Id, ParkForRestore(i) PROVE RestoreInv'
    <2>1. pc = "rpark" /\ pc' = "rpark" /\ UNCHANGED stamp
      BY <1>6 DEF ParkForRestore
    <2>2. Blank(rows')
      BY <1>2, <1>6, TypeWrites DEF SameRows, Blank
    <2>3. QED
      BY <1>1, <2>1, <2>2 DEF RestoreInv, RollbackRestores, Applying, RestoreStep, Blank
  <1>7. ASSUME NEW i \in Id, ReplaceRow(i) PROVE RestoreInv'
    <2>1. /\ pc = "rreplace" /\ pc' = "rreplace" /\ UNCHANGED stamp
          /\ i \in todo /\ todo' = todo \ {i} /\ rows' = [rows EXCEPT ![i] = prev.rows[i]]
      BY <1>7 DEF ReplaceRow
    <2>2. Blank(rows')
      BY <1>2, <2>1, TypeFacts DEF Blank, Present
    <2>3. quiet => \A j \in Present(prev.rows) \ todo' : rows'[j] = prev.rows[j]
      BY <2>1, TypeFacts DEF RestoreInv, Present
    <2>4. todo' \subseteq Present(prev.rows)
      BY <2>1 DEF RestoreInv
    <2>5. QED
      BY <1>1, <2>1, <2>2, <2>3, <2>4 DEF RestoreInv, RollbackRestores, Applying, RestoreStep
  <1>8. CASE RestoreEdges
    <2>1. pc = "redges" /\ pc' = "restored" /\ UNCHANGED <<rows, stamp>> /\ edge' = prev.edge
      BY <1>8 DEF RestoreEdges
    <2>2. quiet => Image' = before'
      <3>1. SUFFICES ASSUME quiet PROVE Image' = before'
        OBVIOUS
      <3>2. prev = before /\ rows' = prev.rows /\ edge' = prev.edge
        BY <1>1, <2>1, <3>1 DEF RestoreInv
      <3>3. stamp' = prev.stamp
        BY <2>1, TypeFacts DEF RestoreInv, RestoreStep
      <3>4. prev = [rows |-> prev.rows, edge |-> prev.edge, stamp |-> prev.stamp]
        BY DEF TypeOK, Images
      <3>5. QED
        BY <1>1, <3>2, <3>3, <3>4
    <2>3. QED
      BY <1>1, <2>1, <2>2 DEF RestoreInv, RollbackRestores, Applying, RestoreStep
  <1>9. QED
    BY <1>3, <1>4, <1>5, <1>6, <1>7, <1>8

\* From one loop to the next: when the last is over all rows are as they were.
LEMMA RestoreEndLoop ==
  ASSUME TypeOK, KeyInv, RestoreInv, EndLoop
  PROVE  RestoreInv'
  <1>1. UNCHANGED <<rows, stamp, prev, before, quiet>> /\ todo = {}
    BY DEF EndLoop
  <1>2. CASE pc \in {"park", "write", "remove", "link", "flag"}
    <2>1. pc \in Applying /\ pc' \in {"write", "remove", "link", "drop", "done"}
      BY <1>2 DEF EndLoop, Applying
    <2>2. QED
      BY <1>1, <2>1, RestoreApply DEF Applying, RestoreInv, Blank
  <1>3. CASE At("rdelete")
    <2>1. pc' = "rpark"
      BY <1>3 DEF EndLoop
    <2>2. QED
      BY <1>1, <1>3, <2>1 DEF RestoreInv, RollbackRestores, Applying, RestoreStep
  <1>4. CASE At("rpark")
    <2>1. pc' = "rreplace" /\ todo' = Present(prev.rows)
      BY <1>4 DEF EndLoop
    <2>2. QED
      BY <1>1, <1>4, <2>1 DEF RestoreInv, RollbackRestores, Applying, RestoreStep
  <1>5. CASE At("rreplace")
    <2>1. pc' = "redges"
      BY <1>5 DEF EndLoop
    <2>2. quiet => rows = prev.rows
      <3>1. Present(rows) \subseteq Present(prev.rows)
        BY <1>5 DEF KeyInv
      <3>2. quiet => \A i \in Present(prev.rows) : rows[i] = prev.rows[i]
        BY <1>1, <1>5 DEF RestoreInv
      <3>3. \A i \in Id \ Present(prev.rows) : rows[i] = prev.rows[i]
        BY <3>1 DEF RestoreInv, Blank
      <3>4. Present(prev.rows) \subseteq Id
        BY DEF Present
      <3>5. QED
        BY <3>2, <3>3, <3>4, TypeFacts
    <2>3. QED
      BY <1>1, <1>5, <2>1, <2>2 DEF RestoreInv, RollbackRestores, Applying, RestoreStep
  <1>6. QED
    BY <1>2, <1>3, <1>4, <1>5 DEF EndLoop, Loop

\* The end of a rebuild, and operators: an undisturbed one has none of their acts.
LEMMA RestoreOver ==
  ASSUME TypeOK, RestoreInv, Return \/ Crash \/ OperatorNext \/ UNCHANGED vars
  PROVE  RestoreInv'
  <1>1. CASE Return \/ Crash
    <2>1. pc' = "idle" /\ rows' = rows /\ prev' = NoImage
      BY <1>1 DEF Return, Crash, Forget
    <2>2. \A i \in Id : prev'.rows[i] = NoRow
      BY <2>1 DEF NoImage
    <2>3. QED
      BY <2>1, <2>2 DEF RestoreInv, RollbackRestores, Applying, RestoreStep, Blank
  <1>2. CASE OperatorNext
    <2>1. /\ quiet => pc = "idle"
          /\ UNCHANGED <<stamp, pc, prev, todo, quiet, before>>
      BY <1>2 DEF OperatorNext, Endorse, Summarise, AddReviewedEdge, Operate
    <2>2. /\ Present(rows') = Present(rows)
          /\ \A j \in Id \ Present(rows) : rows'[j] = rows[j]
      BY <1>2, OperatorRow, TypeFacts DEF OperatorNext, AddReviewedEdge, Present
    <2>3. quiet => pc' = "idle"
      BY <2>1
    <2>4. QED
      BY <2>1, <2>2, <2>3 DEF RestoreInv, RollbackRestores, Applying, RestoreStep, Blank
  <1>3. CASE UNCHANGED vars
    BY <1>3 DEF vars, RestoreInv, RollbackRestores
  <1>4. QED
    BY <1>1, <1>2, <1>3

-------------------------------------------------------------------------------

RebuildInv == TypeOK /\ KeyInv /\ RestoreInv

\* RebuildInv holds of every state: the two invariants need the types, and the
\* types that of the rows to be restored.
LEMMA RebuildInvHolds == Spec => []RebuildInv
  <1>1. Init => RebuildInv
    BY TypeInit, RestoreInit DEF RebuildInv
  <1>2. RebuildInv /\ [Next]_vars => RebuildInv'
    <2> SUFFICES ASSUME RebuildInv, [Next]_vars PROVE RebuildInv'
      OBVIOUS
    <2>1. TypeOK /\ KeyInv /\ RestoreInv /\ (At("rreplace") => todo \subseteq Present(prev.rows))
      BY DEF RebuildInv, RestoreInv
    <2>2. TypeOK'
      BY <2>1, TypeStep
    <2>3. KeyInv'
      BY <2>1, KeyReading, KeyPark, KeyNodes, KeyRest, KeyRestore, KeyEndLoop, KeyOperators
      DEF Next, RebuildNext
    <2>4. RestoreInv'
      BY <2>1, RestoreReading, RestoreWriting, RestoreRestoring, RestoreEndLoop, RestoreOver
      DEF Next, RebuildNext
    <2>5. QED
      BY <2>2, <2>3, <2>4 DEF RebuildInv
  <1>3. QED
    BY <1>1, <1>2, PTL DEF Spec

\* TypeOK holds of every state of rows, rebuild and operators.
THEOREM TypeCorrect == Spec => []TypeOK
  BY RebuildInvHolds, PTL DEF RebuildInv

\* At every step of every rebuild and restore, whatever died before, no two rows of
\* the tree hold one key: the unique index refuses none of the writes.
THEOREM KeysAlwaysUnique == Spec => []KeysAreUnique
  <1>1. RebuildInv => KeysAreUnique
    BY DEF RebuildInv, KeyInv, KeysFit, KeysAreUnique
  <1>2. QED
    BY <1>1, RebuildInvHolds, PTL

\* A failed rebuild that no operator disturbed leaves everything as it was.
THEOREM RollbackAlwaysRestores == Spec => []RollbackRestores
  <1>1. RebuildInv => RollbackRestores
    BY DEF RebuildInv, RestoreInv
  <1>2. QED
    BY <1>1, RebuildInvHolds, PTL

\* No rebuild, failed or not, ever deletes a row that was there when it began.
THEOREM RowsAlwaysStay == Spec => RowsStay
  <1>1. RebuildInv /\ [Next]_vars =>
          \A i \in Id : i \in Present(rows) \ Present(rows)' => i \notin Present(before.rows)
    <2> SUFFICES ASSUME RebuildInv, [Next]_vars, NEW i \in Present(rows) \ Present(rows)'
                 PROVE  i \notin Present(before.rows)
      BY DEF Present
    <2>1. TypeOK /\ KeyInv /\ RestoreInv
      BY DEF RebuildInv
    <2>2. i \in Id /\ i \in Present(rows) /\ i \notin Present(rows')
      BY DEF Present
    <2>3. ~ SameRows /\ rows' # rows
      BY <2>2 DEF SameRows
    <2>4. ASSUME NEW j \in Id, DeleteRow(j) PROVE i \notin Present(before.rows)
      <3>1. j = i /\ j \in todo /\ pc = "rdelete"
        BY <2>1, <2>2, <2>4, TypeFacts DEF DeleteRow, Present
      <3>2. QED
        BY <2>1, <3>1 DEF RestoreInv, RestoreStep
    <2>5. ASSUME NEW j \in Id, ReplaceRow(j) PROVE FALSE
      <3>1. j \in Present(prev.rows) /\ rows' = [rows EXCEPT ![j] = prev.rows[j]]
        BY <2>1, <2>5 DEF ReplaceRow, RestoreInv
      <3>2. QED
        BY <2>1, <2>2, <3>1, TypeFacts DEF Present
    <2>6. ASSUME NEW n \in DOMAIN prop.nodes, AddNode(n) PROVE FALSE
      <3> DEFINE row == NewRow(prop.nodes[n], n, IdOf(prop.nodes[n].parent))
      <3>1. rows' = [rows EXCEPT ![used + 1] = row] /\ row.status # "absent"
        BY <2>6 DEF AddNode, NewRow
      <3> HIDE DEF row
      <3>2. QED
        BY <2>1, <2>2, <3>1, TypeFacts DEF Present
    <2>7. CASE OperatorNext
      BY <2>1, <2>2, <2>3, <2>7, OperatorRow, TypeFacts DEF OperatorNext, AddReviewedEdge, Present
    <2>8. CASE \/ \E j \in Id : Park(j) \/ Supersede(j) \/ Link(j) \/ ParkForRestore(j)
               \/ \E n \in DOMAIN prop.nodes : KeepNode(n) \/ UpdateNode(n)
      BY <2>1, <2>3, <2>8, TypeWrites
    <2>9. QED
      BY <2>3, <2>4, <2>5, <2>6, <2>7, <2>8
      DEF Next, RebuildNext, Begin, ReadExisting, ReadPrevious, WriteDocument, WriteTree, WriteStamp,
          DropEdges, InsertEdges, InsertEdgesRaises, FlagEdge, RestoreDocument, RestoreTree,
          RestoreEdges, EndLoop, Return, Fail, Crash, vars
  <1>2. QED
    BY <1>1, RebuildInvHolds, PTL DEF Spec, RowsStay
-------------------------------------------------------------------------------
(* The diff *)

\* A matching of proposed nodes: active rows, each for one node.
Assigns(rs, P, m) ==
    /\ m \in [DOMAIN P -> DOMAIN rs \cup {0}]
    /\ \A n \in DOMAIN P : m[n] # 0 => m[n] \in ActiveRows(rs)
    /\ \A k, n \in DOMAIN P : m[k] = m[n] /\ m[n] # 0 => k = n

\* One pass over an assignment makes an assignment that extends it.
LEMMA PassAssigns ==
  ASSUME NEW rs, NEW P, P \in Seq(Node), NEW start, Assigns(rs, P, start),
         NEW m \in [DOMAIN P -> DOMAIN rs \cup {0}],
         \A n \in DOMAIN P :
             \/ start[n] # 0 /\ m[n] = start[n]
             \/ /\ start[n] = 0 /\ m[n] \in ActiveRows(rs)
                /\ m[n] \notin {start[k] : k \in DOMAIN P} \cup {m[k] : k \in 1 .. n - 1}
             \/ start[n] = 0 /\ m[n] = 0
  PROVE  Assigns(rs, P, m) /\ \A n \in DOMAIN P : start[n] # 0 => m[n] = start[n]
  <1>1. \A n \in DOMAIN P : n \in Nat \ {0}
    OBVIOUS
  <1>2. \A n \in DOMAIN P : m[n] # 0 => m[n] \in ActiveRows(rs)
    BY DEF Assigns
  <1>3. ASSUME NEW k \in DOMAIN P, NEW n \in DOMAIN P, k < n, m[k] = m[n], m[n] # 0
        PROVE  FALSE
    <2>1. k \in 1 .. n - 1
      BY <1>1, <1>3
    <2>2. start[n] # 0 /\ m[n] = start[n]
      BY <1>3, <2>1
    <2>3. start[k] # 0 /\ m[k] = start[k]
      BY <1>3, <2>2
    <2>4. QED
      BY <1>1, <1>3, <2>2, <2>3 DEF Assigns
  <1>4. \A k, n \in DOMAIN P : m[k] = m[n] /\ m[n] # 0 => k = n
    BY <1>1, <1>3
  <1>5. QED
    BY <1>2, <1>4 DEF Assigns

\* The three passes of a diff.
LEMMA MatchingPasses ==
  ASSUME NEW rs, NEW P, NEW m \in Matching(rs, P)
  PROVE  \E m1, m2 \in [DOMAIN P -> DOMAIN rs \cup {0}] :
             /\ m \in [DOMAIN P -> DOMAIN rs \cup {0}]
             /\ Pass(ByHash, rs, P, Unmatched(P), m1)
             /\ Pass(ByKeys, rs, P, m1, m2)
             /\ Pass(ByTitle, rs, P, m2, m)
  BY DEF Matching, Passes

\* A diff assigns active rows to nodes, and a text that is one row's and one
\* node's to that row.
LEMMA MatchingAssigns ==
  ASSUME NEW rs \in [Id -> Row], NEW P, P \in Seq(Node), NEW m \in Matching(rs, P)
  PROVE  /\ Assigns(rs, P, m)
         /\ \A i \in ActiveRows(rs), n \in DOMAIN P :
               (/\ rs[i].text = P[n].text
                /\ \A j \in ActiveRows(rs) : rs[j].text = rs[i].text => j = i
                /\ \A k \in DOMAIN P : P[k].text = P[n].text => k = n)
               => m[n] = i
  <1>1. PICK m1, m2 \in [DOMAIN P -> DOMAIN rs \cup {0}] :
             /\ m \in [DOMAIN P -> DOMAIN rs \cup {0}]
             /\ Pass(ByHash, rs, P, Unmatched(P), m1)
             /\ Pass(ByKeys, rs, P, m1, m2)
             /\ Pass(ByTitle, rs, P, m2, m)
    BY MatchingPasses
  <1>2. 0 \notin ActiveRows(rs) /\ ActiveRows(rs) \subseteq DOMAIN rs
    BY BoundAssumption DEF ActiveRows, Id
  <1>3. Assigns(rs, P, Unmatched(P))
    BY DEF Assigns, Unmatched
  <1>4. Assigns(rs, P, m1)
    <2>1. \A n \in DOMAIN P :
             \/ Unmatched(P)[n] # 0 /\ m1[n] = Unmatched(P)[n]
             \/ /\ Unmatched(P)[n] = 0 /\ m1[n] \in ActiveRows(rs)
                /\ m1[n] \notin {Unmatched(P)[k] : k \in DOMAIN P} \cup {m1[k] : k \in 1 .. n - 1}
             \/ Unmatched(P)[n] = 0 /\ m1[n] = 0
      BY <1>1 DEF Pass, ByHash
    <2>2. QED
      BY <1>1, <1>3, <2>1, PassAssigns
  <1>5. Assigns(rs, P, m2) /\ \A n \in DOMAIN P : m1[n] # 0 => m2[n] = m1[n]
    <2>1. \A n \in DOMAIN P :
             \/ m1[n] # 0 /\ m2[n] = m1[n]
             \/ /\ m1[n] = 0 /\ m2[n] \in ActiveRows(rs)
                /\ m2[n] \notin {m1[k] : k \in DOMAIN P} \cup {m2[k] : k \in 1 .. n - 1}
             \/ m1[n] = 0 /\ m2[n] = 0
      BY <1>1 DEF Pass, ByKeys
    <2>2. QED
      BY <1>1, <1>4, <2>1, PassAssigns
  <1>6. Assigns(rs, P, m) /\ \A n \in DOMAIN P : m2[n] # 0 => m[n] = m2[n]
    <2>1. \A n \in DOMAIN P :
             \/ m2[n] # 0 /\ m[n] = m2[n]
             \/ /\ m2[n] = 0 /\ m[n] \in ActiveRows(rs)
                /\ m[n] \notin {m2[k] : k \in DOMAIN P} \cup {m[k] : k \in 1 .. n - 1}
             \/ m2[n] = 0 /\ m[n] = 0
      BY <1>1 DEF Pass, ByTitle
    <2>2. QED
      BY <1>1, <1>5, <2>1, PassAssigns
  <1>7. ASSUME NEW i \in ActiveRows(rs), NEW n \in DOMAIN P,
               rs[i].text = P[n].text,
               \A j \in ActiveRows(rs) : rs[j].text = rs[i].text => j = i,
               \A k \in DOMAIN P : P[k].text = P[n].text => k = n
        PROVE  m[n] = i
    <2> DEFINE taken(k) == {Unmatched(P)[l] : l \in DOMAIN P} \cup {m1[l] : l \in 1 .. k - 1}
               cand(k) == {j \in ActiveRows(rs) \ taken(k) : rs[j].text = P[k].text}
    <2>1. \A k \in DOMAIN P : \/ m1[k] # 0 /\ cand(k) = {m1[k]}
                              \/ m1[k] = 0 /\ \A j \in cand(k) : cand(k) # {j}
      BY <1>1 DEF Pass, ByHash, SameText, Unmatched
    <2>2. \A k \in DOMAIN P : k \in Nat /\ (k \in 1 .. n - 1 => k # n)
      OBVIOUS
    <2>3. 1 .. n - 1 \subseteq DOMAIN P
      <3>1. DOMAIN P = 1 .. Len(P) /\ Len(P) \in Nat
        OBVIOUS
      <3>2. QED
        BY <3>1
    <2>4. \A k \in DOMAIN P : m1[k] # 0 => rs[m1[k]].text = P[k].text
      BY <2>1
    <2>5. \A k \in 1 .. n - 1 : m1[k] # i
      BY <1>2, <1>7, <2>2, <2>3, <2>4
    <2>6. i \notin taken(n)
      BY <1>2, <2>5 DEF Unmatched
    <2>7. cand(n) = {i}
      BY <1>7, <2>6
    <2>8. m1[n] = i
      BY <2>1, <2>7
    <2>9. QED
      BY <1>2, <1>5, <1>6, <2>8
  <1>8. QED
    BY <1>6, <1>7
-------------------------------------------------------------------------------
(* What a rebuild that returned has made *)

\* Steps of a rebuild that has its diff; those that place nodes, or come after.
Diffed == Applying \cup {"previous", "done"}
Laying == {"write", "remove", "link", "drop", "insert", "flag", "done"}

\* The diff assigns the rows that it read.
DiffInv ==
    pc \in Diffed =>
        /\ Present(snap) \subseteq 1 .. used
        /\ Assigns(snap, prop.nodes, match)
        /\ \A i \in ActiveRows(snap), n \in DOMAIN prop.nodes :
              (/\ snap[i].text = prop.nodes[n].text
               /\ \A j \in ActiveRows(snap) : snap[j].text = snap[i].text => j = i
               /\ \A k \in DOMAIN prop.nodes : prop.nodes[k].text = prop.nodes[n].text => k = n)
              => match[n] = i

\* The judgements fit the rows, and those to be restored.
JudgedInv ==
    /\ \A i \in Present(rows) : MarkFits(rows[i])
    /\ \A i \in Present(prev.rows) : MarkFits(prev.rows[i])
    /\ quiet => \A i \in Id : /\ rows[i].prov = "operator" => rows[i].sum = "operator"
                              /\ prev.rows[i].prov = "operator" => prev.rows[i].sum = "operator"

\* What was read is what was there when the rebuild began, but for judgements
\* that operators made meanwhile; a judgement there was stays, unless its row is
\* rewritten.
FoundInv ==
    /\ At("read") => \A i \in Id : /\ rows[i].status = before.rows[i].status
                                   /\ rows[i].text = before.rows[i].text
    /\ pc \in Diffed => \A i \in Id : /\ snap[i].status = before.rows[i].status
                                      /\ snap[i].text = before.rows[i].text
    /\ At("read") => \A i \in Present(before.rows) :
          before.rows[i].mark # "none" => rows[i].mark = before.rows[i].mark
    /\ pc \in Diffed => \A i \in Present(before.rows) \ ContentChanged :
          before.rows[i].mark # "none" => rows[i].mark = before.rows[i].mark

\* The nodes that have their row, and these rows.
Laid == IF At("write") THEN DOMAIN prop.nodes \ todo ELSE DOMAIN prop.nodes
KidOf(n) == kid[prop.nodes[n].key]
Kids == {KidOf(n) : n \in Laid}

\* Ends of reviewed edges.
Ends(es) == {e[1] : e \in Reviewed(es)} \cup {e[2] : e \in Reviewed(es)}

\* key_to_id gives each node that was written the row it is matched to, or a new
\* one, and no two nodes the same; nodes are written in document order.
KidInv ==
    /\ pc \in {"idle", "read", "previous", "document", "tree", "park"} => DOMAIN kid = {}
    /\ pc \in Laying =>
          /\ DOMAIN kid = {prop.nodes[n].key : n \in Laid}
          /\ \A n \in Laid :
                /\ KidOf(n) \in 1 .. used
                /\ match[n] # 0 => KidOf(n) = match[n]
                /\ match[n] = 0 => KidOf(n) \notin Present(snap) \cup Ends(before.edge)
          /\ \A m, n \in Laid : KidOf(m) = KidOf(n) => m = n
    /\ At("write") => /\ todo \subseteq DOMAIN prop.nodes
                      /\ \A n \in todo, m \in DOMAIN prop.nodes : n <= m => m \in todo

\* Rows that have not been written, but perhaps parked.
Untouched(i) ==
    /\ rows[i].status = snap[i].status /\ rows[i].parent = snap[i].parent
    /\ rows[i].title = snap[i].title /\ rows[i].text = snap[i].text
    /\ i \in Keeps => rows[i].key = snap[i].key
    /\ quiet => rows[i].prov = snap[i].prov

\* The row of a node that was written.
PlacedRow(n) ==
    LET row == rows[KidOf(n)]
        p == prop.nodes[n]
    IN /\ row.status = "active" /\ row.order = n /\ row.key = Plain(p.key)
       /\ row.parent = p.parent /\ row.title = p.title /\ row.text = p.text

\* The parent is written first.
Early(n) ==
    \/ prop.nodes[n].parent = 0
    \/ \E l \in DOMAIN prop.nodes : l < n /\ prop.nodes[l].key = prop.nodes[n].parent

\* Nodes whose parent's id is still to be written.
Orphan(n) ==
    \/ pc \in {"write", "remove"} /\ ~Early(n)
    \/ At("link") /\ KidOf(n) \in todo

\* Each row is as it was read, or as its node is, or superseded.
LayoutInv ==
    /\ pc \in {"previous", "document", "tree", "park"} => \A i \in Id : Untouched(i)
    /\ pc \in Laying =>
          /\ \A n \in Laid : /\ PlacedRow(n)
                             /\ Orphan(n) \/ rows[KidOf(n)].pid = IdOf(prop.nodes[n].parent)
          /\ \A i \in Id \ Kids : rows[i].text = snap[i].text
    /\ At("write") => \A i \in Id \ Kids : Untouched(i)
    /\ pc \in Laying \ {"write"} =>
          \A i \in Id \ Kids :
              /\ i \notin Removed => rows[i].status = snap[i].status
              /\ i \in Removed /\ rows[i].status = "active" => At("remove") /\ i \in todo
    /\ At("remove") => todo \subseteq Removed
    /\ At("link") => todo \subseteq Kids

\* The flag of a reviewed edge that was there when the rebuild began.
FlaggedWas(e) ==
    IF \E x \in {1, 2} : e[x] \in Removed THEN "superseded"
    ELSE IF \E x \in {1, 2} : e[x] \in ContentChanged THEN "changed"
    ELSE before.edge[e]

\* Edges and epochs: those there were stay until they are flagged; machine edges
\* are dropped, then the relations of the parse.
EdgeInv ==
    /\ Ends(edge) \cup Ends(prev.edge) \cup Ends(before.edge) \subseteq 1 .. used
    /\ pc \in {"read", "previous"} => \A e \in Reviewed(before.edge) : edge[e] = before.edge[e]
    /\ pc \in Applying => \A e \in Reviewed(before.edge) : prev.edge[e] = before.edge[e]
    /\ pc \in Applying => \A e \in Reviewed(before.edge) :
          (At("flag") /\ e \notin todo) \/ edge[e] = before.edge[e]
    /\ At("flag") => todo \subseteq Reviewed(prev.edge)
    /\ pc \in {"flag", "done"} => \A e \in Reviewed(before.edge) :
          (At("flag") /\ e \in todo) \/ edge[e] = FlaggedWas(e)
    /\ At("insert") => \A e \in Pair : edge[e] # "machine"
    /\ pc \in {"flag", "done"} =>
          \A e \in Pair : edge[e] = "machine" => \E r \in prop.rels : e = <<kid[r[1]], kid[r[2]]>>
    /\ pc \in (Applying \cup {"done"}) \ {"document"} => stamp.document = run
    /\ pc \in (Applying \cup {"done"}) \ {"document", "tree"} => stamp.tree = run
-------------------------------------------------------------------------------
(* What the steps do to a row *)

\* Fields that a write may leave alone.
SameContent(r, s) ==
    r.status = s.status /\ r.parent = s.parent /\ r.title = s.title /\ r.text = s.text

SameJudged(r, s) == r.text = s.text /\ r.mark = s.mark /\ r.sum = s.sum /\ r.prov = s.prov

\* A write of one row, and what else it leaves alone.
OthersStay(i) == \A j \in Id : j # i => rows'[j] = rows[j]

Applies(i) == UNCHANGED <<edge, stamp, used, run, locals, acts, quiet, before>> /\ OthersStay(i)

\* A row that is written by its _id.
LEMMA WrittenRow ==
  ASSUME TypeOK, NEW i \in Id, NEW row, rows' = Written(i, row)
  PROVE  /\ OthersStay(i)
         /\ rows[i].status # "absent" => rows'[i] = row
         /\ rows[i].status = "absent" => rows'[i] = rows[i]
  BY TypeFacts DEF OthersStay, Written, Present

\* A parked row only has another key.
LEMMA ParkEffect ==
  ASSUME TypeOK, KeyInv, NEW i \in Id, Park(i)
  PROVE  /\ pc = "park" /\ pc' = "park" /\ Applies(i) /\ i \notin Keeps
         /\ SameContent(rows'[i], rows[i]) /\ SameJudged(rows'[i], rows[i])
  <1> DEFINE key == IF i \in Matched THEN Rekeying(i) ELSE Superseded(i)
  <1>1. /\ pc = "park" /\ pc' = "park" /\ i \in todo
        /\ rows' = Written(i, [rows[i] EXCEPT !.key = key])
        /\ UNCHANGED <<edge, stamp, used, run, locals, acts, quiet, before>>
    BY Zenon DEF Park
  <1> HIDE DEF key
  <1>2. i \notin Keeps
    BY <1>1 DEF KeyInv
  <1>3. rows[i] \in Row
    BY TypeFacts
  <1>4. SameContent([rows[i] EXCEPT !.key = key], rows[i]) /\ SameJudged([rows[i] EXCEPT !.key = key], rows[i])
    BY <1>3 DEF SameContent, SameJudged, Row
  <1>5. SameContent(rows[i], rows[i]) /\ SameJudged(rows[i], rows[i])
    BY DEF SameContent, SameJudged
  <1>6. QED
    BY <1>1, <1>2, <1>4, <1>5, WrittenRow DEF Applies

\* A superseded row only has another status.
LEMMA SupersedeEffect ==
  ASSUME TypeOK, NEW i \in Id, Supersede(i)
  PROVE  /\ pc = "remove" /\ pc' = "remove" /\ i \in todo /\ todo' = todo \ {i} /\ Applies(i)
         /\ rows'[i].status # "active" /\ SameJudged(rows'[i], rows[i])
         /\ rows[i].status = "absent" => rows'[i].status = "absent"
  <1> DEFINE row == [rows[i] EXCEPT !.status = "superseded"]
  <1>1. /\ pc = "remove" /\ pc' = "remove" /\ i \in todo /\ todo' = todo \ {i} /\ rows' = Written(i, row)
        /\ UNCHANGED <<edge, stamp, used, run, locals, acts, quiet, before>>
    BY DEF Supersede
  <1>2. rows[i] \in Row
    BY TypeFacts
  <1>3. row.status = "superseded" /\ SameJudged(row, rows[i]) /\ SameJudged(rows[i], rows[i])
    BY <1>2 DEF SameJudged, Row
  <1> HIDE DEF row
  <1>4. QED
    BY <1>1, <1>3, WrittenRow DEF Applies

\* A linked row only has another parent id.
LEMMA LinkEffect ==
  ASSUME TypeOK, NEW i \in Id, Link(i)
  PROVE  /\ pc = "link" /\ pc' = "link" /\ i \in todo /\ todo' = todo \ {i} /\ Applies(i)
         /\ SameContent(rows'[i], rows[i]) /\ SameJudged(rows'[i], rows[i])
         /\ rows'[i].key = rows[i].key /\ rows'[i].order = rows[i].order
         /\ rows[i].status # "absent" => rows'[i].pid = IdOf(rows[i].parent)
  <1> DEFINE row == [rows[i] EXCEPT !.pid = IdOf(rows[i].parent)]
  <1>1. /\ pc = "link" /\ pc' = "link" /\ i \in todo /\ todo' = todo \ {i} /\ rows' = Written(i, row)
        /\ UNCHANGED <<edge, stamp, used, run, locals, acts, quiet, before>>
    BY DEF Link
  <1>2. rows[i] \in Row
    BY TypeFacts
  <1>3. /\ SameContent(row, rows[i]) /\ SameJudged(row, rows[i])
        /\ SameContent(rows[i], rows[i]) /\ SameJudged(rows[i], rows[i])
        /\ row.key = rows[i].key /\ row.order = rows[i].order /\ row.pid = IdOf(rows[i].parent)
    BY <1>2 DEF SameContent, SameJudged, Row
  <1> HIDE DEF row
  <1>4. QED
    BY <1>1, <1>3, WrittenRow DEF Applies

\* What the steps that place a node leave alone, and the way they go on.
LEMMA PlacedEffect ==
  ASSUME NEW n, NEW i, InTurn("write", n), Placed(n, i)
  PROVE  /\ pc = "write" /\ pc' = "write" /\ n \in todo /\ todo' = todo \ {n}
         /\ \A m \in todo : n <= m
         /\ UNCHANGED <<edge, stamp, run, prop, snap, match, prev, acts, quiet, before>>
         /\ DOMAIN kid' = DOMAIN kid \cup {prop.nodes[n].key}
         /\ kid'[prop.nodes[n].key] = i
         /\ \A k \in DOMAIN kid : k # prop.nodes[n].key => kid'[k] = kid[k]
  BY DEF Placed

\* A kept node's row gets its place.
LEMMA KeepEffect ==
  ASSUME TypeOK, NEW n \in DOMAIN prop.nodes, KeepNode(n), match[n] \in Id
  PROVE  LET i == match[n]
         IN /\ InTurn("write", n) /\ Placed(n, i) /\ used' = used /\ OthersStay(i)
            /\ Unchanged(snap[i], prop.nodes[n])
            /\ SameContent(rows'[i], rows[i]) /\ SameJudged(rows'[i], rows[i])
            /\ rows'[i].key = rows[i].key
            /\ rows[i].status # "absent" =>
                   rows'[i].order = n /\ rows'[i].pid = IdOf(prop.nodes[n].parent)
  <1> DEFINE i == match[n]
             row == [rows[i] EXCEPT !.order = n, !.pid = IdOf(prop.nodes[n].parent)]
  <1>1. /\ InTurn("write", n) /\ Placed(n, i) /\ used' = used /\ rows' = Written(i, row)
        /\ Unchanged(snap[i], prop.nodes[n])
    BY DEF KeepNode
  <1>2. rows[i] \in Row
    BY TypeFacts
  <1>3. ASSUME NEW q \in Row, NEW d
        PROVE  LET w == [q EXCEPT !.order = n, !.pid = d]
               IN /\ SameContent(w, q) /\ SameJudged(w, q) /\ SameContent(q, q) /\ SameJudged(q, q)
                  /\ w.key = q.key /\ w.order = n /\ w.pid = d
    BY DEF SameContent, SameJudged, Row
  <1>4. /\ SameContent(row, rows[i]) /\ SameJudged(row, rows[i])
        /\ SameContent(rows[i], rows[i]) /\ SameJudged(rows[i], rows[i])
        /\ row.key = rows[i].key /\ row.order = n /\ row.pid = IdOf(prop.nodes[n].parent)
    BY <1>2, <1>3
  <1>5. OthersStay(i) /\ (rows[i].status # "absent" => rows'[i] = row)
        /\ (rows[i].status = "absent" => rows'[i] = rows[i])
    <2> HIDE DEF row
    <2>1. QED
      BY <1>1, WrittenRow
  <1> HIDE DEF row, i
  <1>6. QED
    BY <1>1, <1>4, <1>5 DEF i

\* A changed node's row becomes it; the judgement stays if the text does.
LEMMA UpdateEffect ==
  ASSUME TypeOK, NEW n \in DOMAIN prop.nodes, UpdateNode(n), match[n] \in Id,
         rows[match[n]].status # "absent"
  PROVE  LET i == match[n]
             row == rows'[i]
             p == prop.nodes[n]
         IN /\ InTurn("write", n) /\ Placed(n, i) /\ used' = used /\ OthersStay(i)
            /\ row.status = rows[i].status /\ row.order = n /\ row.key = Plain(p.key)
            /\ row.parent = p.parent /\ row.title = p.title /\ row.pid = IdOf(p.parent)
            /\ i \notin ContentChanged => SameJudged(row, rows[i])
            /\ i \in ContentChanged =>
                  /\ row.text = p.text /\ row.mark = "none" /\ row.sum = "machine"
                  /\ row.prov = IF snap[i].prov = "none" THEN rows[i].prov ELSE "derived"
  <1> DEFINE i == match[n]
             p == prop.nodes[n]
             laid == Relaid(rows[i], n)
             row == IF i \in ContentChanged THEN Rewritten(laid, p.text, snap[i]) ELSE laid
  <1>1. InTurn("write", n) /\ Placed(n, i) /\ used' = used /\ rows' = Written(i, row)
    BY DEF UpdateNode
  <1>2. rows[i] \in Row
    BY TypeFacts
  <1>3. ASSUME NEW q \in Row
        PROVE  LET w == Relaid(q, n)
               IN /\ DOMAIN w = DOMAIN q /\ SameJudged(w, q)
                  /\ w.status = q.status /\ w.order = n /\ w.key = Plain(p.key)
                  /\ w.parent = p.parent /\ w.title = p.title /\ w.pid = IdOf(p.parent)
    BY DEF Relaid, SameJudged, Row
  <1>4. ASSUME NEW q, NEW old,
               DOMAIN q = {"status", "key", "parent", "pid", "order", "title", "text", "mark", "sum", "prov"}
        PROVE  LET w == Rewritten(q, p.text, old)
               IN /\ w.status = q.status /\ w.order = q.order /\ w.key = q.key
                  /\ w.parent = q.parent /\ w.title = q.title /\ w.pid = q.pid
                  /\ w.text = p.text /\ w.mark = "none" /\ w.sum = "machine"
                  /\ w.prov = IF old.prov = "none" THEN q.prov ELSE "derived"
    BY <1>4 DEF Rewritten
  <1>5. /\ laid.status = rows[i].status /\ laid.order = n /\ laid.key = Plain(p.key)
        /\ laid.parent = p.parent /\ laid.title = p.title /\ laid.pid = IdOf(p.parent)
        /\ SameJudged(laid, rows[i])
        /\ DOMAIN laid = {"status", "key", "parent", "pid", "order", "title", "text", "mark", "sum", "prov"}
    <2>1. DOMAIN rows[i] = {"status", "key", "parent", "pid", "order", "title", "text", "mark", "sum", "prov"}
      BY <1>2 DEF Row
    <2>2. QED
      BY <1>2, <1>3, <2>1
  <1> HIDE DEF laid
  <1>6. /\ row.status = rows[i].status /\ row.order = n /\ row.key = Plain(p.key)
        /\ row.parent = p.parent /\ row.title = p.title /\ row.pid = IdOf(p.parent)
        /\ i \notin ContentChanged => SameJudged(row, rows[i])
        /\ i \in ContentChanged =>
              /\ row.text = p.text /\ row.mark = "none" /\ row.sum = "machine"
              /\ row.prov = IF snap[i].prov = "none" THEN rows[i].prov ELSE "derived"
    <2>1. CASE i \in ContentChanged
      <3>1. row = Rewritten(laid, p.text, snap[i])
        BY <2>1
      <3>2. laid.prov = rows[i].prov
        BY <1>5 DEF SameJudged
      <3> HIDE DEF row
      <3>3. QED
        BY <1>4, <1>5, <2>1, <3>1, <3>2
    <2>2. CASE i \notin ContentChanged
      BY <1>5, <2>2
    <2>3. QED
      BY <2>1, <2>2
  <1>7. OthersStay(i) /\ rows'[i] = row
    <2> HIDE DEF row
    <2>1. QED
      BY <1>1, WrittenRow
  <1> HIDE DEF row, i, p
  <1>8. QED
    BY <1>1, <1>6, <1>7 DEF i, p

\* A new node's row.
LEMMA AddEffect ==
  ASSUME TypeOK, NEW n \in DOMAIN prop.nodes, AddNode(n)
  PROVE  LET i == used + 1
             row == rows'[i]
             p == prop.nodes[n]
         IN /\ InTurn("write", n) /\ Placed(n, i) /\ used' = used + 1 /\ OthersStay(i)
            /\ match[n] = 0 /\ i \in Id /\ i \in 1 .. used' /\ i \notin 1 .. used
            /\ row.status = "active" /\ row.order = n /\ row.key = Plain(p.key)
            /\ row.parent = p.parent /\ row.title = p.title /\ row.pid = IdOf(p.parent)
            /\ row.text = p.text /\ row.mark = "none" /\ row.sum = "machine" /\ row.prov = "none"
  <1> DEFINE row == NewRow(prop.nodes[n], n, IdOf(prop.nodes[n].parent))
  <1>1. /\ InTurn("write", n) /\ Placed(n, used + 1) /\ used' = used + 1 /\ match[n] = 0
        /\ used < MaxId /\ rows' = [rows EXCEPT ![used + 1] = row]
    BY DEF AddNode
  <1>2. used \in 0 .. MaxId
    BY DEF TypeOK
  <1>3. used + 1 \in Id /\ used + 1 \in 1 .. used' /\ used + 1 \notin 1 .. used
    BY <1>1, <1>2, BoundAssumption DEF Id
  <1>4. rows'[used + 1] = row /\ OthersStay(used + 1)
    <2> HIDE DEF row
    <2>1. QED
      BY <1>1, <1>3, TypeFacts DEF OthersStay
  <1>5. QED
    BY <1>1, <1>3, <1>4 DEF NewRow

\* Operators leave the layout; they judge the text there is.
LEMMA OperatorEffect ==
  ASSUME TypeOK, NEW i \in Id, Endorse(i) \/ Summarise(i)
  PROVE  /\ UNCHANGED <<edge, stamp, used, run, pc, locals, todo, quiet, before>>
         /\ quiet => pc = "idle"
         /\ OthersStay(i) /\ SameContent(rows'[i], rows[i]) /\ rows[i].status # "absent"
         /\ rows'[i].key = rows[i].key /\ rows'[i].order = rows[i].order /\ rows'[i].pid = rows[i].pid
         /\ rows'[i].mark = IF Endorse(i) THEN rows[i].text ELSE rows[i].mark
         /\ Endorse(i) => rows[i].mark # rows[i].text
         /\ \/ rows'[i].sum = rows[i].sum /\ rows'[i].prov = rows[i].prov
            \/ rows'[i].sum = "operator"
  <1>1. rows[i] \in Row
    BY TypeFacts
  <1>2. ASSUME NEW q \in Row
        PROVE  LET e == [q EXCEPT !.mark = q.text]
                   s == [q EXCEPT !.sum = "operator", !.prov = "operator"]
               IN /\ SameContent(e, q) /\ e.key = q.key /\ e.order = q.order /\ e.pid = q.pid
                  /\ e.mark = q.text /\ e.sum = q.sum /\ e.prov = q.prov
                  /\ SameContent(s, q) /\ s.key = q.key /\ s.order = q.order /\ s.pid = q.pid
                  /\ s.mark = q.mark /\ s.sum = "operator"
    BY DEF SameContent, Row
  <1>3. CASE Endorse(i)
    <2>1. /\ rows' = [rows EXCEPT ![i] = [rows[i] EXCEPT !.mark = rows[i].text]]
          /\ i \in Present(rows) /\ rows[i].mark # rows[i].text
          /\ UNCHANGED <<edge, stamp, used, run, pc, locals, todo, quiet, before>> /\ (quiet => pc = "idle")
      BY <1>3 DEF Endorse, Operate
    <2>2. rows'[i] = [rows[i] EXCEPT !.mark = rows[i].text] /\ OthersStay(i)
      BY <2>1, TypeFacts DEF OthersStay
    <2>3. QED
      BY <1>1, <1>2, <1>3, <2>1, <2>2 DEF Present
  <1>4. CASE Summarise(i) /\ ~Endorse(i)
    <2>1. /\ rows' = [rows EXCEPT ![i] = [rows[i] EXCEPT !.sum = "operator", !.prov = "operator"]]
          /\ i \in Present(rows)
          /\ UNCHANGED <<edge, stamp, used, run, pc, locals, todo, quiet, before>> /\ (quiet => pc = "idle")
      BY <1>4 DEF Summarise, Operate
    <2>2. rows'[i] = [rows[i] EXCEPT !.sum = "operator", !.prov = "operator"] /\ OthersStay(i)
      BY <2>1, TypeFacts DEF OthersStay
    <2>3. QED
      BY <1>1, <1>2, <1>4, <2>1, <2>2 DEF Present
  <1>5. QED
    BY <1>3, <1>4
-------------------------------------------------------------------------------
(* The diff stays what it was *)

\* Parents and relations are among the keys of the parse.
LEMMA ParseClosed ==
  ASSUME prop \in Proposals \cup {NoParse}
  PROVE  /\ \A n \in DOMAIN prop.nodes : prop.nodes[n].parent \in Keys(prop) \cup {0}
         /\ prop.rels \subseteq Keys(prop) \X Keys(prop)
         /\ 0 \notin Keys(prop)
  <1>1. 0 \notin Keys(prop)
    BY ParseType DEF Keys, Node
  <1>2. CASE prop \in Proposals
    <2>1. prop \in Proposals \cup {First}
      BY <1>2
    <2>2. QED
      BY <1>1, <2>1, ProposalAssumption
  <1>3. CASE prop = NoParse
    BY <1>1, <1>3 DEF NoParse
  <1>4. QED
    BY <1>2, <1>3

\* Once the rows were read, a rebuild goes on with what it read, until it is over.
LEMMA DiffKept ==
  ASSUME TypeOK, [Next]_vars, pc' \in Diffed, ~ReadExisting
  PROVE  /\ pc \in Diffed /\ UNCHANGED <<prop, snap, match>> /\ used \in Nat /\ used <= used'
         /\ UNCHANGED <<run, quiet, before>>
  <1>1. used \in Nat /\ used <= used + 1 /\ used <= used
    BY BoundAssumption DEF TypeOK
  <1>2. CASE \/ \E i \in Id : Park(i) \/ Supersede(i) \/ Link(i)
             \/ \E n \in DOMAIN prop.nodes : KeepNode(n) \/ UpdateNode(n) \/ AddNode(n)
             \/ ReadPrevious \/ WriteDocument \/ WriteTree
             \/ DropEdges \/ InsertEdges \/ InsertEdgesRaises \/ \E e \in Pair : FlagEdge(e)
    BY <1>1, <1>2 DEF Park, Supersede, Link, KeepNode, UpdateNode, AddNode, Placed, ReadPrevious,
       WriteDocument, WriteTree, WriteStamp, DropEdges, InsertEdges, InsertEdgesRaises, FlagEdge,
       Diffed, Applying
  <1>3. CASE EndLoop
    <2>1. pc' \in Diffed => pc \in {"park", "write", "remove", "link", "flag"}
      BY <1>3 DEF EndLoop, Diffed, Applying, Loop
    <2>2. QED
      BY <1>1, <1>3, <2>1 DEF EndLoop, Diffed, Applying
  <1>4. CASE OperatorNext \/ UNCHANGED vars
    BY <1>1, <1>4 DEF OperatorNext, Endorse, Summarise, AddReviewedEdge, Operate, vars
  <1>5. CASE \/ \E P \in Proposals : Begin(P)
             \/ RestoreDocument \/ RestoreTree \/ RestoreEdges
             \/ \E i \in Id : DeleteRow(i) \/ ParkForRestore(i) \/ ReplaceRow(i)
             \/ Return \/ Fail \/ Crash
    BY <1>5 DEF Begin, RestoreDocument, RestoreTree, RestoreEdges, DeleteRow, ParkForRestore,
       ReplaceRow, Return, Fail, Crash, Diffed, Applying
  <1>6. QED
    BY <1>2, <1>3, <1>4, <1>5 DEF Next, RebuildNext

\* What the diff says of rows.
LEMMA DiffSets ==
  ASSUME UNCHANGED <<prop, snap, match>>
  PROVE  Keeps' = Keeps /\ Matched' = Matched /\ Removed' = Removed /\ ContentChanged' = ContentChanged
  BY DEF Keeps, Matched, Removed, ContentChanged

\* DiffInv is kept.
LEMMA DiffStep ==
  ASSUME TypeOK, TypeOK', DiffInv, [Next]_vars
  PROVE  DiffInv'
  <1>1. CASE ReadExisting
    <2>1. /\ pc = "read" /\ snap' = rows /\ match' \in Matching(rows, prop.nodes)
          /\ UNCHANGED <<rows, used, prop>>
      BY <1>1 DEF ReadExisting
    <2>2. prop.nodes \in Seq(Node)
      BY ParseType DEF TypeOK
    <2>3. /\ Assigns(rows, prop.nodes, match')
          /\ \A i \in ActiveRows(rows), n \in DOMAIN prop.nodes :
               (/\ rows[i].text = prop.nodes[n].text
                /\ \A j \in ActiveRows(rows) : rows[j].text = rows[i].text => j = i
                /\ \A k \in DOMAIN prop.nodes : prop.nodes[k].text = prop.nodes[n].text => k = n)
               => match'[n] = i
      BY <2>1, <2>2, TypeFacts, MatchingAssigns
    <2>4. Present(snap') \subseteq 1 .. used'
      BY <2>1 DEF TypeOK
    <2>5. QED
      BY <2>1, <2>3, <2>4 DEF DiffInv
  <1>2. CASE ~ReadExisting /\ pc' \in Diffed
    <2>1. pc \in Diffed /\ UNCHANGED <<prop, snap, match>> /\ used \in Nat /\ used <= used'
      BY <1>2, DiffKept
    <2>2. Present(snap) \subseteq 1 .. used /\ used' \in Nat
      BY <2>1, BoundAssumption DEF DiffInv, TypeOK
    <2>3. Present(snap') \subseteq 1 .. used'
      BY <2>1, <2>2
    <2>4. QED
      BY <2>1, <2>3 DEF DiffInv
  <1>3. CASE pc' \notin Diffed
    BY <1>3 DEF DiffInv
  <1>4. QED
    BY <1>1, <1>2, <1>3
\* The row of a matched node that is to be written is as it was read.
LEMMA MatchedRow ==
  ASSUME TypeOK, DiffInv, KidInv, LayoutInv, NEW n \in DOMAIN prop.nodes,
         InTurn("write", n), match[n] # 0
  PROVE  /\ match[n] \in Id \ Kids /\ Untouched(match[n]) /\ snap[match[n]].status = "active"
         /\ rows[match[n]].status = "active" /\ match[n] \in Present(snap)
  <1>1. Assigns(snap, prop.nodes, match) /\ snap \in [Id -> Row]
    BY DEF DiffInv, Diffed, Applying, TypeOK
  <1>2. match[n] \in Id /\ snap[match[n]].status = "active"
    BY <1>1 DEF Assigns, ActiveRows
  <1>3. match[n] \in Present(snap)
    BY <1>2 DEF Present
  <1>4. n \notin Laid
    BY DEF Laid
  <1>5. ASSUME NEW m \in Laid, KidOf(m) = match[n] PROVE FALSE
    <2>1. m \in DOMAIN prop.nodes /\ m # n
      BY <1>4 DEF Laid
    <2>2. match[m] # match[n]
      BY <1>1, <2>1 DEF Assigns
    <2>3. QED
      BY <1>3, <1>5, <2>2 DEF KidInv, Laying
  <1>6. match[n] \notin Kids
    BY <1>5 DEF Kids
  <1>7. Untouched(match[n])
    BY <1>2, <1>6 DEF LayoutInv
  <1>8. QED
    BY <1>2, <1>3, <1>6, <1>7 DEF Untouched

\* The row of a node with another text is the only one of its match that is rewritten.
LEMMA MatchedText ==
  ASSUME TypeOK, DiffInv, pc \in Diffed, NEW n \in DOMAIN prop.nodes, match[n] # 0
  PROVE  match[n] \in ContentChanged <=> snap[match[n]].text # prop.nodes[n].text
  <1>1. Assigns(snap, prop.nodes, match)
    BY DEF DiffInv
  <1>2. DOMAIN match = DOMAIN prop.nodes
    BY <1>1 DEF Assigns
  <1>3. ASSUME match[n] \in ContentChanged PROVE snap[match[n]].text # prop.nodes[n].text
    <2>1. PICK m \in DOMAIN match : /\ match[m] # 0 /\ ~SameText(snap[match[m]], prop.nodes[m])
                                    /\ match[m] = match[n]
      BY <1>3 DEF ContentChanged
    <2>2. m = n
      BY <1>1, <1>2, <2>1 DEF Assigns
    <2>3. QED
      BY <2>1, <2>2 DEF SameText
  <1>4. ASSUME snap[match[n]].text # prop.nodes[n].text PROVE match[n] \in ContentChanged
    BY <1>2, <1>4 DEF ContentChanged, SameText
  <1>5. QED
    BY <1>3, <1>4

-------------------------------------------------------------------------------
(* Judgements *)

\* Rows that keep text, judgement and summary keep fitting.
LEMMA JudgedSame ==
  ASSUME JudgedInv, \A j \in Id : SameJudged(rows'[j], rows[j]), Present(rows') \subseteq Present(rows),
         prev' = prev, quiet' = quiet
  PROVE  JudgedInv'
  BY DEF JudgedInv, SameJudged, MarkFits, Present

\* One row is written.
LEMMA JudgedOne ==
  ASSUME TypeOK, JudgedInv, NEW i \in Id, OthersStay(i), prev' = prev, quiet' = quiet,
         i \in Present(rows') => MarkFits(rows'[i]),
         quiet => (rows'[i].prov = "operator" => rows'[i].sum = "operator")
  PROVE  JudgedInv'
  BY DEF JudgedInv, OthersStay, MarkFits, Present

\* JudgedInv of the first state.
LEMMA JudgedInit == Init => JudgedInv
  <1> SUFFICES ASSUME Init PROVE JudgedInv
    OBVIOUS
  <1>1. \A i \in Id : rows[i].mark = "none" /\ rows[i].prov = "none"
    BY DEF Init, NewRow, NoRow
  <1>2. \A i \in Id : prev.rows[i] = NoRow
    BY DEF Init, NoImage
  <1>3. QED
    BY <1>1, <1>2 DEF JudgedInv, MarkFits, NoRow, Present

\* JudgedInv is kept: a row that gets another text loses its judgement.
LEMMA JudgedStep ==
  ASSUME TypeOK, KeyInv, RestoreInv, DiffInv, KidInv, LayoutInv, JudgedInv, [Next]_vars
  PROVE  JudgedInv'
  <1> DEFINE Calm == UNCHANGED <<rows, prev, quiet>>
  <1>1. CASE Calm
    BY <1>1 DEF JudgedInv
  <1>2. CASE ReadPrevious
    <2>1. prev'.rows = rows /\ UNCHANGED <<rows, quiet>>
      BY <1>2 DEF ReadPrevious, PreviousRows
    <2>2. QED
      BY <2>1 DEF JudgedInv
  <1>3. ASSUME NEW i \in Id, Park(i) \/ Supersede(i) \/ Link(i) PROVE JudgedInv'
    <2>1. Applies(i) /\ SameJudged(rows'[i], rows[i])
      BY <1>3, ParkEffect, SupersedeEffect, LinkEffect
    <2>2. \A j \in Id : SameJudged(rows'[j], rows[j])
      BY <2>1 DEF Applies, OthersStay, SameJudged
    <2>3. Present(rows') = Present(rows)
      BY <1>3, TypeWrites DEF SameRows
    <2>4. QED
      BY <2>1, <2>2, <2>3, JudgedSame DEF Applies
  <1>4. ASSUME NEW n \in DOMAIN prop.nodes, KeepNode(n) PROVE JudgedInv'
    <2>1. InTurn("write", n) /\ match[n] # 0
      BY <1>4 DEF KeepNode
    <2>2. match[n] \in Id
      BY <2>1, MatchedRow
    <2> DEFINE i == match[n]
    <2>3. Placed(n, i) /\ OthersStay(i) /\ SameJudged(rows'[i], rows[i])
      BY <1>4, <2>2, KeepEffect
    <2>4. \A j \in Id : SameJudged(rows'[j], rows[j])
      BY <2>3 DEF OthersStay, SameJudged
    <2>5. Present(rows') = Present(rows)
      BY <1>4, TypeWrites DEF SameRows
    <2>6. UNCHANGED <<prev, quiet>>
      BY <2>3 DEF Placed
    <2>7. QED
      BY <2>4, <2>5, <2>6, JudgedSame
  <1>5. ASSUME NEW n \in DOMAIN prop.nodes, UpdateNode(n) PROVE JudgedInv'
    <2>1. InTurn("write", n) /\ match[n] # 0
      BY <1>5 DEF UpdateNode
    <2> DEFINE i == match[n]
    <2>2. i \in Id /\ Untouched(i) /\ rows[i].status = "active"
      BY <2>1, MatchedRow
    <2>3. /\ Placed(n, i) /\ OthersStay(i) /\ rows'[i].status = rows[i].status
          /\ i \notin ContentChanged => SameJudged(rows'[i], rows[i])
          /\ i \in ContentChanged =>
                /\ rows'[i].mark = "none"
                /\ rows'[i].prov = IF snap[i].prov = "none" THEN rows[i].prov ELSE "derived"
      BY <1>5, <2>2, UpdateEffect
    <2>4. UNCHANGED <<prev, quiet>>
      BY <2>3 DEF Placed
    <2>5. MarkFits(rows[i]) /\ (quiet => (rows[i].prov = "operator" => rows[i].sum = "operator"))
      BY <2>2 DEF JudgedInv, Present
    <2>6. quiet => rows[i].prov = snap[i].prov
      BY <2>2 DEF Untouched
    <2> HIDE DEF i
    <2>7. CASE i \in ContentChanged
      <3>1. MarkFits(rows'[i]) /\ (quiet => rows'[i].prov # "operator")
        BY <2>3, <2>6, <2>7 DEF MarkFits
      <3>2. QED
        BY <2>2, <2>3, <2>4, <3>1, JudgedOne
    <2>8. CASE i \notin ContentChanged
      <3>1. SameJudged(rows'[i], rows[i])
        BY <2>3, <2>8
      <3>2. MarkFits(rows'[i]) /\ (quiet => (rows'[i].prov = "operator" => rows'[i].sum = "operator"))
        BY <2>5, <3>1 DEF MarkFits, SameJudged
      <3>3. QED
        BY <2>2, <2>3, <2>4, <3>2, JudgedOne
    <2>9. QED
      BY <2>7, <2>8
  <1>6. ASSUME NEW n \in DOMAIN prop.nodes, AddNode(n) PROVE JudgedInv'
    <2> DEFINE i == used + 1
    <2>1. /\ Placed(n, i) /\ OthersStay(i) /\ i \in Id
          /\ rows'[i].mark = "none" /\ rows'[i].prov = "none"
      BY <1>6, AddEffect
    <2>2. UNCHANGED <<prev, quiet>>
      BY <2>1 DEF Placed
    <2> HIDE DEF i
    <2>3. MarkFits(rows'[i])
      BY <2>1 DEF MarkFits
    <2>4. QED
      BY <2>1, <2>2, <2>3, JudgedOne
  <1>7. ASSUME NEW i \in Id, DeleteRow(i) PROVE JudgedInv'
    <2>1. /\ OthersStay(i) /\ rows'[i] = NoRow /\ UNCHANGED <<prev, quiet>>
      BY <1>7, TypeFacts DEF DeleteRow, OthersStay
    <2>2. QED
      BY <2>1, JudgedOne DEF NoRow, MarkFits
  <1>8. ASSUME NEW i \in Id, ParkForRestore(i) PROVE JudgedInv'
    <2>1. rows[i] \in Row /\ SameRows
      BY <1>8, TypeFacts, TypeWrites
    <2>2. /\ rows' = Written(i, [rows[i] EXCEPT !.key = Restoring(i)])
          /\ UNCHANGED <<prev, quiet>>
      BY <1>8 DEF ParkForRestore
    <2>3. SameJudged([rows[i] EXCEPT !.key = Restoring(i)], rows[i]) /\ SameJudged(rows[i], rows[i])
      BY <2>1 DEF SameJudged, Row
    <2>4. \A j \in Id : SameJudged(rows'[j], rows[j])
      <3>1. OthersStay(i) /\ rows'[i] \in {rows[i], [rows[i] EXCEPT !.key = Restoring(i)]}
        BY <2>2, WrittenRow
      <3>2. QED
        BY <2>3, <3>1 DEF OthersStay, SameJudged
    <2>5. QED
      BY <2>1, <2>2, <2>4, JudgedSame DEF SameRows
  <1>9. ASSUME NEW i \in Id, ReplaceRow(i) PROVE JudgedInv'
    <2>1. /\ OthersStay(i) /\ rows'[i] = prev.rows[i] /\ UNCHANGED <<prev, quiet>>
      BY <1>9, TypeFacts DEF ReplaceRow, OthersStay
    <2>2. /\ i \in Present(rows') => MarkFits(rows'[i])
          /\ quiet => (rows'[i].prov = "operator" => rows'[i].sum = "operator")
      BY <2>1 DEF JudgedInv, Present
    <2>3. QED
      BY <2>1, <2>2, JudgedOne
  <1>10. CASE Return \/ Crash
    <2>1. prev' = NoImage /\ UNCHANGED <<rows, quiet>>
      BY <1>10 DEF Return, Crash, Forget
    <2>2. \A i \in Id : prev'.rows[i] = NoRow
      BY <2>1 DEF NoImage
    <2>3. QED
      BY <2>1, <2>2 DEF JudgedInv, NoRow, MarkFits, Present
  <1>11. ASSUME NEW i \in Id, Endorse(i) \/ Summarise(i) PROVE JudgedInv'
    <2>1. /\ OthersStay(i) /\ SameContent(rows'[i], rows[i]) /\ rows[i].status # "absent"
          /\ rows'[i].mark = IF Endorse(i) THEN rows[i].text ELSE rows[i].mark
          /\ \/ rows'[i].sum = rows[i].sum /\ rows'[i].prov = rows[i].prov
             \/ rows'[i].sum = "operator"
          /\ UNCHANGED <<prev, quiet>>
      BY <1>11, OperatorEffect
    <2>2. MarkFits(rows[i]) /\ (quiet => (rows[i].prov = "operator" => rows[i].sum = "operator"))
      BY <2>1 DEF JudgedInv, Present
    <2>3. MarkFits(rows'[i]) /\ (quiet => (rows'[i].prov = "operator" => rows'[i].sum = "operator"))
      BY <2>1, <2>2 DEF MarkFits, SameContent
    <2>4. QED
      BY <2>1, <2>3, JudgedOne
  <1>12. \/ ReadPrevious \/ Return \/ Crash \/ Calm
         \/ \E i \in Id : Park(i) \/ Supersede(i) \/ Link(i) \/ DeleteRow(i) \/ ParkForRestore(i) \/ ReplaceRow(i)
         \/ \E i \in Id : Endorse(i) \/ Summarise(i)
         \/ \E n \in DOMAIN prop.nodes : KeepNode(n) \/ UpdateNode(n) \/ AddNode(n)
    BY DEF Next, RebuildNext, OperatorNext, Begin, ReadExisting, WriteDocument, WriteTree, WriteStamp,
       DropEdges, InsertEdges, InsertEdgesRaises, FlagEdge, RestoreDocument, RestoreTree, RestoreEdges,
       EndLoop, Fail, AddReviewedEdge, Operate, vars
  <1>13. QED
    BY <1>1, <1>2, <1>3, <1>4, <1>5, <1>6, <1>7, <1>8, <1>9, <1>10, <1>11, <1>12
-------------------------------------------------------------------------------
(* What was there when the rebuild began *)

\* Where judgements stay on the rows that are not rewritten, FoundInv does.
LEMMA FoundSame ==
  ASSUME TypeOK, FoundInv, [Next]_vars, pc' \in Diffed, ~ReadExisting,
         \A i \in Present(before.rows) \ ContentChanged :
             before.rows[i].mark # "none" => rows'[i].mark = rows[i].mark
  PROVE  FoundInv'
  <1>1. pc \in Diffed /\ UNCHANGED <<prop, snap, match, before>>
    BY DiffKept
  <1>2. ContentChanged' = ContentChanged
    BY <1>1, DiffSets
  <1>3. pc' # "read"
    BY DEF Diffed, Applying
  <1>4. \A i \in Present(before.rows) \ ContentChanged :
            before.rows[i].mark # "none" => rows'[i].mark = before.rows[i].mark
    BY <1>1 DEF FoundInv
  <1>5. Present(before.rows)' = Present(before.rows)
    BY <1>1
  <1>6. QED
    BY <1>1, <1>2, <1>3, <1>4, <1>5 DEF FoundInv

\* FoundInv of the first state.
LEMMA FoundInit == Init => FoundInv
  BY DEF Init, FoundInv, Diffed, Applying

\* FoundInv is kept: a judgement that is there fits, so operators do not change it.
LEMMA FoundStep ==
  ASSUME TypeOK, KeyInv, RestoreInv, DiffInv, KidInv, LayoutInv, JudgedInv, FoundInv, [Next]_vars
  PROVE  FoundInv'
  <1>1. ASSUME NEW P \in Proposals, Begin(P) PROVE FoundInv'
    <2>1. pc' = "read" /\ before'.rows = rows /\ rows' = rows
      BY <1>1 DEF Begin
    <2>2. QED
      BY <2>1 DEF FoundInv, Diffed, Applying
  <1>2. CASE ReadExisting
    <2>1. pc = "read" /\ pc' = "previous" /\ snap' = rows /\ UNCHANGED <<rows, before>>
      BY <1>2 DEF ReadExisting
    <2>2. Present(before.rows) \subseteq Id
      BY DEF Present
    <2>3. QED
      BY <2>1, <2>2 DEF FoundInv
  <1>3. ASSUME NEW i \in Id, Endorse(i) \/ Summarise(i) PROVE FoundInv'
    <2>1. /\ OthersStay(i) /\ SameContent(rows'[i], rows[i]) /\ rows[i].status # "absent"
          /\ rows'[i].mark = IF Endorse(i) THEN rows[i].text ELSE rows[i].mark
          /\ Endorse(i) => rows[i].mark # rows[i].text
          /\ UNCHANGED <<pc, locals, before>>
      BY <1>3, OperatorEffect
    <2>2. MarkFits(rows[i])
      BY <2>1 DEF JudgedInv, Present
    <2>3. \A j \in Id : rows[j].mark # "none" => rows'[j].mark = rows[j].mark
      BY <2>1, <2>2 DEF OthersStay, MarkFits
    <2>4. \A j \in Id : rows'[j].status = rows[j].status /\ rows'[j].text = rows[j].text
      BY <2>1 DEF OthersStay, SameContent
    <2>5. ContentChanged' = ContentChanged /\ Present(before.rows) \subseteq Id
      BY <2>1, DiffSets DEF Present
    <2>6. Present(before.rows)' = Present(before.rows)
      BY <2>1
    <2>7. pc' = "read" => FoundInv'
      BY <2>1, <2>3, <2>4, <2>5, <2>6 DEF FoundInv, Diffed, Applying
    <2>8. pc' \in Diffed => FoundInv'
      BY <2>1, <2>3, <2>4, <2>5, <2>6 DEF FoundInv, Diffed, Applying
    <2>9. QED
      BY <2>7, <2>8 DEF FoundInv
  <1>4. ASSUME NEW i \in Id, Park(i) \/ Supersede(i) \/ Link(i) PROVE FoundInv'
    <2>1. Applies(i) /\ SameJudged(rows'[i], rows[i]) /\ pc' \in Diffed /\ pc # "read"
      BY <1>4, ParkEffect, SupersedeEffect, LinkEffect DEF Diffed, Applying
    <2>2. \A j \in Id : rows'[j].mark = rows[j].mark
      BY <2>1 DEF Applies, OthersStay, SameJudged
    <2>3. ~ReadExisting
      BY <2>1 DEF ReadExisting
    <2>4. QED
      BY <2>1, <2>2, <2>3, FoundSame DEF Present
  <1>5. ASSUME NEW n \in DOMAIN prop.nodes, KeepNode(n) \/ UpdateNode(n) PROVE FoundInv'
    <2>1. InTurn("write", n) /\ match[n] # 0
      BY <1>5 DEF KeepNode, UpdateNode
    <2>2. match[n] \in Id /\ rows[match[n]].status = "active"
      BY <2>1, MatchedRow
    <2> DEFINE i == match[n]
    <2>3. Placed(n, i) /\ OthersStay(i) /\ (i \notin ContentChanged => SameJudged(rows'[i], rows[i]))
      BY <1>5, <2>2, KeepEffect, UpdateEffect
    <2>4. \A j \in Id \ ContentChanged : rows'[j].mark = rows[j].mark
      BY <2>3 DEF OthersStay, SameJudged
    <2>5. pc' \in Diffed /\ ~ReadExisting
      BY <2>1, <2>3 DEF Placed, ReadExisting, Diffed, Applying
    <2>6. QED
      BY <2>4, <2>5, FoundSame DEF Present
  <1>6. ASSUME NEW n \in DOMAIN prop.nodes, AddNode(n) PROVE FoundInv'
    <2> DEFINE i == used + 1
    <2>1. /\ Placed(n, i) /\ OthersStay(i) /\ i \notin 1 .. used /\ InTurn("write", n)
      BY <1>6, AddEffect
    <2>2. Present(before.rows) \subseteq 1 .. used /\ Present(before.rows) \subseteq Id
      BY <2>1 DEF RestoreInv, Applying, TypeOK, Present
    <2> HIDE DEF i
    <2>3. \A j \in Present(before.rows) : rows'[j].mark = rows[j].mark
      BY <2>1, <2>2 DEF OthersStay
    <2>4. pc' \in Diffed /\ ~ReadExisting
      BY <2>1 DEF Placed, ReadExisting, Diffed, Applying
    <2>5. QED
      BY <2>3, <2>4, FoundSame
  <1>7. CASE \/ ReadPrevious \/ WriteDocument \/ WriteTree
             \/ DropEdges \/ InsertEdges \/ InsertEdgesRaises \/ EndLoop
             \/ \E e \in Pair : FlagEdge(e)
    <2>1. UNCHANGED rows /\ ~ReadExisting /\ pc' # "read"
      BY <1>7 DEF ReadPrevious, WriteDocument, WriteTree, WriteStamp, DropEdges, InsertEdges,
         InsertEdgesRaises, EndLoop, Loop, FlagEdge, ReadExisting
    <2>2. pc' \in Diffed => FoundInv'
      BY <2>1, FoundSame
    <2>3. QED
      BY <2>1, <2>2 DEF FoundInv
  <1>8. CASE \/ RestoreDocument \/ RestoreTree \/ RestoreEdges
             \/ \E i \in Id : DeleteRow(i) \/ ParkForRestore(i) \/ ReplaceRow(i)
             \/ Return \/ Fail \/ Crash
    <2>1. pc' \notin Diffed \cup {"read"}
      BY <1>8 DEF RestoreDocument, RestoreTree, RestoreEdges, DeleteRow, ParkForRestore, ReplaceRow,
         Return, Fail, Crash, Diffed, Applying
    <2>2. QED
      BY <2>1 DEF FoundInv
  <1>9. CASE UNCHANGED vars \/ \E i, j \in Id : AddReviewedEdge(i, j)
    <2>1. UNCHANGED <<rows, pc, locals, before>>
      BY <1>9 DEF vars, AddReviewedEdge, Operate
    <2>2. ContentChanged' = ContentChanged
      BY <2>1, DiffSets
    <2>3. QED
      BY <2>1, <2>2 DEF FoundInv
  <1>10. QED
    BY <1>1, <1>2, <1>3, <1>4, <1>5, <1>6, <1>7, <1>8, <1>9 DEF Next, RebuildNext, OperatorNext
-------------------------------------------------------------------------------
(* key_to_id *)

\* Steps with no node placed yet.
Unlaid == {"idle", "read", "previous", "document", "tree", "park"}

\* KidInv of the first state.
LEMMA KidInit == Init => KidInv
  BY DEF Init, KidInv, Laying

\* Where the nodes with a row stay the same, KidInv does.
LEMMA KidSame ==
  ASSUME KidInv, UNCHANGED <<used, before>>,
         pc' \in Laying => pc \in Laying /\ Laid' = Laid /\ UNCHANGED locals,
         pc' \in Unlaid => pc \in Unlaid /\ UNCHANGED kid,
         pc' = "write" => pc = "write" /\ todo' = todo
  PROVE  KidInv'
  <1>1. pc' \in Unlaid => DOMAIN kid' = {}
    BY DEF KidInv, Unlaid
  <1>2. CASE pc' \in Laying
    <2>1. pc \in Laying /\ Laid' = Laid /\ UNCHANGED locals
      BY <1>2
    <2>2. DOMAIN kid' = {prop'.nodes[n].key : n \in Laid'}
      BY <2>1 DEF KidInv
    <2>3. ASSUME NEW n \in Laid
          PROVE  /\ kid'[prop'.nodes[n].key] \in 1 .. used'
                 /\ match'[n] # 0 => kid'[prop'.nodes[n].key] = match'[n]
                 /\ match'[n] = 0 => kid'[prop'.nodes[n].key] \notin Present(snap') \cup Ends(before'.edge)
      BY <2>1 DEF KidInv, KidOf
    <2>4. \A m, n \in Laid : kid'[prop'.nodes[m].key] = kid'[prop'.nodes[n].key] => m = n
      BY <2>1 DEF KidInv, KidOf
    <2>5. pc' = "write" => /\ todo' \subseteq DOMAIN prop'.nodes
                           /\ \A n \in todo', m \in DOMAIN prop'.nodes : n <= m => m \in todo'
      BY <2>1 DEF KidInv
    <2>6. pc' \notin Unlaid
      BY <1>2 DEF Laying, Unlaid
    <2>7. QED
      BY <2>1, <2>2, <2>3, <2>4, <2>5, <2>6 DEF KidInv, Unlaid, KidOf
  <1>3. CASE pc' \notin Laying
    BY <1>1, <1>3 DEF KidInv, Laying, Unlaid
  <1>4. QED
    BY <1>2, <1>3

\* A node that is placed.
LEMMA LaidPlaced ==
  ASSUME TypeOK, KidInv, NEW n \in DOMAIN prop.nodes, NEW i, InTurn("write", n), Placed(n, i)
  PROVE  /\ Laid' = Laid \cup {n} /\ n \notin Laid /\ Laid \subseteq DOMAIN prop.nodes
         /\ \A m \in Laid : /\ prop.nodes[m].key # prop.nodes[n].key
                            /\ kid'[prop.nodes[m].key] = KidOf(m)
         /\ kid'[prop.nodes[n].key] = i
         /\ Kids' = Kids \cup {i}
  <1>1. /\ pc = "write" /\ pc' = "write" /\ n \in todo /\ todo' = todo \ {n}
        /\ prop' = prop /\ todo \subseteq DOMAIN prop.nodes
        /\ kid'[prop.nodes[n].key] = i
        /\ \A k \in DOMAIN kid : k # prop.nodes[n].key => kid'[k] = kid[k]
    BY PlacedEffect DEF KidInv
  <1>2. Laid' = Laid \cup {n} /\ n \notin Laid /\ Laid \subseteq DOMAIN prop.nodes
    BY <1>1 DEF Laid
  <1>3. DOMAIN kid = {prop.nodes[m].key : m \in Laid}
    BY <1>1 DEF KidInv, Laying
  <1>4. \A m \in Laid : prop.nodes[m].key # prop.nodes[n].key
    BY <1>2, ParseType DEF TypeOK
  <1>5. \A m \in Laid : kid'[prop.nodes[m].key] = KidOf(m)
    BY <1>1, <1>3, <1>4 DEF KidOf
  <1>6. Kids' = {kid'[prop.nodes[m].key] : m \in Laid \cup {n}}
    BY <1>1, <1>2 DEF Kids, KidOf
  <1>7. Kids' = Kids \cup {i}
    BY <1>1, <1>5, <1>6 DEF Kids
  <1>8. QED
    BY <1>1, <1>2, <1>4, <1>5, <1>7

\* Its row is one that no other node has.
LEMMA KidPlaced ==
  ASSUME TypeOK, KidInv, NEW n \in DOMAIN prop.nodes, NEW i, InTurn("write", n), Placed(n, i),
         used \in Nat, used' \in Nat, used <= used', i \in 1 .. used', i \notin Kids,
         match[n] # 0 => i = match[n],
         match[n] = 0 => i \notin Present(snap) \cup Ends(before.edge)
  PROVE  KidInv'
  <1>1. /\ pc = "write" /\ pc' = "write" /\ n \in todo /\ todo' = todo \ {n}
        /\ \A m \in todo : n <= m
        /\ UNCHANGED <<prop, snap, match, before>>
        /\ DOMAIN kid' = DOMAIN kid \cup {prop.nodes[n].key}
    BY PlacedEffect
  <1>2. /\ Laid' = Laid \cup {n} /\ Laid \subseteq DOMAIN prop.nodes
        /\ \A m \in Laid : kid'[prop.nodes[m].key] = KidOf(m)
        /\ kid'[prop.nodes[n].key] = i
    BY LaidPlaced
  <1>3. /\ DOMAIN kid = {prop.nodes[m].key : m \in Laid}
        /\ \A m \in Laid :
                /\ KidOf(m) \in 1 .. used
                /\ match[m] # 0 => KidOf(m) = match[m]
                /\ match[m] = 0 => KidOf(m) \notin Present(snap) \cup Ends(before.edge)
        /\ \A l, m \in Laid : KidOf(l) = KidOf(m) => l = m
        /\ todo \subseteq DOMAIN prop.nodes
        /\ \A l \in todo, m \in DOMAIN prop.nodes : l <= m => m \in todo
    BY <1>1 DEF KidInv, Laying
  <1>4. DOMAIN kid' = {prop'.nodes[m].key : m \in Laid'}
    BY <1>1, <1>2, <1>3
  <1>5. ASSUME NEW m \in Laid'
        PROVE  /\ kid'[prop'.nodes[m].key] \in 1 .. used'
               /\ match'[m] # 0 => kid'[prop'.nodes[m].key] = match'[m]
               /\ match'[m] = 0 => kid'[prop'.nodes[m].key] \notin Present(snap') \cup Ends(before'.edge)
    <2>1. CASE m = n
      BY <1>1, <1>2, <2>1
    <2>2. CASE m \in Laid
      <3>1. KidOf(m) \in 1 .. used'
        BY <1>3, <2>2
      <3>2. QED
        BY <1>1, <1>2, <1>3, <2>2, <3>1
    <2>3. QED
      BY <1>2, <2>1, <2>2
  <1>6. \A m \in Laid : KidOf(m) # i
    BY DEF Kids
  <1>7. \A l, m \in Laid' : kid'[prop'.nodes[l].key] = kid'[prop'.nodes[m].key] => l = m
    BY <1>1, <1>2, <1>3, <1>6
  <1>8. /\ todo' \subseteq DOMAIN prop'.nodes
        /\ \A l \in todo', m \in DOMAIN prop'.nodes : l <= m => m \in todo'
    <2>1. \A m \in DOMAIN prop.nodes : m \in Nat
      BY ParseType DEF TypeOK
    <2>2. \A l \in todo' : ~(l <= n)
      BY <1>1, <1>3, <2>1
    <2>3. QED
      BY <1>1, <1>3, <2>1, <2>2
  <1>9. QED
    BY <1>1, <1>4, <1>5, <1>7, <1>8 DEF KidInv, Laying, KidOf

\* KidInv is kept: a new row is one that was not there and that no edge ends at.
LEMMA KidStep ==
  ASSUME TypeOK, DiffInv, KidInv, LayoutInv, EdgeInv, [Next]_vars
  PROVE  KidInv'
  <1>1. ASSUME NEW n \in DOMAIN prop.nodes, KeepNode(n) \/ UpdateNode(n) PROVE KidInv'
    <2>1. InTurn("write", n) /\ match[n] # 0 /\ Placed(n, match[n]) /\ used' = used
      BY <1>1 DEF KeepNode, UpdateNode
    <2>2. match[n] \notin Kids /\ match[n] \in Present(snap)
      BY <2>1, MatchedRow
    <2>3. used \in Nat /\ match[n] \in 1 .. used
      BY <2>1, <2>2, BoundAssumption DEF DiffInv, Diffed, Applying, TypeOK
    <2>4. QED
      BY <2>1, <2>2, <2>3, KidPlaced
  <1>2. ASSUME NEW n \in DOMAIN prop.nodes, AddNode(n) PROVE KidInv'
    <2> DEFINE i == used + 1
    <2>1. /\ InTurn("write", n) /\ match[n] = 0 /\ Placed(n, i)
          /\ used' = used + 1 /\ i \in 1 .. used' /\ i \notin 1 .. used
      BY <1>2, AddEffect
    <2>2. used \in Nat /\ used' \in Nat /\ used <= used'
      BY <2>1, BoundAssumption DEF TypeOK
    <2>3. Kids \subseteq 1 .. used
      BY <2>1 DEF KidInv, Kids, Laying
    <2>4. Present(snap) \cup Ends(before.edge) \subseteq 1 .. used
      BY <2>1 DEF DiffInv, EdgeInv, Diffed, Applying
    <2> HIDE DEF i
    <2>5. QED
      BY <2>1, <2>2, <2>3, <2>4, KidPlaced
  <1>3. CASE EndLoop
    <2>1. UNCHANGED <<used, locals, before>> /\ todo = {}
      BY <1>3 DEF EndLoop
    <2>2. CASE At("park")
      <3>1. pc' = "write" /\ todo' = DOMAIN prop.nodes
        BY <1>3, <2>2 DEF EndLoop
      <3>2. Laid' = {} /\ DOMAIN kid' = {}
        BY <2>1, <2>2, <3>1 DEF Laid, KidInv
      <3>3. QED
        BY <2>1, <3>1, <3>2 DEF KidInv
    <2>3. CASE At("write")
      <3>1. pc' = "remove"
        BY <1>3, <2>3 DEF EndLoop
      <3>2. Laid' = Laid
        BY <2>1, <2>3, <3>1 DEF Laid
      <3>3. QED
        BY <2>1, <2>3, <3>1, <3>2, KidSame DEF Laying, Unlaid
    <2>4. CASE pc \in {"remove", "link", "flag"}
      <3>1. pc' \in {"link", "drop", "done"}
        BY <1>3, <2>4 DEF EndLoop
      <3>2. Laid' = Laid
        BY <2>1, <2>4, <3>1 DEF Laid
      <3>3. QED
        BY <2>1, <2>4, <3>1, <3>2, KidSame DEF Laying, Unlaid
    <2>5. CASE pc \in {"rdelete", "rpark", "rreplace"}
      <3>1. pc' \in {"rpark", "rreplace", "redges"}
        BY <1>3, <2>5 DEF EndLoop
      <3>2. QED
        BY <3>1 DEF KidInv, Laying
    <2>6. QED
      BY <1>3, <2>2, <2>3, <2>4, <2>5 DEF EndLoop, Loop
  <1>4. CASE \/ (\E P \in Proposals : Begin(P)) \/ ReadExisting \/ ReadPrevious
             \/ WriteDocument \/ WriteTree \/ \E i \in Id : Park(i)
    <2>1. pc \in Unlaid /\ pc' \in Unlaid /\ UNCHANGED kid
      BY <1>4 DEF Begin, ReadExisting, ReadPrevious, WriteDocument, WriteTree, WriteStamp, Park, Unlaid
    <2>2. QED
      BY <2>1 DEF KidInv, Unlaid, Laying
  <1>5. CASE \/ \E i \in Id : Supersede(i) \/ Link(i)
             \/ DropEdges \/ InsertEdges \/ \E e \in Pair : FlagEdge(e)
    <2>1. /\ pc \in Laying \ {"write"} /\ pc' \in Laying \ {"write"}
          /\ UNCHANGED <<used, locals, before>>
      BY <1>5 DEF Supersede, Link, DropEdges, InsertEdges, FlagEdge, Laying
    <2>2. Laid' = Laid /\ pc' \notin Unlaid
      BY <2>1 DEF Laid, Unlaid, Laying
    <2>3. QED
      BY <2>1, <2>2, KidSame
  <1>6. CASE \/ InsertEdgesRaises \/ Fail \/ RestoreDocument \/ RestoreTree \/ RestoreEdges
             \/ \E i \in Id : DeleteRow(i) \/ ParkForRestore(i) \/ ReplaceRow(i)
    <2>1. pc' \in RestoreStep \cup {"restored"}
      BY <1>6 DEF InsertEdgesRaises, Fail, RestoreDocument, RestoreTree, RestoreEdges, DeleteRow,
         ParkForRestore, ReplaceRow, RestoreStep
    <2>2. QED
      BY <2>1 DEF KidInv, Laying, RestoreStep
  <1>7. CASE Return \/ Crash
    <2>1. pc' = "idle" /\ DOMAIN kid' = {}
      BY <1>7 DEF Return, Crash, Forget
    <2>2. QED
      BY <2>1 DEF KidInv, Laying
  <1>8. CASE OperatorNext \/ UNCHANGED vars
    <2>1. UNCHANGED <<used, locals, before, pc, todo>>
      BY <1>8 DEF OperatorNext, Endorse, Summarise, AddReviewedEdge, Operate, vars
    <2>2. Laid' = Laid
      BY <2>1 DEF Laid
    <2>3. QED
      BY <2>1, <2>2, KidSame
  <1>9. QED
    BY <1>1, <1>2, <1>3, <1>4, <1>5, <1>6, <1>7, <1>8 DEF Next, RebuildNext
-------------------------------------------------------------------------------
(* Layout *)

\* Steps with a diff and no node placed yet.
Reading == {"previous", "document", "tree", "park"}

\* Ids of written nodes are ids.
LEMMA KidIds ==
  ASSUME TypeOK, KidInv, pc \in Laying
  PROVE  /\ \A n \in Laid : KidOf(n) \in Id
         /\ Kids \subseteq Id
  <1>1. used \in 0 .. MaxId
    BY DEF TypeOK
  <1>2. \A n \in Laid : KidOf(n) \in 1 .. used
    BY DEF KidInv
  <1>3. \A n \in Laid : KidOf(n) \in Id
    BY <1>1, <1>2, BoundAssumption DEF Id
  <1>4. QED
    BY <1>3 DEF Kids

\* Rows that are removed are no node's.
LEMMA RemovedNoKid ==
  ASSUME TypeOK, DiffInv, KidInv, pc \in Laying
  PROVE  Removed \cap Kids = {}
  <1>1. SUFFICES ASSUME NEW n \in Laid, KidOf(n) \in Removed PROVE FALSE
    BY DEF Kids
  <1>2. Assigns(snap, prop.nodes, match) /\ n \in DOMAIN prop.nodes
    BY DEF DiffInv, Diffed, Laying, Applying, Laid
  <1>3. KidOf(n) \in Present(snap)
    <2>1. snap \in [Id -> Row]
      BY DEF TypeOK
    <2>2. QED
      BY <1>1, <2>1 DEF Removed, ActiveRows, Present
  <1>4. match[n] # 0 /\ KidOf(n) = match[n]
    BY <1>3 DEF KidInv
  <1>5. match[n] \in Matched
    BY <1>2, <1>4 DEF Assigns, Matched
  <1>6. QED
    BY <1>1, <1>4, <1>5 DEF Removed

\* LayoutInv of the first state.
LEMMA LayoutInit == Init => LayoutInv
  BY DEF Init, LayoutInv, Laying

\* Where no row changes its place or content, LayoutInv stays.
LEMMA LayoutSame ==
  ASSUME TypeOK, KidInv, LayoutInv,
         \A j \in Id : /\ SameContent(rows'[j], rows[j])
                       /\ rows'[j].key = rows[j].key /\ rows'[j].order = rows[j].order
                       /\ rows'[j].pid = rows[j].pid
                       /\ quiet => rows'[j].prov = rows[j].prov,
         UNCHANGED <<prop, snap, match, kid, quiet>>,
         \/ UNCHANGED <<pc, todo>>
         \/ pc \in Reading /\ pc' \in Reading
         \/ pc \in {"drop", "insert", "flag"} /\ pc' \in {"drop", "insert", "flag", "done"}
  PROVE  LayoutInv'
  <1>1. /\ Keeps' = Keeps /\ Removed' = Removed
        /\ \A k : IdOf(k)' = IdOf(k)
    BY DiffSets DEF IdOf
  <1>2. ASSUME NEW j \in Id, Untouched(j)
        PROVE  /\ rows'[j].status = snap'[j].status /\ rows'[j].parent = snap'[j].parent
               /\ rows'[j].title = snap'[j].title /\ rows'[j].text = snap'[j].text
               /\ j \in Keeps' => rows'[j].key = snap'[j].key
               /\ quiet' => rows'[j].prov = snap'[j].prov
    BY <1>1, <1>2 DEF Untouched, SameContent
  <1>3. CASE pc \in Reading
    <2>1. pc' \in Reading /\ \A j \in Id : Untouched(j)
      BY <1>3 DEF LayoutInv, Reading
    <2>2. QED
      BY <1>2, <2>1 DEF LayoutInv, Reading, Laying, Untouched
  <1>4. CASE pc \in Laying
    <2>1. pc' \in Laying /\ Laid' = Laid
      BY <1>4 DEF Reading, Laying, Laid
    <2>2. Kids' = Kids
      BY <2>1 DEF Kids, KidOf
    <2>3. /\ \A n \in Laid : KidOf(n) \in Id
          /\ Kids \subseteq Id
      BY <1>4, KidIds
    <2>4. ASSUME NEW n \in Laid
          PROVE  LET row == rows'[kid'[prop'.nodes[n].key]]
                     p == prop'.nodes[n]
                 IN /\ row.status = "active" /\ row.order = n /\ row.key = Plain(p.key)
                    /\ row.parent = p.parent /\ row.title = p.title /\ row.text = p.text
      BY <1>4, <2>3 DEF LayoutInv, PlacedRow, KidOf, SameContent
    <2>5. ASSUME NEW n \in Laid
          PROVE  Orphan(n) \/ rows'[kid[prop.nodes[n].key]].pid = IdOf(prop.nodes[n].parent)
      BY <1>4, <2>3 DEF LayoutInv, KidOf
    <2>6. ASSUME NEW n \in Laid, Orphan(n)
          PROVE  \/ pc' \in {"write", "remove"} /\ ~Early(n)
                 \/ pc' = "link" /\ kid[prop.nodes[n].key] \in todo'
      BY <1>4, <2>6 DEF Orphan, KidOf, Reading
    <2>7. ASSUME NEW n \in Laid
          PROVE  \/ pc' \in {"write", "remove"} /\ ~Early(n)
                 \/ pc' = "link" /\ kid[prop.nodes[n].key] \in todo'
                 \/ rows'[kid[prop.nodes[n].key]].pid = IdOf(prop.nodes[n].parent)
      BY <2>5, <2>6
    <2>8. \A j \in Id \ Kids : rows'[j].text = snap'[j].text
      BY <1>4 DEF LayoutInv, SameContent
    <2>9. pc' = "write" => \A j \in Id \ Kids : Untouched(j)
      BY <1>4 DEF LayoutInv, Reading
    <2>10. pc' \in Laying \ {"write"} =>
          \A j \in Id \ Kids :
              /\ j \notin Removed => rows'[j].status = snap[j].status
              /\ j \in Removed /\ rows'[j].status = "active" => pc' = "remove" /\ j \in todo'
      BY <1>4 DEF LayoutInv, SameContent, Laying, Reading
    <2>11. /\ pc' = "remove" => todo' \subseteq Removed
           /\ pc' = "link" => todo' \subseteq Kids
      BY <1>4 DEF LayoutInv, Reading
    <2>12. pc' \notin Reading
      BY <2>1 DEF Laying, Reading
    <2>13. /\ \A n \in Laid' : PlacedRow(n)'
           /\ \A n \in Laid' : Orphan(n)' \/ rows'[kid'[prop'.nodes[n].key]].pid = IdOf(prop.nodes[n].parent)'
      <3>1. \A n : Early(n)' <=> Early(n)
        BY DEF Early
      <3>2. QED
        BY <1>1, <2>1, <2>4, <2>7, <3>1 DEF PlacedRow, Orphan, KidOf
    <2>14. QED
      BY <1>1, <1>2, <2>1, <2>2, <2>8, <2>9, <2>10, <2>11, <2>12, <2>13
      DEF LayoutInv, Reading, Untouched, KidOf
  <1>5. CASE pc \notin Reading \cup Laying
    BY <1>5 DEF LayoutInv, Reading, Laying
  <1>6. QED
    BY <1>3, <1>4, <1>5
\* The row of a node whose parent comes first has its parent's id from the start.
LEMMA EarlyParent ==
  ASSUME TypeOK, KidInv, NEW n \in DOMAIN prop.nodes, NEW i, InTurn("write", n), Placed(n, i),
         NEW m \in Laid \cup {n}, Early(m)
  PROVE  /\ prop.nodes[m].parent # prop.nodes[n].key
         /\ IdOf(prop.nodes[m].parent)' = IdOf(prop.nodes[m].parent)
  <1>1. /\ Laid \subseteq DOMAIN prop.nodes /\ n \notin Laid /\ prop' = prop
        /\ pc = "write" /\ n \in todo /\ \A l \in todo : n <= l
    BY LaidPlaced, PlacedEffect
  <1>2. \A l \in DOMAIN prop.nodes : l \in Nat /\ prop.nodes[l].key # 0
    BY ParseType DEF TypeOK, Node
  <1>3. \A l \in todo, k \in DOMAIN prop.nodes : l <= k => k \in todo
    BY <1>1 DEF KidInv
  <1>4. m \in DOMAIN prop.nodes /\ (m \in todo => m = n)
    BY <1>1 DEF Laid
  <1>5. prop.nodes[m].parent # prop.nodes[n].key
    <2>1. CASE prop.nodes[m].parent = 0
      BY <1>2, <2>1
    <2>2. ASSUME NEW l \in DOMAIN prop.nodes, l < m, prop.nodes[l].key = prop.nodes[m].parent
          PROVE  prop.nodes[m].parent # prop.nodes[n].key
      <3>1. l # n
        BY <1>1, <1>2, <1>3, <1>4, <2>2
      <3>2. QED
        BY <2>2, <3>1, ParseType DEF TypeOK
    <2>3. QED
      BY <2>1, <2>2 DEF Early
  <1>6. \A k : k # prop.nodes[n].key => IdOf(k)' = IdOf(k)
    BY IdOfPlaced
  <1>7. IdOf(prop.nodes[m].parent)' = IdOf(prop.nodes[m].parent)
    <2> DEFINE k == prop.nodes[m].parent
    <2>1. k # prop.nodes[n].key
      BY <1>5
    <2> HIDE DEF k
    <2>2. (IF k \in DOMAIN kid' THEN kid'[k] ELSE 0) = (IF k \in DOMAIN kid THEN kid[k] ELSE 0)
      BY <1>6, <2>1 DEF IdOf
    <2>3. QED
      BY <1>1, <2>2 DEF IdOf, k
  <1>8. QED
    BY <1>5, <1>7

\* Placing a node gives its row the node's place and content.
LEMMA LayoutPlaced ==
  ASSUME TypeOK, KidInv, LayoutInv, NEW n \in DOMAIN prop.nodes, NEW i \in Id \ Kids,
         InTurn("write", n), Placed(n, i), OthersStay(i),
         LET row == rows'[i]
             p == prop.nodes[n]
         IN /\ row.status = "active" /\ row.order = n /\ row.key = Plain(p.key)
            /\ row.parent = p.parent /\ row.title = p.title /\ row.text = p.text
            /\ row.pid = IdOf(p.parent)
  PROVE  LayoutInv'
  <1>1. /\ pc = "write" /\ pc' = "write" /\ UNCHANGED <<prop, snap, match, quiet>>
    BY PlacedEffect
  <1>2. /\ Laid' = Laid \cup {n} /\ n \notin Laid /\ Laid \subseteq DOMAIN prop.nodes
        /\ \A m \in Laid : kid'[prop.nodes[m].key] = KidOf(m)
        /\ kid'[prop.nodes[n].key] = i
        /\ Kids' = Kids \cup {i}
    BY LaidPlaced
  <1>3. Keeps' = Keeps
    BY <1>1, DiffSets
  <1>4. \A m \in Laid : KidOf(m) \in Id /\ KidOf(m) # i /\ rows'[KidOf(m)] = rows[KidOf(m)]
    BY <1>1, KidIds DEF Kids, Laying, OthersStay
  <1>5. ASSUME NEW m \in Laid'
        PROVE  LET row == rows'[kid'[prop'.nodes[m].key]]
                   p == prop'.nodes[m]
               IN /\ row.status = "active" /\ row.order = m /\ row.key = Plain(p.key)
                  /\ row.parent = p.parent /\ row.title = p.title /\ row.text = p.text
    <2>1. CASE m = n
      BY <1>1, <1>2, <2>1
    <2>2. CASE m \in Laid
      <3>1. PlacedRow(m)
        BY <1>1, <2>2 DEF LayoutInv, Laying
      <3>2. QED
        BY <1>1, <1>2, <1>4, <2>2, <3>1 DEF PlacedRow
    <2>3. QED
      BY <1>2, <2>1, <2>2
  <1>6. ASSUME NEW m \in Laid', Early(m)
        PROVE  rows'[kid'[prop'.nodes[m].key]].pid = IdOf(prop.nodes[m].parent)'
    <2>1. IdOf(prop.nodes[m].parent)' = IdOf(prop.nodes[m].parent)
      BY <1>2, <1>6, EarlyParent
    <2>2. CASE m = n
      BY <1>1, <1>2, <2>1, <2>2
    <2>3. CASE m \in Laid
      <3>1. rows[KidOf(m)].pid = IdOf(prop.nodes[m].parent)
        BY <1>1, <1>6, <2>3 DEF LayoutInv, Laying, Orphan
      <3>2. QED
        BY <1>1, <1>2, <1>4, <2>1, <2>3, <3>1
    <2>4. QED
      BY <1>2, <2>2, <2>3
  <1>7. ASSUME NEW j \in Id \ Kids'
        PROVE  /\ rows'[j].status = snap'[j].status /\ rows'[j].parent = snap'[j].parent
               /\ rows'[j].title = snap'[j].title /\ rows'[j].text = snap'[j].text
               /\ j \in Keeps' => rows'[j].key = snap'[j].key
               /\ quiet' => rows'[j].prov = snap'[j].prov
    <2>1. j \in Id \ Kids /\ rows'[j] = rows[j]
      BY <1>2 DEF OthersStay
    <2>2. Untouched(j)
      BY <1>1, <2>1 DEF LayoutInv
    <2>3. QED
      BY <1>1, <1>3, <2>1, <2>2 DEF Untouched
  <1>8. \A m \in Laid' : PlacedRow(m)'
    BY <1>5 DEF PlacedRow, KidOf
  <1>9. \A m \in Laid' : Orphan(m)' \/ rows'[kid'[prop'.nodes[m].key]].pid = IdOf(prop.nodes[m].parent)'
    <2>1. \A m : Early(m)' <=> Early(m)
      BY <1>1 DEF Early
    <2>2. QED
      BY <1>1, <1>6, <2>1 DEF Orphan
  <1>10. QED
    BY <1>1, <1>7, <1>8, <1>9 DEF LayoutInv, Laying, Untouched, KidOf

\* The nodes get their rows.
LEMMA LayoutNodes ==
  ASSUME TypeOK, DiffInv, KidInv, LayoutInv, NEW n \in DOMAIN prop.nodes,
         KeepNode(n) \/ UpdateNode(n) \/ AddNode(n)
  PROVE  LayoutInv'
  <1>1. CASE KeepNode(n)
    <2> DEFINE i == match[n]
               p == prop.nodes[n]
    <2>1. InTurn("write", n) /\ match[n] # 0
      BY <1>1 DEF KeepNode
    <2>2. i \in Id \ Kids /\ Untouched(i) /\ rows[i].status = "active" /\ snap[i].status = "active"
      BY <2>1, MatchedRow
    <2>3. /\ Placed(n, i) /\ OthersStay(i) /\ Unchanged(snap[i], p)
          /\ SameContent(rows'[i], rows[i]) /\ rows'[i].key = rows[i].key
          /\ rows'[i].order = n /\ rows'[i].pid = IdOf(p.parent)
      BY <1>1, <2>2, KeepEffect
    <2>4. i \in Keeps
      <3>1. DOMAIN match = DOMAIN prop.nodes
        BY <2>1 DEF DiffInv, Assigns, Diffed, Applying
      <3>2. snap[match[n]].key = Plain(prop.nodes[n].key)
        BY <2>3 DEF Unchanged, SamePlace
      <3>3. QED
        BY <2>1, <3>1, <3>2 DEF Keeps
    <2>5. /\ rows[i].key = snap[i].key /\ rows[i].parent = snap[i].parent
          /\ rows[i].title = snap[i].title /\ rows[i].text = snap[i].text
      BY <2>2, <2>4 DEF Untouched
    <2>6. /\ rows'[i].status = "active" /\ rows'[i].key = Plain(p.key) /\ rows'[i].parent = p.parent
          /\ rows'[i].title = p.title /\ rows'[i].text = p.text
      BY <2>2, <2>3, <2>5 DEF SameContent, Unchanged, SameText, SamePlace, SameTitle
    <2> HIDE DEF i
    <2>7. QED
      BY <2>1, <2>2, <2>3, <2>6, LayoutPlaced
  <1>2. CASE UpdateNode(n)
    <2> DEFINE i == match[n]
               p == prop.nodes[n]
    <2>1. InTurn("write", n) /\ match[n] # 0
      BY <1>2 DEF UpdateNode
    <2>2. i \in Id \ Kids /\ Untouched(i) /\ rows[i].status = "active"
      BY <2>1, MatchedRow
    <2>3. /\ Placed(n, i) /\ OthersStay(i) /\ rows'[i].status = rows[i].status /\ rows'[i].order = n
          /\ rows'[i].key = Plain(p.key) /\ rows'[i].parent = p.parent /\ rows'[i].title = p.title
          /\ rows'[i].pid = IdOf(p.parent)
          /\ i \notin ContentChanged => SameJudged(rows'[i], rows[i])
          /\ i \in ContentChanged => rows'[i].text = p.text
      BY <1>2, <2>2, UpdateEffect
    <2>4. i \in ContentChanged <=> snap[i].text # p.text
      BY <2>1, MatchedText DEF Diffed, Applying
    <2>5. rows'[i].text = p.text
      BY <2>2, <2>3, <2>4 DEF Untouched, SameJudged
    <2> HIDE DEF i
    <2>6. QED
      BY <2>1, <2>2, <2>3, <2>5, LayoutPlaced
  <1>3. CASE AddNode(n)
    <2> DEFINE i == used + 1
               p == prop.nodes[n]
    <2>1. /\ InTurn("write", n) /\ Placed(n, i) /\ OthersStay(i) /\ i \in Id /\ i \notin 1 .. used
          /\ rows'[i].status = "active" /\ rows'[i].order = n /\ rows'[i].key = Plain(p.key)
          /\ rows'[i].parent = p.parent /\ rows'[i].title = p.title /\ rows'[i].pid = IdOf(p.parent)
          /\ rows'[i].text = p.text
      BY <1>3, AddEffect
    <2>2. i \notin Kids
      BY <2>1 DEF KidInv, Kids, Laying
    <2> HIDE DEF i
    <2>3. QED
      BY <2>1, <2>2, LayoutPlaced
  <1>4. QED
    BY <1>1, <1>2, <1>3
\* Rows are removed.
LEMMA LayoutRemove ==
  ASSUME TypeOK, DiffInv, KidInv, LayoutInv, NEW i \in Id, Supersede(i)
  PROVE  LayoutInv'
  <1>1. /\ pc = "remove" /\ pc' = "remove" /\ i \in todo /\ todo' = todo \ {i} /\ OthersStay(i)
        /\ rows'[i].status # "active" /\ rows'[i].text = rows[i].text
        /\ UNCHANGED <<prop, snap, match, kid, quiet>>
    BY SupersedeEffect DEF Applies, SameJudged
  <1>2. Removed' = Removed /\ todo \subseteq Removed /\ Laid' = Laid
    BY <1>1, DiffSets DEF LayoutInv, Laid
  <1>3. Kids' = Kids /\ i \notin Kids
    BY <1>1, <1>2, RemovedNoKid DEF Kids, KidOf, Laying
  <1>4. \A n \in Laid : KidOf(n) \in Id /\ rows'[KidOf(n)] = rows[KidOf(n)]
    BY <1>1, <1>3, KidIds DEF Kids, Laying, OthersStay
  <1>5. ASSUME NEW n \in Laid
        PROVE  LET row == rows'[kid'[prop'.nodes[n].key]]
                   p == prop'.nodes[n]
               IN /\ row.status = "active" /\ row.order = n /\ row.key = Plain(p.key)
                  /\ row.parent = p.parent /\ row.title = p.title /\ row.text = p.text
                  /\ Early(n) => row.pid = IdOf(p.parent)
    BY <1>1, <1>4 DEF LayoutInv, Laying, PlacedRow, KidOf, Orphan
  <1>6. /\ \A n : Early(n)' <=> Early(n)
        /\ \A k : IdOf(k)' = IdOf(k)
    BY <1>1 DEF Early, IdOf
  <1>7. \A n \in Laid' : PlacedRow(n)'
    BY <1>2, <1>5 DEF PlacedRow, KidOf
  <1>8. \A n \in Laid' : Orphan(n)' \/ rows'[kid'[prop'.nodes[n].key]].pid = IdOf(prop.nodes[n].parent)'
    BY <1>1, <1>2, <1>5, <1>6 DEF Orphan
  <1>9. \A j \in Id \ Kids : rows'[j].text = snap'[j].text
    BY <1>1 DEF LayoutInv, Laying, OthersStay
  <1>10. \A j \in Id \ Kids :
            /\ j \notin Removed => rows'[j].status = snap'[j].status
            /\ j \in Removed /\ rows'[j].status = "active" => j \in todo'
    BY <1>1, <1>2 DEF LayoutInv, Laying, OthersStay
  <1>11. QED
    BY <1>1, <1>2, <1>3, <1>7, <1>8, <1>9, <1>10 DEF LayoutInv, Laying, KidOf

\* Parents are linked.
LEMMA LayoutLink ==
  ASSUME TypeOK, KidInv, LayoutInv, NEW i \in Id, Link(i)
  PROVE  LayoutInv'
  <1>1. /\ pc = "link" /\ pc' = "link" /\ i \in todo /\ todo' = todo \ {i} /\ OthersStay(i)
        /\ SameContent(rows'[i], rows[i]) /\ rows'[i].key = rows[i].key /\ rows'[i].order = rows[i].order
        /\ rows[i].status # "absent" => rows'[i].pid = IdOf(rows[i].parent)
        /\ UNCHANGED <<prop, snap, match, kid, quiet>>
    BY LinkEffect DEF Applies
  <1>2. Removed' = Removed /\ todo \subseteq Kids /\ Laid' = Laid
    BY <1>1, DiffSets DEF LayoutInv, Laid
  <1>3. Kids' = Kids
    BY <1>1, <1>2 DEF Kids, KidOf
  <1>4. \A n \in Laid : KidOf(n) \in Id
    BY <1>1, KidIds DEF Laying
  <1>5. ASSUME NEW n \in Laid
        PROVE  LET row == rows'[kid'[prop'.nodes[n].key]]
                   p == prop'.nodes[n]
               IN /\ row.status = "active" /\ row.order = n /\ row.key = Plain(p.key)
                  /\ row.parent = p.parent /\ row.title = p.title /\ row.text = p.text
                  /\ KidOf(n) \notin todo' => row.pid = IdOf(p.parent)
    <2>1. /\ PlacedRow(n) /\ KidOf(n) \in Id
          /\ KidOf(n) \notin todo => rows[KidOf(n)].pid = IdOf(prop.nodes[n].parent)
      BY <1>1, <1>4 DEF LayoutInv, Laying, Orphan
    <2>2. CASE KidOf(n) = i
      BY <1>1, <2>1, <2>2 DEF PlacedRow, KidOf, SameContent
    <2>3. CASE KidOf(n) # i
      <3>1. rows'[KidOf(n)] = rows[KidOf(n)]
        BY <1>1, <2>1, <2>3 DEF OthersStay
      <3>2. QED
        BY <1>1, <2>1, <2>3, <3>1 DEF PlacedRow, KidOf
    <2>4. QED
      BY <2>2, <2>3
  <1>6. \A k : IdOf(k)' = IdOf(k)
    BY <1>1 DEF IdOf
  <1>7. \A n \in Laid' : PlacedRow(n)'
    BY <1>2, <1>5 DEF PlacedRow, KidOf
  <1>8. \A n \in Laid' : Orphan(n)' \/ rows'[kid'[prop'.nodes[n].key]].pid = IdOf(prop.nodes[n].parent)'
    BY <1>1, <1>2, <1>5, <1>6 DEF Orphan, KidOf
  <1>9. \A j \in Id \ Kids : j # i /\ rows'[j] = rows[j]
    BY <1>1, <1>2 DEF OthersStay
  <1>10. \A j \in Id \ Kids :
            /\ rows'[j].text = snap'[j].text
            /\ j \notin Removed => rows'[j].status = snap'[j].status
            /\ j \in Removed => rows'[j].status # "active"
    BY <1>1, <1>9 DEF LayoutInv, Laying
  <1>11. QED
    BY <1>1, <1>2, <1>3, <1>7, <1>8, <1>10 DEF LayoutInv, Laying, KidOf

\* A node whose parent did not come first is among those whose parents are linked.
LEMMA LateIsPending ==
  ASSUME TypeOK, NEW n \in DOMAIN prop.nodes, ~Early(n)
  PROVE  KidOf(n) \in Pending
  <1>1. prop.nodes[n].parent \in Keys(prop)
    BY ParseClosed DEF TypeOK, Early
  <1>2. PICK l \in DOMAIN prop.nodes : prop.nodes[l].key = prop.nodes[n].parent
    BY <1>1 DEF Keys
  <1>3. n \in Nat /\ l \in Nat /\ ~(l < n)
    BY <1>2, ParseType DEF TypeOK, Early
  <1>4. n <= l
    BY <1>3
  <1>5. QED
    BY <1>2, <1>4 DEF Pending, KidOf

\* From one loop to the next.
LEMMA LayoutEndLoop ==
  ASSUME TypeOK, DiffInv, KidInv, LayoutInv, EndLoop
  PROVE  LayoutInv'
  <1>1. UNCHANGED <<rows, prop, snap, match, kid, quiet>> /\ todo = {}
    BY DEF EndLoop
  <1>2. Keeps' = Keeps /\ Removed' = Removed
    BY <1>1, DiffSets
  <1>3. CASE At("park")
    <2>1. pc' = "write" /\ todo' = DOMAIN prop.nodes
      BY <1>3 DEF EndLoop
    <2>2. Laid' = {}
      BY <1>1, <2>1 DEF Laid
    <2>3. Kids' = {}
      BY <2>2 DEF Kids
    <2>4. \A j \in Id : Untouched(j)'
      BY <1>1, <1>2, <1>3 DEF LayoutInv, Untouched
    <2>5. QED
      BY <1>1, <2>1, <2>2, <2>3, <2>4 DEF LayoutInv, Untouched
  <1>4. CASE At("write")
    <2>1. pc' = "remove" /\ todo' = Removed
      BY <1>4 DEF EndLoop
    <2>2. Laid' = Laid
      BY <1>1, <1>4, <2>1 DEF Laid
    <2>3. Kids' = Kids
      BY <1>1, <2>2 DEF Kids, KidOf
    <2>4. /\ \A n : Early(n)' <=> Early(n)
          /\ \A k : IdOf(k)' = IdOf(k)
      BY <1>1 DEF Early, IdOf
    <2>5. \A n \in Laid' : PlacedRow(n)'
      BY <1>1, <1>4, <2>2 DEF LayoutInv, Laying, PlacedRow, KidOf
    <2>6. \A n \in Laid : ~Early(n) \/ rows[kid[prop.nodes[n].key]].pid = IdOf(prop.nodes[n].parent)
      BY <1>4 DEF LayoutInv, Laying, Orphan, KidOf
    <2>7. \A n \in Laid' : Orphan(n)' \/ rows'[kid'[prop'.nodes[n].key]].pid = IdOf(prop.nodes[n].parent)'
      BY <1>1, <2>1, <2>2, <2>4, <2>6 DEF Orphan
    <2>8. \A j \in Id \ Kids : rows[j].text = snap[j].text /\ rows[j].status = snap[j].status
      BY <1>4 DEF LayoutInv, Untouched
    <2>9. QED
      BY <1>1, <1>2, <2>1, <2>3, <2>5, <2>7, <2>8 DEF LayoutInv, KidOf
  <1>5. CASE At("remove")
    <2>1. pc' = "link" /\ todo' = Pending
      BY <1>5 DEF EndLoop
    <2>2. Laid' = Laid /\ Laid = DOMAIN prop.nodes
      BY <1>1, <1>5, <2>1 DEF Laid
    <2>3. Kids' = Kids /\ Pending \subseteq Kids
      BY <1>1, <2>2 DEF Kids, KidOf, Pending
    <2>4. \A k : IdOf(k)' = IdOf(k)
      BY <1>1 DEF IdOf
    <2>5. \A n \in Laid' : PlacedRow(n)'
      BY <1>1, <1>5, <2>2 DEF LayoutInv, Laying, PlacedRow, KidOf
    <2>6. \A n \in Laid : KidOf(n) \in Pending \/ rows[kid[prop.nodes[n].key]].pid = IdOf(prop.nodes[n].parent)
      BY <1>5, <2>2, LateIsPending DEF LayoutInv, Laying, Orphan, KidOf
    <2>7. \A n \in Laid' : Orphan(n)' \/ rows'[kid'[prop'.nodes[n].key]].pid = IdOf(prop.nodes[n].parent)'
      BY <1>1, <2>1, <2>2, <2>4, <2>6 DEF Orphan, KidOf
    <2>8. \A j \in Id \ Kids : /\ rows[j].text = snap[j].text
                               /\ j \notin Removed => rows[j].status = snap[j].status
                               /\ j \in Removed => rows[j].status # "active"
      BY <1>1, <1>5 DEF LayoutInv, Laying
    <2>9. QED
      BY <1>1, <1>2, <2>1, <2>3, <2>5, <2>7, <2>8 DEF LayoutInv, KidOf
  <1>6. CASE At("link")
    <2>1. pc' = "drop"
      BY <1>6 DEF EndLoop
    <2>2. Laid' = Laid
      BY <1>1, <1>6, <2>1 DEF Laid
    <2>3. Kids' = Kids
      BY <1>1, <2>2 DEF Kids, KidOf
    <2>4. \A k : IdOf(k)' = IdOf(k)
      BY <1>1 DEF IdOf
    <2>5. \A n \in Laid' : PlacedRow(n)'
      BY <1>1, <1>6, <2>2 DEF LayoutInv, Laying, PlacedRow, KidOf
    <2>6. \A n \in Laid : rows[kid[prop.nodes[n].key]].pid = IdOf(prop.nodes[n].parent)
      BY <1>1, <1>6 DEF LayoutInv, Laying, Orphan, KidOf
    <2>7. \A n \in Laid' : rows'[kid'[prop'.nodes[n].key]].pid = IdOf(prop.nodes[n].parent)'
      BY <1>1, <2>2, <2>4, <2>6
    <2>8. \A j \in Id \ Kids : /\ rows[j].text = snap[j].text
                               /\ j \notin Removed => rows[j].status = snap[j].status
                               /\ j \in Removed => rows[j].status # "active"
      BY <1>1, <1>6 DEF LayoutInv, Laying
    <2>9. QED
      BY <1>1, <1>2, <2>1, <2>3, <2>5, <2>7, <2>8 DEF LayoutInv, KidOf
  <1>7. CASE At("flag")
    <2>1. pc' = "done"
      BY <1>7 DEF EndLoop
    <2>2. \A j \in Id : SameContent(rows'[j], rows[j])
      BY <1>1 DEF SameContent
    <2>3. QED
      BY <1>1, <1>7, <2>1, <2>2, LayoutSame
  <1>8. CASE pc \in {"rdelete", "rpark", "rreplace"}
    <2>1. pc' \in {"rpark", "rreplace", "redges"}
      BY <1>8 DEF EndLoop
    <2>2. QED
      BY <2>1 DEF LayoutInv, Laying
  <1>9. QED
    BY <1>3, <1>4, <1>5, <1>6, <1>7, <1>8 DEF EndLoop, Loop

\* LayoutInv is kept.
LEMMA LayoutStep ==
  ASSUME TypeOK, KeyInv, DiffInv, KidInv, LayoutInv, [Next]_vars
  PROVE  LayoutInv'
  <1>1. CASE ReadExisting
    <2>1. pc' = "previous" /\ snap' = rows /\ rows' = rows
      BY <1>1 DEF ReadExisting
    <2>2. QED
      BY <2>1 DEF LayoutInv, Untouched, Laying
  <1>2. CASE ReadPrevious \/ WriteDocument \/ WriteTree
    <2>1. pc \in Reading /\ pc' \in Reading /\ UNCHANGED <<rows, prop, snap, match, kid, quiet>>
      BY <1>2 DEF ReadPrevious, WriteDocument, WriteTree, WriteStamp, Reading
    <2>2. \A j \in Id : SameContent(rows'[j], rows[j])
      BY <2>1 DEF SameContent
    <2>3. QED
      BY <2>1, <2>2, LayoutSame
  <1>3. CASE DropEdges \/ InsertEdges \/ \E e \in Pair : FlagEdge(e)
    <2>1. /\ pc \in {"drop", "insert", "flag"} /\ pc' \in {"drop", "insert", "flag", "done"}
          /\ UNCHANGED <<rows, prop, snap, match, kid, quiet>>
      BY <1>3 DEF DropEdges, InsertEdges, FlagEdge
    <2>2. \A j \in Id : SameContent(rows'[j], rows[j])
      BY <2>1 DEF SameContent
    <2>3. QED
      BY <2>1, <2>2, LayoutSame
  <1>4. ASSUME NEW i \in Id, Park(i) PROVE LayoutInv'
    <2>1. /\ pc = "park" /\ pc' = "park" /\ OthersStay(i) /\ i \notin Keeps
          /\ SameContent(rows'[i], rows[i]) /\ SameJudged(rows'[i], rows[i])
          /\ UNCHANGED <<prop, snap, match, quiet>>
      BY <1>4, ParkEffect DEF Applies
    <2>2. Keeps' = Keeps
      BY <2>1, DiffSets
    <2>3. \A j \in Id : Untouched(j)'
      BY <2>1, <2>2 DEF LayoutInv, Untouched, OthersStay, SameContent, SameJudged
    <2>4. QED
      BY <2>1, <2>3 DEF LayoutInv, Laying, Untouched
  <1>5. ASSUME NEW i \in Id, Endorse(i) \/ Summarise(i) PROVE LayoutInv'
    <2>1. /\ OthersStay(i) /\ SameContent(rows'[i], rows[i])
          /\ rows'[i].key = rows[i].key /\ rows'[i].order = rows[i].order /\ rows'[i].pid = rows[i].pid
          /\ quiet => pc = "idle"
          /\ UNCHANGED <<prop, snap, match, kid, quiet, pc, todo>>
      BY <1>5, OperatorEffect
    <2>2. CASE pc = "idle"
      BY <2>1, <2>2 DEF LayoutInv, Laying
    <2>3. CASE pc # "idle"
      <3>1. \A j \in Id : /\ SameContent(rows'[j], rows[j])
                          /\ rows'[j].key = rows[j].key /\ rows'[j].order = rows[j].order
                          /\ rows'[j].pid = rows[j].pid
        BY <2>1 DEF OthersStay, SameContent
      <3>2. QED
        BY <2>1, <2>3, <3>1, LayoutSame
    <2>4. QED
      BY <2>2, <2>3
  <1>6. CASE UNCHANGED vars \/ \E i, j \in Id : AddReviewedEdge(i, j)
    <2>1. UNCHANGED <<rows, prop, snap, match, kid, quiet, pc, todo>>
      BY <1>6 DEF vars, AddReviewedEdge, Operate
    <2>2. \A j \in Id : SameContent(rows'[j], rows[j])
      BY <2>1 DEF SameContent
    <2>3. QED
      BY <2>1, <2>2, LayoutSame
  <1>7. CASE \/ (\E P \in Proposals : Begin(P)) \/ Return \/ Crash \/ Fail \/ InsertEdgesRaises
             \/ RestoreDocument \/ RestoreTree \/ RestoreEdges
             \/ \E i \in Id : DeleteRow(i) \/ ParkForRestore(i) \/ ReplaceRow(i)
    <2>1. pc' \in RestoreStep \cup {"idle", "read", "restored"}
      BY <1>7 DEF Begin, Return, Crash, Fail, InsertEdgesRaises, RestoreDocument, RestoreTree,
         RestoreEdges, DeleteRow, ParkForRestore, ReplaceRow, RestoreStep
    <2>2. QED
      BY <2>1 DEF LayoutInv, Laying, RestoreStep
  <1>8. QED
    BY <1>1, <1>2, <1>3, <1>4, <1>5, <1>6, <1>7, LayoutNodes, LayoutRemove, LayoutLink, LayoutEndLoop
    DEF Next, RebuildNext, OperatorNext
-------------------------------------------------------------------------------
(* Edges and epochs *)

\* The ends of edges, edge by edge.
LEMMA EndsIn ==
  ASSUME NEW es, NEW S
  PROVE  Ends(es) \subseteq S <=> \A e \in Reviewed(es) : e[1] \in S /\ e[2] \in S
  BY DEF Ends

\* Ends of edges are rows that there were.
LEMMA EndsStep ==
  ASSUME TypeOK, TypeOK', EdgeInv, [Next]_vars
  PROVE  Ends(edge') \cup Ends(prev'.edge) \cup Ends(before'.edge) \subseteq 1 .. used'
  <1>1. used \in Nat /\ used' \in Nat /\ used <= used'
    <2>1. used \in Nat /\ used' \in Nat /\ used <= used /\ used <= used + 1
      BY BoundAssumption DEF TypeOK
    <2>2. used' \in {used, used + 1}
      BY DEF Next, RebuildNext, Begin, ReadExisting, ReadPrevious, WriteDocument, WriteTree, WriteStamp,
         Park, Supersede, Link, KeepNode, UpdateNode, AddNode, DropEdges, InsertEdges, InsertEdgesRaises,
         FlagEdge, RestoreDocument, RestoreTree, DeleteRow, ParkForRestore, ReplaceRow, RestoreEdges,
         EndLoop, Return, Fail, Crash, OperatorNext, Endorse, Summarise, AddReviewedEdge, Operate, vars
    <2>3. QED
      BY <2>1, <2>2
  <1>2. /\ Ends(edge) \subseteq 1 .. used' /\ Ends(prev.edge) \subseteq 1 .. used'
        /\ Ends(before.edge) \subseteq 1 .. used'
    <2>1. 1 .. used \subseteq 1 .. used'
      BY <1>1
    <2>2. QED
      BY <2>1 DEF EdgeInv
  <1>3. Ends(NoImage.edge) = {}
    BY DEF Ends, Reviewed, NoImage, ReviewedStates
  <1>4. CASE /\ edge' \in {edge, prev.edge}
             /\ prev'.edge \in {edge, prev.edge, NoImage.edge}
             /\ before'.edge \in {edge, before.edge, NoImage.edge}
    BY <1>2, <1>3, <1>4
  <1>5. ASSUME UNCHANGED <<prev, before>>, \A e \in Reviewed(edge') : e[1] \in 1 .. used' /\ e[2] \in 1 .. used'
        PROVE  Ends(edge') \cup Ends(prev'.edge) \cup Ends(before'.edge) \subseteq 1 .. used'
    BY <1>2, <1>5, EndsIn
  <1>6. \A e \in Reviewed(edge) \cup Reviewed(prev.edge) : e[1] \in 1 .. used' /\ e[2] \in 1 .. used'
    BY <1>2, EndsIn
  <1>7. CASE DropEdges \/ InsertEdges \/ InsertEdgesRaises
    <2>1. \A e \in Pair : edge'[e] \in ReviewedStates => edge[e] \in ReviewedStates
      BY <1>7 DEF DropEdges, InsertEdges, InsertEdgesRaises, ReviewedStates
    <2>2. Reviewed(edge') \subseteq Reviewed(edge) /\ UNCHANGED <<prev, before>>
      BY <1>7, <2>1 DEF DropEdges, InsertEdges, InsertEdgesRaises, Reviewed
    <2>3. QED
      BY <1>5, <1>6, <2>2
  <1>8. ASSUME NEW e \in Pair, FlagEdge(e)
        PROVE  Ends(edge') \cup Ends(prev'.edge) \cup Ends(before'.edge) \subseteq 1 .. used'
    <2>1. e \in Reviewed(prev.edge) /\ UNCHANGED <<prev, before>> /\ edge' = [edge EXCEPT ![e] = Flagged(e)]
      BY <1>8 DEF FlagEdge, EdgeInv
    <2>2. \A f \in Reviewed(edge') : f = e \/ f \in Reviewed(edge)
      BY <2>1, TypeFacts DEF Reviewed
    <2>3. QED
      BY <1>5, <1>6, <2>1, <2>2
  <1>9. ASSUME NEW i \in Id, NEW j \in Id, AddReviewedEdge(i, j)
        PROVE  Ends(edge') \cup Ends(prev'.edge) \cup Ends(before'.edge) \subseteq 1 .. used'
    <2>1. /\ i \in Present(rows) /\ j \in Present(rows) /\ UNCHANGED <<prev, before, used>>
          /\ edge' = [edge EXCEPT ![<<i, j>>] = "reviewed"]
      BY <1>9 DEF AddReviewedEdge, Operate
    <2>2. i \in 1 .. used' /\ j \in 1 .. used'
      BY <2>1 DEF TypeOK
    <2>3. \A f \in Reviewed(edge') : f = <<i, j>> \/ f \in Reviewed(edge)
      BY <2>1, TypeFacts DEF Reviewed
    <2>4. \A f \in Reviewed(edge') : f[1] \in 1 .. used' /\ f[2] \in 1 .. used'
      BY <1>6, <2>2, <2>3
    <2>5. QED
      BY <1>5, <2>1, <2>4
  <1>10. \/ DropEdges \/ InsertEdges \/ InsertEdgesRaises
         \/ \E e \in Pair : FlagEdge(e)
         \/ \E i, j \in Id : AddReviewedEdge(i, j)
         \/ /\ edge' \in {edge, prev.edge}
            /\ prev'.edge \in {edge, prev.edge, NoImage.edge}
            /\ before'.edge \in {edge, before.edge, NoImage.edge}
    <2>1. CASE \/ \E P \in Proposals : Begin(P)
               \/ ReadExisting \/ ReadPrevious \/ Return \/ Crash
      BY <2>1 DEF Begin, ReadExisting, ReadPrevious, Return, Crash, Forget
    <2>2. CASE \/ WriteDocument \/ WriteTree \/ \E i \in Id : Park(i) \/ Supersede(i) \/ Link(i)
               \/ \E n \in DOMAIN prop.nodes : KeepNode(n) \/ UpdateNode(n) \/ AddNode(n)
               \/ RestoreDocument \/ RestoreTree
               \/ \E i \in Id : DeleteRow(i) \/ ParkForRestore(i) \/ ReplaceRow(i)
               \/ RestoreEdges \/ EndLoop \/ Fail
               \/ \E i \in Id : Endorse(i) \/ Summarise(i)
               \/ UNCHANGED vars
      BY <2>2 DEF WriteDocument, WriteTree, WriteStamp,
         Park, Supersede, Link, KeepNode, UpdateNode, AddNode, Placed, RestoreDocument, RestoreTree,
         DeleteRow, ParkForRestore, ReplaceRow, RestoreEdges, EndLoop, Fail,
         Endorse, Summarise, Operate, vars
    <2>3. QED
      BY <2>1, <2>2 DEF Next, RebuildNext, OperatorNext
  <1>11. QED
    BY <1>4, <1>7, <1>8, <1>9, <1>10

\* EdgeInv of the first state.
LEMMA EdgeInit == Init => EdgeInv
  <1> SUFFICES ASSUME Init PROVE EdgeInv
    OBVIOUS
  <1>1. Reviewed(edge) = {} /\ Reviewed(NoImage.edge) = {}
    BY DEF Init, Reviewed, NoImage, ReviewedStates
  <1>2. prev.edge = NoImage.edge /\ before.edge = NoImage.edge /\ pc = "idle"
    BY DEF Init
  <1>3. Ends(edge) \cup Ends(prev.edge) \cup Ends(before.edge) \subseteq 1 .. used
    BY <1>1, <1>2 DEF Ends
  <1>4. QED
    BY <1>2, <1>3 DEF EdgeInv, Applying

\* Where edges and epochs stay, EdgeInv does.
LEMMA EdgeSame ==
  ASSUME EdgeInv, UNCHANGED <<edge, stamp, run, prop, snap, match, prev, before>>,
         Ends(edge') \cup Ends(prev'.edge) \cup Ends(before'.edge) \subseteq 1 .. used',
         \/ UNCHANGED <<pc, todo, kid>>
         \/ /\ pc \in {"park", "write", "remove", "link"}
            /\ pc' \in {"park", "write", "remove", "link", "drop"}
  PROVE  EdgeInv'
  <1>1. Removed' = Removed /\ ContentChanged' = ContentChanged
    BY DiffSets
  <1>2. \A e : FlaggedWas(e)' = FlaggedWas(e)
    BY <1>1 DEF FlaggedWas
  <1>3. Reviewed(before.edge)' = Reviewed(before.edge) /\ Reviewed(prev.edge)' = Reviewed(prev.edge)
    OBVIOUS
  <1>4. CASE UNCHANGED <<pc, todo, kid>>
    BY <1>2, <1>3, <1>4 DEF EdgeInv
  <1>5. CASE /\ pc \in {"park", "write", "remove", "link"}
             /\ pc' \in {"park", "write", "remove", "link", "drop"}
    BY <1>3, <1>5 DEF EdgeInv, Applying
  <1>6. QED
    BY <1>4, <1>5
\* A flag is one of a reviewed edge.
LEMMA FlagType ==
  ASSUME NEW e \in Reviewed(before.edge)
  PROVE  /\ FlaggedWas(e) \in ReviewedStates /\ before.edge[e] \in ReviewedStates /\ e \in Pair
         /\ edge[e] = before.edge[e] => Flagged(e) = FlaggedWas(e)
  BY DEF FlaggedWas, Flagged, Reviewed, ReviewedStates

\* Edges are dropped, inserted and flagged.
LEMMA EdgeWriting ==
  ASSUME TypeOK, EdgeInv, Ends(edge') \cup Ends(prev'.edge) \cup Ends(before'.edge) \subseteq 1 .. used',
         DropEdges \/ InsertEdges \/ \E e \in Pair : FlagEdge(e)
  PROVE  EdgeInv'
  <1>1. UNCHANGED <<stamp, run, prop, snap, match, prev, kid, before>> /\ pc \in {"drop", "insert", "flag"}
    BY DEF DropEdges, InsertEdges, FlagEdge
  <1>2. stamp'.document = run' /\ stamp'.tree = run'
    BY <1>1 DEF EdgeInv, Applying
  <1>3. \A e \in Reviewed(before.edge) : prev.edge[e] = before.edge[e] /\ e \in Reviewed(prev.edge)
    BY <1>1, FlagType DEF EdgeInv, Applying, Reviewed
  <1>4. Removed' = Removed /\ ContentChanged' = ContentChanged
    BY <1>1, DiffSets
  <1>5. \A e : FlaggedWas(e)' = FlaggedWas(e)
    BY <1>1, <1>4 DEF FlaggedWas
  <1>6. Reviewed(before.edge)' = Reviewed(before.edge) /\ Reviewed(prev.edge)' = Reviewed(prev.edge)
    BY <1>1
  <1>7. CASE DropEdges
    <2>1. pc = "drop" /\ pc' = "insert" /\ edge' = [e \in Pair |-> IF edge[e] = "machine" THEN "none" ELSE edge[e]]
      BY <1>7 DEF DropEdges
    <2>2. \A e \in Reviewed(before.edge) : edge[e] = before.edge[e]
      BY <2>1 DEF EdgeInv, Applying
    <2>3. \A e \in Reviewed(before.edge) : edge'[e] = before.edge[e]
      BY <2>1, <2>2, FlagType DEF ReviewedStates
    <2>4. \A e \in Pair : edge'[e] # "machine"
      BY <2>1
    <2>5. QED
      BY <1>1, <1>2, <1>3, <1>6, <2>1, <2>3, <2>4 DEF EdgeInv, Applying
  <1>8. CASE InsertEdges
    <2>1. /\ pc = "insert" /\ pc' = "flag" /\ todo' = Reviewed(prev.edge)
          /\ edge' = [e \in Pair |-> IF e \in NewEdges THEN "machine" ELSE edge[e]]
      BY <1>8 DEF InsertEdges
    <2>2. \A e \in Reviewed(before.edge) : edge[e] = before.edge[e]
      BY <2>1 DEF EdgeInv, Applying
    <2>3. \A e \in Reviewed(before.edge) : edge'[e] = before.edge[e] /\ e \in todo'
      BY <1>3, <2>1, <2>2, FlagType DEF NewEdges
    <2>4. \A e \in Pair : edge'[e] = "machine" => \E r \in prop.rels : e = <<kid[r[1]], kid[r[2]]>>
      BY <2>1 DEF EdgeInv, NewEdges
    <2>5. QED
      BY <1>1, <1>2, <1>3, <1>6, <2>1, <2>3, <2>4 DEF EdgeInv, Applying
  <1>9. ASSUME NEW f \in Pair, FlagEdge(f) PROVE EdgeInv'
    <2>1. /\ pc = "flag" /\ pc' = "flag" /\ f \in todo /\ todo' = todo \ {f}
          /\ edge' = [edge EXCEPT ![f] = Flagged(f)]
      BY <1>9 DEF FlagEdge
    <2>2. \A e \in Pair : e # f => edge'[e] = edge[e]
      BY <2>1, TypeFacts
    <2>3. edge'[f] = Flagged(f)
      BY <2>1, TypeFacts
    <2>4. ASSUME NEW e \in Reviewed(before.edge)
          PROVE  /\ e \notin todo' \/ edge'[e] = before.edge[e]
                 /\ e \in todo' \/ edge'[e] = FlaggedWas(e)
      <3>1. e \notin todo \/ edge[e] = before.edge[e]
        BY <2>1 DEF EdgeInv, Applying
      <3>2. e \in todo \/ edge[e] = FlaggedWas(e)
        BY <2>1 DEF EdgeInv
      <3>3. CASE e = f
        BY <2>1, <2>3, <3>1, <3>3, FlagType
      <3>4. CASE e # f
        BY <2>1, <2>2, <3>1, <3>2, <3>4, FlagType
      <3>5. QED
        BY <3>3, <3>4
    <2>5. \A e \in Pair : edge'[e] = "machine" => \E r \in prop.rels : e = <<kid[r[1]], kid[r[2]]>>
      <3>1. \A e \in Pair : edge'[e] = "machine" => edge[e] = "machine"
        BY <2>2, <2>3 DEF Flagged
      <3>2. QED
        BY <2>1, <3>1 DEF EdgeInv
    <2>6. todo' \subseteq Reviewed(prev.edge)
      BY <2>1 DEF EdgeInv
    <2>7. QED
      BY <1>1, <1>2, <1>3, <1>5, <1>6, <2>1, <2>4, <2>5, <2>6 DEF EdgeInv, Applying
  <1>10. QED
    BY <1>7, <1>8, <1>9

\* An operator adds an edge where there is none.
LEMMA EdgeAdded ==
  ASSUME TypeOK, EdgeInv, Ends(edge') \cup Ends(prev'.edge) \cup Ends(before'.edge) \subseteq 1 .. used',
         NEW i \in Id, NEW j \in Id, AddReviewedEdge(i, j)
  PROVE  EdgeInv'
  <1>1. /\ UNCHANGED <<pc, todo, stamp, run, prop, snap, match, prev, kid, before>>
        /\ edge[<<i, j>>] = "none" /\ edge' = [edge EXCEPT ![<<i, j>>] = "reviewed"]
    BY DEF AddReviewedEdge, Operate
  <1>2. /\ \A e \in Pair : edge[e] # "none" => edge'[e] = edge[e]
        /\ \A e \in Pair : edge'[e] = "machine" => edge[e] = "machine"
    BY <1>1, TypeFacts
  <1>3. Removed' = Removed /\ ContentChanged' = ContentChanged
    BY <1>1, DiffSets
  <1>4. \A e : FlaggedWas(e)' = FlaggedWas(e)
    BY <1>1, <1>3 DEF FlaggedWas
  <1>5. Reviewed(before.edge)' = Reviewed(before.edge) /\ Reviewed(prev.edge)' = Reviewed(prev.edge)
    BY <1>1
  <1>6. \A e \in Reviewed(before.edge) :
            /\ edge[e] = before.edge[e] => edge'[e] = before.edge[e]
            /\ edge[e] = FlaggedWas(e) => edge'[e] = FlaggedWas(e)
    BY <1>2, FlagType DEF ReviewedStates
  <1>7. QED
    BY <1>1, <1>2, <1>4, <1>5, <1>6 DEF EdgeInv

\* EdgeInv is kept: relations never replace an edge that was reviewed.
LEMMA EdgeStep ==
  ASSUME TypeOK, TypeOK', EdgeInv, [Next]_vars
  PROVE  EdgeInv'
  <1>1. Ends(edge') \cup Ends(prev'.edge) \cup Ends(before'.edge) \subseteq 1 .. used'
    BY EndsStep
  <1>2. ASSUME NEW P \in Proposals, Begin(P) PROVE EdgeInv'
    <2>1. pc' = "read" /\ before'.edge = edge /\ edge' = edge
      BY <1>2 DEF Begin
    <2>2. QED
      BY <1>1, <2>1 DEF EdgeInv, Applying
  <1>3. CASE ReadExisting
    <2>1. pc = "read" /\ pc' = "previous" /\ UNCHANGED <<edge, before>>
      BY <1>3 DEF ReadExisting
    <2>2. QED
      BY <1>1, <2>1 DEF EdgeInv, Applying
  <1>4. CASE ReadPrevious
    <2>1. pc = "previous" /\ pc' = "document" /\ prev'.edge = edge /\ UNCHANGED <<edge, before>>
      BY <1>4 DEF ReadPrevious
    <2>2. QED
      BY <1>1, <2>1 DEF EdgeInv, Applying
  <1>5. CASE WriteDocument
    <2>1. /\ pc = "document" /\ pc' = "tree" /\ stamp' = [stamp EXCEPT !.document = run]
          /\ UNCHANGED <<edge, run, prev, before>>
      BY <1>5 DEF WriteDocument, WriteStamp
    <2>2. stamp'.document = run'
      BY <2>1, TypeFacts
    <2>3. QED
      BY <1>1, <2>1, <2>2 DEF EdgeInv, Applying
  <1>6. CASE WriteTree
    <2>1. /\ pc = "tree" /\ pc' = "park" /\ stamp' = [stamp EXCEPT !.tree = run]
          /\ UNCHANGED <<edge, run, prev, before>>
      BY <1>6 DEF WriteTree, WriteStamp
    <2>2. stamp'.tree = run' /\ stamp'.document = stamp.document
      BY <2>1, TypeFacts
    <2>3. QED
      BY <1>1, <2>1, <2>2 DEF EdgeInv, Applying
  <1>7. CASE \/ \E i \in Id : Park(i) \/ Supersede(i) \/ Link(i)
             \/ \E n \in DOMAIN prop.nodes : KeepNode(n) \/ UpdateNode(n) \/ AddNode(n)
    <2>1. /\ UNCHANGED <<edge, stamp, run, prop, snap, match, prev, before>>
          /\ pc \in {"park", "write", "remove", "link"} /\ pc' = pc
      BY <1>7 DEF Park, Supersede, Link, KeepNode, UpdateNode, AddNode, Placed
    <2>2. QED
      BY <1>1, <2>1, EdgeSame
  <1>8. CASE EndLoop
    <2>1. UNCHANGED <<edge, stamp, run, prop, snap, match, prev, kid, before>> /\ todo = {}
      BY <1>8 DEF EndLoop
    <2>2. CASE pc \in {"park", "write", "remove", "link"}
      <3>1. pc' \in {"write", "remove", "link", "drop"}
        BY <1>8, <2>2 DEF EndLoop
      <3>2. QED
        BY <1>1, <2>1, <2>2, <3>1, EdgeSame
    <2>3. CASE At("flag")
      <3>1. pc' = "done"
        BY <1>8, <2>3 DEF EndLoop
      <3>2. Removed' = Removed /\ ContentChanged' = ContentChanged
        BY <2>1, DiffSets
      <3>3. \A e : FlaggedWas(e)' = FlaggedWas(e)
        BY <2>1, <3>2 DEF FlaggedWas
      <3>4. Reviewed(before.edge)' = Reviewed(before.edge)
        BY <2>1
      <3>5. QED
        BY <1>1, <2>1, <2>3, <3>1, <3>3, <3>4 DEF EdgeInv, Applying
    <2>4. CASE pc \in {"rdelete", "rpark", "rreplace"}
      <3>1. pc' \in {"rpark", "rreplace", "redges"}
        BY <1>8, <2>4 DEF EndLoop
      <3>2. QED
        BY <1>1, <3>1 DEF EdgeInv, Applying
    <2>5. QED
      BY <1>8, <2>2, <2>3, <2>4 DEF EndLoop, Loop
  <1>9. CASE \/ Return \/ Crash \/ Fail \/ InsertEdgesRaises
             \/ RestoreDocument \/ RestoreTree \/ RestoreEdges
             \/ \E i \in Id : DeleteRow(i) \/ ParkForRestore(i) \/ ReplaceRow(i)
    <2>1. pc' \in RestoreStep \cup {"idle", "restored"}
      BY <1>9 DEF Return, Crash, Fail, InsertEdgesRaises, RestoreDocument, RestoreTree,
         RestoreEdges, DeleteRow, ParkForRestore, ReplaceRow, RestoreStep
    <2>2. QED
      BY <1>1, <2>1 DEF EdgeInv, Applying, RestoreStep
  <1>10. CASE UNCHANGED vars \/ \E i \in Id : Endorse(i) \/ Summarise(i)
    <2>1. UNCHANGED <<edge, stamp, run, prop, snap, match, prev, before, pc, todo, kid>>
      BY <1>10 DEF vars, Endorse, Summarise, Operate
    <2>2. QED
      BY <1>1, <2>1, EdgeSame
  <1>11. QED
    BY <1>1, <1>2, <1>3, <1>4, <1>5, <1>6, <1>7, <1>8, <1>9, <1>10, EdgeWriting, EdgeAdded
    DEF Next, RebuildNext, OperatorNext
-------------------------------------------------------------------------------
(* A rebuild that returned is right *)

\* The parts of the invariant of a rebuild's work.
MakingInv == DiffInv /\ JudgedInv /\ FoundInv /\ KidInv /\ LayoutInv /\ EdgeInv

\* The parts of MakingInv hold together: the diff and key_to_id say where rows are,
\* the layout which ones are rewritten, and these which judgements are lost.
LEMMA MakingInvHolds == Spec => [](RebuildInv /\ MakingInv)
  <1>1. Init => MakingInv
    <2>1. Init => DiffInv
      BY DEF Init, DiffInv, Diffed, Applying
    <2>2. QED
      BY <2>1, JudgedInit, FoundInit, KidInit, LayoutInit, EdgeInit DEF MakingInv
  <1>2. RebuildInv /\ RebuildInv' /\ MakingInv /\ [Next]_vars => MakingInv'
    <2> SUFFICES ASSUME RebuildInv, RebuildInv', MakingInv, [Next]_vars PROVE MakingInv'
      OBVIOUS
    <2>1. TypeOK /\ TypeOK' /\ KeyInv /\ RestoreInv
      BY DEF RebuildInv
    <2>2. DiffInv /\ JudgedInv /\ FoundInv /\ KidInv /\ LayoutInv /\ EdgeInv
      BY DEF MakingInv
    <2>3. DiffInv' /\ JudgedInv' /\ FoundInv'
      BY <2>1, <2>2, DiffStep, JudgedStep, FoundStep
    <2>4. KidInv' /\ LayoutInv' /\ EdgeInv'
      BY <2>1, <2>2, KidStep, LayoutStep, EdgeStep
    <2>5. QED
      BY <2>3, <2>4 DEF MakingInv
  <1>3. QED
    BY <1>1, <1>2, RebuildInvHolds, PTL DEF Spec

\* At the end the active rows are those of the nodes.
LEMMA ActiveAreKids ==
  ASSUME TypeOK, DiffInv, KidInv, LayoutInv, At("done")
  PROVE  /\ Laid = DOMAIN prop.nodes /\ ActiveRows(rows) = Kids
         /\ \A n \in DOMAIN prop.nodes :
               /\ KidOf(n) \in ActiveRows(rows) /\ PlacedRow(n)
               /\ rows[KidOf(n)].pid = IdOf(prop.nodes[n].parent)
         /\ \A i \in ActiveRows(rows), n \in DOMAIN prop.nodes : rows[i].order = n => i = KidOf(n)
         /\ DOMAIN kid = Keys(prop)
  <1>1. Laid = DOMAIN prop.nodes
    BY DEF Laid
  <1>2. /\ \A n \in Laid : PlacedRow(n)
        /\ \A n \in Laid : rows[KidOf(n)].pid = IdOf(prop.nodes[n].parent)
    BY DEF LayoutInv, Laying, Orphan
  <1>3. Kids \subseteq Id /\ \A n \in Laid : KidOf(n) \in Id
    BY KidIds DEF Laying
  <1>4. DOMAIN rows = Id /\ DOMAIN snap = Id
    BY TypeFacts DEF TypeOK
  <1>5. Kids \subseteq ActiveRows(rows) /\ \A n \in Laid : KidOf(n) \in ActiveRows(rows)
    BY <1>2, <1>3, <1>4 DEF Kids, ActiveRows, PlacedRow
  <1>6. Matched \subseteq Kids
    <2>1. DOMAIN match = Laid
      BY <1>1 DEF DiffInv, Diffed, Assigns
    <2>2. \A n \in Laid : match[n] # 0 => KidOf(n) = match[n]
      BY DEF KidInv, Laying
    <2>3. QED
      BY <2>1, <2>2 DEF Matched, Kids
  <1>7. ASSUME NEW i \in ActiveRows(rows), i \notin Kids PROVE FALSE
    <2>1. i \in Id /\ rows[i].status = "active"
      BY <1>4, <1>7 DEF ActiveRows
    <2>2. i \notin Removed /\ snap[i].status = "active"
      BY <1>7, <2>1 DEF LayoutInv, Laying
    <2>3. i \in Removed
      BY <1>4, <1>6, <1>7, <2>1, <2>2 DEF Removed, ActiveRows
    <2>4. QED
      BY <2>2, <2>3
  <1>8. ActiveRows(rows) = Kids
    BY <1>5, <1>7
  <1>9. ASSUME NEW i \in ActiveRows(rows), NEW n \in DOMAIN prop.nodes, rows[i].order = n
        PROVE  i = KidOf(n)
    <2>1. PICK m \in Laid : i = KidOf(m)
      BY <1>8 DEF Kids
    <2>2. rows[i].order = m
      BY <1>2, <2>1 DEF PlacedRow
    <2>3. QED
      BY <1>9, <2>1, <2>2
  <1>10. DOMAIN kid = Keys(prop)
    BY <1>1 DEF KidInv, Laying, Keys
  <1>11. QED
    BY <1>1, <1>2, <1>5, <1>8, <1>9, <1>10

\* The layout is the parse, with the parse's relations.
LEMMA LayoutRight ==
  ASSUME TypeOK, DiffInv, KidInv, LayoutInv, EdgeInv
  PROVE  LayoutIsProposal
  <1>1. SUFFICES ASSUME At("done")
                 PROVE  /\ Cardinality(ActiveRows(rows)) = Len(prop.nodes)
                        /\ \A n \in DOMAIN prop.nodes :
                              /\ \E i \in ActiveRows(rows) : rows[i].order = n
                              /\ Unchanged(rows[RowAt(n)], prop.nodes[n])
                              /\ rows[RowAt(n)].pid =
                                    IF prop.nodes[n].parent = 0 THEN 0
                                    ELSE RowAt(IdOfKey(prop, prop.nodes[n].parent))
                        /\ \A e \in Pair : edge[e] = "machine" =>
                              \E r \in prop.rels : /\ rows[e[1]].key = Plain(r[1])
                                                  /\ rows[e[2]].key = Plain(r[2])
                        /\ stamp = [document |-> run, tree |-> run]
    BY DEF LayoutIsProposal
  <1>2. /\ Laid = DOMAIN prop.nodes /\ ActiveRows(rows) = Kids
        /\ \A n \in DOMAIN prop.nodes :
               /\ KidOf(n) \in ActiveRows(rows) /\ PlacedRow(n)
               /\ rows[KidOf(n)].pid = IdOf(prop.nodes[n].parent)
        /\ \A i \in ActiveRows(rows), n \in DOMAIN prop.nodes : rows[i].order = n => i = KidOf(n)
        /\ DOMAIN kid = Keys(prop)
    BY <1>1, ActiveAreKids
  <1>3. Cardinality(ActiveRows(rows)) = Len(prop.nodes)
    <2> DEFINE n == Len(prop.nodes)
               f == [m \in 1 .. n |-> KidOf(m)]
    <2>1. n \in Nat /\ DOMAIN prop.nodes = 1 .. n
      BY ParseType DEF TypeOK
    <2>2. \A l, m \in 1 .. n : KidOf(l) = KidOf(m) => l = m
      BY <1>1, <1>2, <2>1 DEF KidInv, Laying
    <2>3. Kids = {KidOf(m) : m \in 1 .. n}
      BY <1>2, <2>1 DEF Kids
    <2>4. f \in Bijection(1 .. n, Kids)
      <3>1. f \in [1 .. n -> Kids] /\ IsInjective(f)
        BY <2>2, <2>3 DEF IsInjective
      <3>2. \A i \in Kids : \E m \in 1 .. n : f[m] = i
        BY <2>3
      <3>3. QED
        BY <3>1, <3>2 DEF Bijection, Injection, Surjection
    <2>5. ExistsBijection(1 .. n, Kids)
      BY <2>4 DEF ExistsBijection
    <2> HIDE DEF n
    <2>6. IsFiniteSet(1 .. n) /\ Cardinality(1 .. n) = n
      BY <2>1, FS_Interval
    <2>7. Cardinality(Kids) = n
      BY <2>5, <2>6, FS_Bijection
    <2>8. QED
      BY <1>2, <2>7 DEF n
  <1>4. \A n \in DOMAIN prop.nodes : RowAt(n) = KidOf(n)
    <2>1. ASSUME NEW n \in DOMAIN prop.nodes PROVE RowAt(n) = KidOf(n)
      <3>1. KidOf(n) \in ActiveRows(rows) /\ rows[KidOf(n)].order = n
        BY <1>2 DEF PlacedRow
      <3>2. RowAt(n) \in ActiveRows(rows) /\ rows[RowAt(n)].order = n
        BY <3>1 DEF RowAt
      <3>3. QED
        BY <1>2, <3>2
    <2>2. QED
      BY <2>1
  <1>5. ASSUME NEW n \in DOMAIN prop.nodes
        PROVE  /\ \E i \in ActiveRows(rows) : rows[i].order = n
               /\ Unchanged(rows[RowAt(n)], prop.nodes[n])
               /\ rows[RowAt(n)].pid =
                     IF prop.nodes[n].parent = 0 THEN 0
                     ELSE RowAt(IdOfKey(prop, prop.nodes[n].parent))
    <2>1. \E i \in ActiveRows(rows) : rows[i].order = n
      BY <1>2 DEF PlacedRow
    <2>2. Unchanged(rows[RowAt(n)], prop.nodes[n])
      BY <1>2, <1>4 DEF PlacedRow, Unchanged, SameText, SamePlace, SameTitle
    <2>3. rows[RowAt(n)].pid = IdOf(prop.nodes[n].parent)
      BY <1>2, <1>4
    <2> DEFINE k == prop.nodes[n].parent
    <2>4. k \in Keys(prop) \cup {0} /\ 0 \notin Keys(prop)
      BY ParseClosed DEF TypeOK
    <2>5. CASE k = 0
      BY <1>2, <2>1, <2>2, <2>3, <2>4, <2>5 DEF IdOf
    <2>6. CASE k # 0
      <3> DEFINE l == IdOfKey(prop, k)
      <3>1. l \in DOMAIN prop.nodes /\ prop.nodes[l].key = k
        BY <2>4, <2>6 DEF IdOfKey, Keys
      <3>2. IdOf(k) = kid[k] /\ RowAt(l) = kid[k]
        BY <1>2, <1>4, <2>4, <2>6, <3>1 DEF IdOf, KidOf
      <3>3. QED
        BY <2>1, <2>2, <2>3, <2>6, <3>2
    <2>7. QED
      BY <2>5, <2>6
  <1>6. ASSUME NEW e \in Pair, edge[e] = "machine"
        PROVE  \E r \in prop.rels : rows[e[1]].key = Plain(r[1]) /\ rows[e[2]].key = Plain(r[2])
    <2>1. PICK r \in prop.rels : e = <<kid[r[1]], kid[r[2]]>>
      BY <1>1, <1>6 DEF EdgeInv
    <2>2. r[1] \in Keys(prop) /\ r[2] \in Keys(prop)
      BY ParseClosed DEF TypeOK
    <2>3. \A k \in Keys(prop) : rows[kid[k]].key = Plain(k)
      BY <1>2 DEF Keys, PlacedRow, KidOf
    <2>4. rows[e[1]].key = Plain(r[1]) /\ rows[e[2]].key = Plain(r[2])
      BY <2>1, <2>2, <2>3
    <2>5. QED
      BY <2>4
  <1>7. stamp = [document |-> run, tree |-> run]
    <2>1. stamp.document = run /\ stamp.tree = run
      BY <1>1 DEF EdgeInv
    <2>2. stamp \in [document : 0 .. MaxRuns, tree : 0 .. MaxRuns]
      BY TypeFacts
    <2>3. QED
      BY <2>1, <2>2
  <1>8. QED
    BY <1>3, <1>5, <1>6, <1>7

\* Judgements are where they belong: the diff gives a text of its own to its row.
LEMMA JudgementsRight ==
  ASSUME TypeOK, DiffInv, KidInv, LayoutInv, JudgedInv, FoundInv
  PROVE  JudgementsFit
  <1>1. \A i \in Present(rows) : MarkFits(rows[i])
    BY DEF JudgedInv
  <1>2. quiet => \A i \in Id : rows[i].prov = "operator" => rows[i].sum = "operator"
    BY DEF JudgedInv
  <1>3. ASSUME At("done"), NEW i \in ActiveRows(before.rows), NEW n \in DOMAIN prop.nodes,
               before.rows[i].text = prop.nodes[n].text,
               \A j \in ActiveRows(before.rows) : before.rows[j].text = before.rows[i].text => j = i,
               \A m \in DOMAIN prop.nodes : prop.nodes[m].text = prop.nodes[n].text => m = n
        PROVE  /\ rows[i].status = "active" /\ rows[i].order = n
               /\ rows[i].text = before.rows[i].text
               /\ before.rows[i].mark # "none" => rows[i].mark = before.rows[i].mark
    <2>1. DOMAIN before.rows = Id /\ DOMAIN snap = Id
      BY DEF TypeOK, Images
    <2>2. i \in Id /\ before.rows[i].status = "active"
      BY <2>1 DEF ActiveRows
    <2>3. \A j \in Id : snap[j].status = before.rows[j].status /\ snap[j].text = before.rows[j].text
      BY <1>3 DEF FoundInv, Diffed
    <2>4. ActiveRows(snap) = ActiveRows(before.rows)
      BY <2>1, <2>3 DEF ActiveRows
    <2>5. match[n] = i
      <3>1. \A j \in ActiveRows(snap) : snap[j].text = snap[i].text => j = i
        BY <1>3, <2>1, <2>2, <2>3, <2>4 DEF ActiveRows
      <3>2. i \in ActiveRows(snap) /\ snap[i].text = prop.nodes[n].text
        BY <1>3, <2>2, <2>3, <2>4
      <3>3. QED
        BY <1>3, <3>1, <3>2 DEF DiffInv, Diffed
    <2>6. i # 0
      BY <2>2, BoundAssumption DEF Id
    <2>7. KidOf(n) = i /\ PlacedRow(n)
      BY <1>3, <2>5, <2>6, ActiveAreKids DEF KidInv, Laying
    <2>8. rows[i].status = "active" /\ rows[i].order = n /\ rows[i].text = prop.nodes[n].text
      BY <2>7 DEF PlacedRow
    <2>9. i \notin ContentChanged
      BY <1>3, <2>2, <2>3, <2>5, <2>6, MatchedText DEF Diffed
    <2>10. before.rows[i].mark # "none" => rows[i].mark = before.rows[i].mark
      BY <1>3, <2>2, <2>9 DEF FoundInv, Diffed, Present
    <2>11. QED
      BY <1>3, <2>8, <2>10
  <1>4. QED
    BY <1>1, <1>2, <1>3 DEF JudgementsFit

\* Flags tell whether an end of the edge was superseded or rewritten.
LEMMA FlagsRight ==
  ASSUME TypeOK, DiffInv, KidInv, LayoutInv, FoundInv, EdgeInv
  PROVE  ReviewedEdgesFlagged
  <1>1. SUFFICES ASSUME At("done"), NEW e \in Reviewed(before.edge)
                 PROVE  LET touched == \E x \in {1, 2} :
                                \/ before.rows[e[x]].status # rows[e[x]].status
                                \/ before.rows[e[x]].text # rows[e[x]].text
                        IN IF touched THEN edge[e] \in {"superseded", "changed"}
                           ELSE edge[e] = before.edge[e]
    BY DEF ReviewedEdgesFlagged
  <1>2. edge[e] = FlaggedWas(e)
    BY <1>1 DEF EdgeInv
  <1>3. e[1] \in Ends(before.edge) /\ e[2] \in Ends(before.edge) /\ e[1] \in Id /\ e[2] \in Id
    BY DEF Ends, Reviewed, Pair
  <1>4. ASSUME NEW i \in Id, i \in Ends(before.edge)
        PROVE  (before.rows[i].status # rows[i].status \/ before.rows[i].text # rows[i].text)
               <=> i \in Removed \cup ContentChanged
    <2>1. /\ Laid = DOMAIN prop.nodes /\ ActiveRows(rows) = Kids
          /\ \A n \in DOMAIN prop.nodes : PlacedRow(n)
      BY <1>1, ActiveAreKids
    <2>2. snap[i].status = before.rows[i].status /\ snap[i].text = before.rows[i].text
      BY <1>1 DEF FoundInv, Diffed
    <2>3. DOMAIN rows = Id /\ DOMAIN snap = Id
      BY TypeFacts DEF TypeOK
    <2>4. Assigns(snap, prop.nodes, match)
      BY <1>1 DEF DiffInv, Diffed
    <2>5. CASE i \in Kids
      <3>1. PICK n \in DOMAIN prop.nodes : i = KidOf(n)
        BY <2>1, <2>5 DEF Kids
      <3>2. match[n] # 0 /\ match[n] = i
        BY <1>1, <1>4, <2>1, <3>1 DEF KidInv, Laying
      <3>3. snap[i].status = "active"
        BY <2>4, <3>2 DEF Assigns, ActiveRows
      <3>4. rows[i].status = "active" /\ rows[i].text = prop.nodes[n].text
        BY <2>1, <3>1 DEF PlacedRow
      <3>5. i \in ContentChanged <=> snap[i].text # prop.nodes[n].text
        BY <1>1, <3>2, MatchedText DEF Diffed
      <3>6. i \notin Removed
        BY <1>1, <2>5, RemovedNoKid DEF Laying
      <3>7. QED
        BY <2>2, <3>3, <3>4, <3>5, <3>6
    <2>6. CASE i \notin Kids
      <3>1. rows[i].text = snap[i].text
        BY <1>1, <2>6 DEF LayoutInv, Laying
      <3>2. i \notin ContentChanged
        <4>1. SUFFICES ASSUME i \in ContentChanged PROVE FALSE
          OBVIOUS
        <4>2. PICK m \in DOMAIN match : match[m] # 0 /\ match[m] = i
          BY <4>1 DEF ContentChanged
        <4>3. m \in Laid /\ KidOf(m) = i
          BY <1>1, <2>1, <2>4, <4>2 DEF Assigns, KidInv, Laying
        <4>4. QED
          BY <2>6, <4>3 DEF Kids
      <3>3. CASE i \in Removed
        <4>1. rows[i].status # "active"
          BY <1>1, <2>6, <3>3 DEF LayoutInv, Laying
        <4>2. snap[i].status = "active"
          BY <3>3 DEF Removed, ActiveRows
        <4>3. QED
          BY <2>2, <3>3, <4>1, <4>2
      <3>4. CASE i \notin Removed
        <4>1. rows[i].status = snap[i].status
          BY <1>1, <2>6, <3>4 DEF LayoutInv, Laying
        <4>2. QED
          BY <2>2, <3>1, <3>2, <3>4, <4>1
      <3>5. QED
        BY <3>3, <3>4
    <2>7. QED
      BY <2>5, <2>6
  <1>5. \A x \in {1, 2} :
            (before.rows[e[x]].status # rows[e[x]].status \/ before.rows[e[x]].text # rows[e[x]].text)
            <=> e[x] \in Removed \cup ContentChanged
    BY <1>3, <1>4
  <1>6. QED
    BY <1>2, <1>5 DEF FlaggedWas

\* A rebuild that returned has made the active rows the parse, each with the id of
\* the row that its text was on and that row's judgement, and has flagged the
\* reviewed edges it touched, whatever an earlier rebuild that died left behind and
\* whatever operators did meanwhile.
THEOREM RebuildAlwaysRight == Spec => []RebuildIsRight
  <1>1. RebuildInv /\ MakingInv => RebuildIsRight
    BY LayoutRight, JudgementsRight, FlagsRight DEF RebuildInv, MakingInv, RebuildIsRight
  <1>2. QED
    BY <1>1, MakingInvHolds, PTL
================================================================================

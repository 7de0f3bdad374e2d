------------------------------ MODULE RebuildDiff ------------------------------
(***************************************************************************)
(* ingestion/diff.py diff_ingestion_trees: which stored row a proposed     *)
(* node continues.  Rows are matched by content, then by key and parent,   *)
(* then by title, and only where the choice is unique.  A text stands for  *)
(* the content together with its structural label, a title for the title   *)
(* with that label, "none" for no title.                                   *)
(***************************************************************************)
EXTENDS Integers, Sequences

\* A stored node_key: one that a parse gave, or a temporary one of the row's id.
Plain(k) == <<"key", k>>
Rekeying(i) == <<"rekeying", i>>
Superseded(i) == <<"superseded", i>>
Restoring(i) == <<"restoring", i>>

\* The rows that may be matched.
ActiveRows(rows) == {i \in DOMAIN rows : rows[i].status = "active"}

SameText(row, p) == row.text = p.text
SamePlace(row, p) == row.key = Plain(p.key) /\ row.parent = p.parent
SameTitle(row, p) == row.title = p.title

\* The matchers, in their order.
ByHash(rows, p, free) == {i \in free : SameText(rows[i], p)}
ByKeys(rows, p, free) == {i \in free : SamePlace(rows[i], p)}
ByTitle(rows, p, free) ==
    {i \in free : /\ p.title # "none"
                  /\ SameTitle(rows[i], p)
                  /\ rows[i].parent = p.parent}

\* One pass over the proposed nodes, in document order: m extends the matching
\* start by the candidates that are the only ones among the rows still free.
Pass(Candidates(_, _, _), rows, proposed, start, m) ==
    \A n \in DOMAIN proposed :
        LET taken == {start[k] : k \in DOMAIN proposed} \cup {m[k] : k \in 1 .. n - 1}
            cand == Candidates(rows, proposed[n], ActiveRows(rows) \ taken)
        IN \/ start[n] # 0 /\ m[n] = start[n]
           \/ start[n] = 0 /\ m[n] # 0 /\ cand = {m[n]}
           \/ start[n] = 0 /\ m[n] = 0 /\ \A i \in cand : cand # {i}

Passes(Candidates(_, _, _), rows, proposed, starts) ==
    UNION {{m \in [DOMAIN proposed -> DOMAIN rows \cup {0}] :
               Pass(Candidates, rows, proposed, start, m)} : start \in starts}

Unmatched(proposed) == [n \in DOMAIN proposed |-> 0]

\* Mutant: keys before content.
MatchingKeysFirst(rows, proposed) ==
    Passes(ByTitle, rows, proposed,
        Passes(ByHash, rows, proposed,
            Passes(ByKeys, rows, proposed, {Unmatched(proposed)})))

\* The matching of a diff, alone in this set: the stored row of each proposed
\* node, 0 for none.
Matching(rows, proposed) ==
    Passes(ByTitle, rows, proposed,
        Passes(ByKeys, rows, proposed,
            Passes(ByHash, rows, proposed, {Unmatched(proposed)})))

Unchanged(row, p) == SameText(row, p) /\ SamePlace(row, p) /\ SameTitle(row, p)
================================================================================

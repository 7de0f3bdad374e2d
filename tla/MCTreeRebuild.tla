----------------------------- MODULE MCTreeRebuild -----------------------------
(***************************************************************************)
(* Small parses for TreeRebuild.                                           *)
(***************************************************************************)
EXTENDS TreeRebuild

Section(key, parent, title, text) ==
    [key |-> key, parent |-> parent, title |-> title, text |-> text]

Words == {"none", "A", "B", "C", "a", "b", "c", "a2"}

\* A root and one section.
Base == [nodes |-> <<Section(1, 0, "A", "a"), Section(2, 1, "B", "b")>>,
         rels |-> {<<1, 2>>}]

\* The root is rewritten and a section put in between: the ordinal key of the
\* old one shifts.
Shifted == [nodes |-> <<Section(1, 0, "A", "a2"), Section(2, 1, "C", "c"), Section(3, 1, "B", "b")>>,
            rels |-> {<<1, 3>>, <<2, 3>>}]

\* The child comes first and holds what was the root's text; the new root is
\* what was a section, if there was one.
Swapped == [nodes |-> <<Section(2, 1, "A", "a"), Section(1, 0, "C", "c")>>,
            rels |-> {<<2, 1>>}]

Parses == {Base, Shifted, Swapped}
================================================================================

-------------------------- MODULE MCSemanticCandidates --------------------------
(***************************************************************************)
(* One document of at most two nodes beside a document of one node.        *)
(***************************************************************************)
EXTENDS SemanticCandidates, TLC

MCLayouts == {<<"a">>, <<"a", "b">>, <<"a", "a">>}
MCHinted == {<<"a", "b">>}
MCSimilar == {{"a", "far"}, {"b", "far"}, {"a", "b"}}
MCOpposed == {{"a", "far"}, {"a", "b"}}
MCLabelled == {{"a", "far"}}
MCDrifting == {{"a", "far"}}
MCRelationOf == [label |-> "supports", vector |-> "related_to", contradiction |-> "contradicts",
                 confirmed |-> "contradicts", drift |-> "contradicts"]
MCCursors == {<<0, 0>>, <<0, 1>>}
None == [rebuild |-> 0, treeReview |-> 0, edge |-> 0, sweep |-> 0, drift |-> 0, review |-> 0,
         atOnce |-> 2, failure |-> 0, crash |-> 0]
Symmetry == Permutations(Thread)
MCBudgets ==
    {[None EXCEPT !.rebuild = 2, !.edge = 1, !.atOnce = 1],
     [None EXCEPT !.rebuild = 1, !.edge = 2, !.failure = 1, !.atOnce = 1],
     [None EXCEPT !.rebuild = 1, !.treeReview = 1, !.edge = 1, !.atOnce = 1],
     [None EXCEPT !.rebuild = 1, !.treeReview = 1, !.failure = 1, !.crash = 1],
     [None EXCEPT !.rebuild = 1, !.edge = 1, !.failure = 1],
     [None EXCEPT !.rebuild = 1, !.drift = 1, !.review = 1],
     [None EXCEPT !.sweep = 2],
     [None EXCEPT !.sweep = 1, !.review = 1],
     [None EXCEPT !.drift = 1, !.edge = 1, !.review = 1],
     [None EXCEPT !.drift = 1, !.review = 2, !.crash = 1]}
================================================================================

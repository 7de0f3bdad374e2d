--------------------------- MODULE MCAnswerPipeline ---------------------------
(***************************************************************************)
(* Instances of AnswerPipeline.  Nodes 1 and 3 are of one document, 2 of   *)
(* another, which the active identity does not see.                        *)
(***************************************************************************)
EXTENDS AnswerPipeline, TLC

MCCorpus ==
    1 :> [doc |-> "d", label |-> "source_chunk", date |-> 2,
          score |-> "q" :> 2 @@ "own" :> 1, nearly |-> {}]
 @@ 2 :> [doc |-> "e", label |-> "note", date |-> 1,
          score |-> "q" :> 3 @@ "own" :> 0, nearly |-> {}]
 @@ 3 :> [doc |-> "d", label |-> "source_root", date |-> 0,
          score |-> "q" :> 0 @@ "own" :> 0, nearly |-> {"own", "q"}]

MCAround == 1 :> {1, 3} @@ 2 :> {2} @@ 3 :> {3}

Call(tool, query, label, after, node) ==
    [tool |-> tool, query |-> query, label |-> label, after |-> after, node |-> node]

Decides(status, calls, claim) == [status |-> status, calls |-> calls, claim |-> claim]

MCDecisions ==
    {Decides("continue", <<Call("search_nodes", "own", "none", 2, 0)>>, "none"),
     Decides("continue", <<Call("compile_context", "q", "none", 0, 0),
                            Call("get_document_tree", "q", "none", 0, 0)>>, "use_repository_context"),
     Decides("continue", <<Call("compile_context", "q", "none", 0, 0)>>, "none"),
     Decides("continue", <<Call("web_search", "q", "none", 0, 0)>>, "none"),
     Decides("continue", <<>>, "none"),
     Decides("done", <<Call("compile_context", "q", "none", 0, 3)>>, "answer_without_repository_context"),
     Decides("done", <<>>, "use_repository_context")}

MCReturned == {<<>>, <<1>>, <<1, 1, 2>>, <<2, 3>>, <<3, 1, 2>>}

\* Only node 1 has a title.  As characters are counted, two to a token, the blocks
\* are of 7, 6 and 9 characters and of 4, 4 and 5 tokens; the encoder finds node 1 dense,
\* node 2 sparse, and node 3 dense at its end.
MCText == 1 :> 4 @@ 2 :> 3 @@ 3 :> 6
MCHeader == 1 :> 2 @@ 2 :> 1 @@ 3 :> 1
MCEncoded ==
    1 :> [k \in 0 .. 4 |-> 3 + k] @@ 2 :> [k \in 0 .. 3 |-> 2]
 @@ 3 :> [k \in 0 .. 6 |-> IF k > 4 THEN 9 ELSE 1]

Budget(chars, available, tokenizer) ==
    [chars |-> chars, available |-> available, tokenizer |-> tokenizer, ratio |-> 2]

Do(kind, tries) == [kind |-> kind, tries |-> tries]

Base ==
    [mode |-> "direct", plan |-> <<>>, focus |-> 0, kind |-> "plain", web |-> "off", may |-> {},
     active |-> <<>>, scoring |-> "off",
     budget |-> Budget(16, 12, "approx"), overhead |-> 2, withHistory |-> 2]

TwoPhases == <<Do("retrieve", 1), Do("answer", 2)>>
Granular == <<Do("search", 1), Do("compile", 1), Do("answer", 2)>>
Twice == <<Do("retrieve", 1), Do("answer", 1), Do("answer", 2), Do("retrieve", 1)>>
TooLate == <<Do("search", 1), Do("answer", 1), Do("retrieve", 1)>>
Trouble == {"raise", "norun", "noupdate", "nosave"}

DirectSettings ==
    {[Base EXCEPT !.kind = k, !.focus = f, !.active = a, !.may = m, !.plan = p] :
        k \in {"low", "reference", "plain", "generic"}, f \in {0, 3},
        a \in {<<>>, <<"e", "d">>}, m \in {{"vanish"}, Trouble}, p \in {<<>>, TwoPhases}}

CrashSettings ==
    {[Base EXCEPT !.plan = p, !.may = {"crash", "nosave", "raise"}, !.active = <<"d">>] :
        p \in {<<>>, TwoPhases, Granular, Twice, <<Do("retrieve", 1)>>, <<Do("answer", 2)>>,
               <<Do("compile", 2), Do("answer", 1)>>}}

GranularSettings ==
    {[Base EXCEPT !.plan = TooLate, !.may = m] : m \in {{}, Trouble}} \cup
    {[Base EXCEPT !.plan = Granular, !.mode = m, !.may = Trouble \cup {"vanish"}, !.web = w] :
        m \in {"agentic", "deep"}, w \in {"on", "off"}}

AgenticSettings ==
    {[Base EXCEPT !.mode = "agentic", !.kind = "low"],
     [Base EXCEPT !.mode = "agentic", !.may = {"vanish"}],
     [Base EXCEPT !.mode = "agentic", !.focus = 1, !.may = Trouble],
     [Base EXCEPT !.web = "on", !.plan = TwoPhases, !.may = Trouble \cup {"crash"}]}

\* Budgets that all fits in; that history leaves too small; with too few characters
\* for any chunk; with too few tokens, counted either way; that history uses up.
DeepSettings ==
    {[Base EXCEPT !.mode = "deep", !.scoring = "on", !.withHistory = 4],
     [Base EXCEPT !.mode = "deep", !.withHistory = 9, !.may = Trouble],
     [Base EXCEPT !.mode = "deep", !.budget = Budget(5, 12, "approx")],
     [Base EXCEPT !.mode = "deep", !.budget = Budget(16, 5, "approx"), !.may = {"raise"}],
     [Base EXCEPT !.mode = "deep", !.budget = [Budget(16, 5, "approx") EXCEPT !.ratio = 1]],
     [Base EXCEPT !.mode = "deep", !.budget = Budget(16, 5, "tiktoken")],
     [Base EXCEPT !.mode = "deep", !.withHistory = 13, !.plan = TwoPhases,
                  !.may = Trouble \cup {"crash"}]}

MCSetting ==
    DirectSettings \cup CrashSettings \cup GranularSettings \cup AgenticSettings \cup DeepSettings

=============================================================================

---------------------------- MODULE MCPlanningLoop ----------------------------
(* One or two requests of a conversation beside an operator. *)
EXTENDS PlanningLoop

MCContent ==
    {[text |-> "plain", onDrift |-> "unarmed", threshold |-> 34],
     [text |-> "gated", onDrift |-> "reanchor", threshold |-> 100],
     [text |-> "plain", onDrift |-> "gate", threshold |-> 0],
     [text |-> "gated", onDrift |-> "reanchor_then_gate", threshold |-> 34]}

Unsaid == [o \in {"x", "y"} |-> "unsaid"]
Both(x, y) == [o \in {"x", "y"} |-> IF o = "x" THEN x ELSE y]
MCWorks ==
    {[floor |-> Both("met", "met"), judged |-> Unsaid],
     [floor |-> Both("unmet", "partial"), judged |-> Unsaid],
     [floor |-> Both("met", "unmet"), judged |-> Both("unsaid", "met")],
     [floor |-> Both("partial", "met"), judged |-> Both("unmet", "met")]}

Base == [enabled |-> TRUE, interpretive |-> TRUE, framed |-> FALSE, strict |-> FALSE,
         max |-> 3, acts |-> 0, may |-> {}]
MCSetting ==
    {[Base EXCEPT !.enabled = FALSE, !.acts = 3],
     [Base EXCEPT !.interpretive = FALSE, !.max = 2, !.acts = 1, !.may = {"raise", "unsaved"}],
     [Base EXCEPT !.interpretive = FALSE, !.max = 1],
     [Base EXCEPT !.framed = TRUE, !.strict = TRUE, !.max = 0, !.may = {"special"}],
     [Base EXCEPT !.max = 3, !.may = {"special", "raise"}],
     [Base EXCEPT !.max = 2, !.acts = 1, !.may = {"mid"}],
     [Base EXCEPT !.max = 2, !.may = {"mid", "unsaved"}],
     [Base EXCEPT !.max = 2, !.acts = 1, !.may = {"await"}],
     [Base EXCEPT !.max = 2, !.acts = 2]}
===============================================================================

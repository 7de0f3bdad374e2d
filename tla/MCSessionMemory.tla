---------------------------- MODULE MCSessionMemory ----------------------------
(***************************************************************************)
(* Two turns of one session with the same answer, of which one uses a      *)
(* generated node that an operator may reject.                             *)
(***************************************************************************)
EXTENDS SessionMemory

MCSessionOf == [e \in Exchange |-> "s"]
MCText == [e \in Exchange |-> "c"]
MCDocumentOf == [n \in Node |-> "d"]
MCUses == [e \in Exchange |-> Node]
================================================================================

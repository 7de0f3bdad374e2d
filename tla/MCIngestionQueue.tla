--------------------------- MODULE MCIngestionQueue ---------------------------
(***************************************************************************)
(* Instances of IngestionQueue in which all files have the same content,   *)
(* so that their submissions and their workers race for one document.      *)
(***************************************************************************)
EXTENDS IngestionQueue

MCContentOf == [f \in File |-> "a"]
MCContent == {"a"}
================================================================================

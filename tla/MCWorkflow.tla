----------------------------- MODULE MCWorkflow -----------------------------
(* An instance of Workflow: an outline the operator approves, a text made   *)
(* from it behind an auto gate, and a document made from both.              *)
EXTENDS Workflow

CONSTANTS outline, text, document

MCNeeds == [s \in Steps |-> CASE s = outline -> {} [] s = text -> {outline} [] s = document -> {outline, text}]
MCWorkerOf == [s \in Steps |-> IF s = document THEN "compose" ELSE "generate"]
=============================================================================

--------------------------- MODULE MCModelService ---------------------------
(* Two calls: one for the served model, one that names another model and   *)
(* whose context a faulty provider may put on the first one's answers.     *)
EXTENDS ModelService
=============================================================================

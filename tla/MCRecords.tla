----------------------------- MODULE MCRecords ------------------------------
(***************************************************************************)
(* Records and its properties over small instances: the cfg files give the *)
(* constants, and one run checks what several modules state.               *)
(***************************************************************************)
EXTENDS Economy, RecordsImplementWitnesses
=============================================================================

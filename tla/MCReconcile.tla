------------------------------ MODULE MCReconcile ------------------------------
(* A source of two lines, with a blank before the end of the first. *)
EXTENDS Reconcile

MCContents == <<"x", "blank", "newline", "x">>
================================================================================

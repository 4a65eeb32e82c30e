--------------------------- MODULE MCJobExecution ---------------------------
(* The model values of the small instances of JobExecution.                *)
EXTENDS JobExecution

CONSTANTS j1, j2, w, h
=============================================================================

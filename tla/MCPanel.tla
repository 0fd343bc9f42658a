------------------------------ MODULE MCPanel -------------------------------
(* Checks Panel with TLC on two short games with a small rack. *)
EXTENDS Panel
=============================================================================

----------------------------- MODULE MCScoring -----------------------------
(* Checks ScoringSession with TLC on short games with a small rack. *)
EXTENDS ScoringSession
=============================================================================

---------------------------- MODULE MCLifecycle ----------------------------
(* Checks Lifecycle with TLC on three schema versions and one roll. *)
EXTENDS Lifecycle
=============================================================================

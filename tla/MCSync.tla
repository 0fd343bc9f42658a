------------------------------- MODULE MCSync -------------------------------
(* Mutation menus for checking SyncCoordinator with TLC. *)
EXTENDS SyncCoordinator

CONSTANTS s1, s2, s3, s4, s5, d1, d2, p, q, r1

Mut(sid, d, op, e) == [sid |-> sid, device |-> d, entity |-> e, op |-> op]

Rolls == [x \in PinState |-> r1]

\* Two devices record a PinState for the same roll; one of them changes and
\* removes its own, which the other may change too once it has pulled it.
SharedRoll ==
  { Mut(s1, d1, "CREATE", p), Mut(s2, d1, "DELETE", p),
    Mut(s3, d2, "CREATE", q), Mut(s4, d2, "UPDATE", p) }

\* Two devices record a PinState for the same roll: one of them loses.
OneRoll == { Mut(s1, d1, "CREATE", p), Mut(s2, d2, "CREATE", q) }
=============================================================================

------------------------------- MODULE MCPush -------------------------------
(* Request menus for checking PushPipeline with TLC. *)
EXTENDS PushPipeline

CONSTANTS s1, s2, s3, s4, s5, d1, d2, p, q, g, r1, r2, h1, h2

Req(sid, device, op, e, expected, hash, roll, keeps) ==
  [sid |-> sid, device |-> device, entity |-> e, op |-> op, expected |-> expected,
   hash |-> hash, roll |-> roll, keepsIdentity |-> keeps]

\* Two devices create and change one entity; one submission id is reused with
\* a payload that changes an immutable field.
VersionRequests ==
  { Req(s1, d1, "CREATE", g, 0, h1, NoRoll, TRUE),
    Req(s2, d2, "CREATE", g, 0, h1, NoRoll, TRUE),
    Req(s3, d1, "UPDATE", g, 1, h1, NoRoll, TRUE),
    Req(s3, d1, "UPDATE", g, 1, h2, NoRoll, FALSE),
    Req(s4, d2, "CORRECT", g, 1, h1, NoRoll, TRUE),
    Req(s5, d1, "DELETE", g, 2, h1, NoRoll, TRUE) }

\* Two devices record PinStates for one roll while one of them is archived
\* and the other is moved to another roll.
AssociationRequests ==
  { Req(s1, d1, "CREATE", p, 0, h1, r1, TRUE),
    Req(s2, d2, "CREATE", q, 0, h1, r1, TRUE),
    Req(s3, d1, "DELETE", p, 1, h1, NoRoll, TRUE),
    Req(s4, d2, "UPDATE", q, 1, h1, r2, TRUE),
    Req(s5, d1, "UPDATE", p, 1, h1, r2, TRUE) }
=============================================================================

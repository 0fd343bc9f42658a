------------------------------- MODULE MCFeed -------------------------------
(* A request menu for checking ChangeFeed with TLC: two devices change one  *)
(* entity each and one of them also the other's.                            *)
EXTENDS ChangeFeed

CONSTANTS s1, s2, s3, s4, d1, d2, g, k, h1

Req(sid, device, op, e, expected) ==
  [sid |-> sid, device |-> device, entity |-> e, op |-> op, expected |-> expected,
   hash |-> h1, roll |-> NoRoll, keepsIdentity |-> TRUE]

FeedRequests ==
  { Req(s1, d1, "CREATE", g, 0),
    Req(s2, d2, "CREATE", k, 0),
    Req(s3, d1, "UPDATE", g, 1),
    Req(s4, d2, "CORRECT", g, 2) }
=============================================================================

--------------------------- MODULE VersionedStore ---------------------------
(***************************************************************************)
(* What the sync server promises its clients, without transactions, locks  *)
(* or connections: a store of versioned entities that settles each         *)
(* submission once.  An attempt is accepted only on the version it         *)
(* expects, which it then increments; it may be refused instead.           *)
(***************************************************************************)
EXTENDS Naturals

CONSTANTS
  Submission,  \* submission ids
  Entity,      \* versioned entities
  Attempt      \* [sid, entity, expected] triples that clients may submit

VARIABLES
  version,     \* Entity -> its version, 0 before it is created
  outcome,     \* Submission -> "NONE", "ACCEPTED" or "REFUSED"
  history      \* the accepted changes: [entity, version, sid]

avars == <<version, outcome, history>>

AInit ==
  /\ version = [e \in Entity |-> 0]
  /\ outcome = [s \in Submission |-> "NONE"]
  /\ history = {}

Accept(a) ==
  /\ outcome[a.sid] = "NONE"
  /\ version[a.entity] = a.expected
  /\ version' = [version EXCEPT ![a.entity] = a.expected + 1]
  /\ outcome' = [outcome EXCEPT ![a.sid] = "ACCEPTED"]
  /\ history' = history \cup
       {[entity |-> a.entity, version |-> a.expected + 1, sid |-> a.sid]}

Refuse(a) ==
  /\ outcome[a.sid] = "NONE"
  /\ outcome' = [outcome EXCEPT ![a.sid] = "REFUSED"]
  /\ UNCHANGED <<version, history>>

ANext == \E a \in Attempt : Accept(a) \/ Refuse(a)

ASpec == AInit /\ [][ANext]_avars

=============================================================================

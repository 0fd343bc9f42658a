---------------------------- MODULE PushPipeline ----------------------------
(***************************************************************************)
(* The server's push command (server/sync/pushPipeline.ts, executePush):   *)
(* one PostgreSQL READ COMMITTED transaction per request, run on one       *)
(* pooled connection, with any number of them in flight.  A step is one    *)
(* statement, or the statements between two points where another           *)
(* transaction can be observed.  Uncommitted writes live in pending/seq    *)
(* and reach the tables only in Commit.                                    *)
(*                                                                         *)
(* A definition named X_Fault is X with a plausible bug; it is used by no  *)
(* specification and records what the properties are able to detect.       *)
(***************************************************************************)
EXTENDS Naturals, FiniteSets

CONSTANTS
  Worker,      \* pooled connections, each running at most one push
  Submission,  \* submission ids
  Device,      \* device ids
  Entity,      \* (entity_type, entity_id) pairs
  PinState,    \* the entities whose entity_type is PinState
  Roll,        \* roll ids a PinState payload may name
  Hash,        \* payload hashes
  Request,     \* the validated push requests that may arrive
  NoRoll,      \* the payload carries no roll_id
  NoRow,       \* no canonical row
  NoRecord,    \* no idempotency row
  NoRequest,   \* a connection that never served a push
  MaxSeq       \* bound of the model: change_seq values that may be drawn

Operation == {"CREATE", "UPDATE", "CORRECT", "DELETE"}

\* A request that passed validatePushRequest.  keepsIdentity says whether
\* checkImmutable finds no issue in the payload.
RequestType ==
  [sid: Submission, device: Device, entity: Entity, op: Operation,
   expected: Nat, hash: Hash, roll: Roll \cup {NoRoll},
   keepsIdentity: BOOLEAN]

ASSUME RequestAssumption ==
  /\ Request \subseteq RequestType
  /\ \A r \in Request :
       r.entity \in PinState /\ r.op \in {"CREATE", "UPDATE"} => r.roll \in Roll

ASSUME EntityAssumption == PinState \subseteq Entity

ASSUME NullAssumption ==
  /\ NoRoll \notin Roll
  /\ NoRequest \notin Request
  /\ NoRow \notin [version: Nat \ {0}, archived: BOOLEAN, roll: Roll \cup {NoRoll}]
  /\ NoRecord \notin [hash: Hash, status: {"ACCEPTED", "CONFLICT", "REJECTED"},
                      device: Device, entity: Entity, version: Nat, seq: Nat]

ASSUME BoundAssumption == MaxSeq \in Nat

VARIABLES
  entities,  \* canonical_entities: Entity -> row or NoRow
  idem,      \* submission_idempotency: Submission -> record or NoRecord
  feed,      \* change_feed: the committed rows
  conflicts, \* sync_conflicts: <<submission, entity>> of the committed rows
  nextSeq,   \* the BIGSERIAL sequence, never rolled back
  pc,        \* the statement each connection is about to run
  req,       \* the request it serves
  locked,    \* it holds the FOR UPDATE lock of its request's canonical row
  pending,   \* its uncommitted canonical write, or NoRow
  seq,       \* the change_seq it drew, or 0
  verdict    \* the outcome it is about to commit or has returned

tables == <<entities, idem, feed, conflicts>>
tx == <<pc, req, locked, pending, seq, verdict>>
vars == <<entities, idem, feed, conflicts, nextSeq, pc, req, locked, pending, seq, verdict>>

Row == [version: Nat \ {0}, archived: BOOLEAN, roll: Roll \cup {NoRoll}]
Recorded == {"ACCEPTED", "CONFLICT", "REJECTED"}
Record == [hash: Hash, status: Recorded, device: Device, entity: Entity,
           version: Nat, seq: Nat]
FeedRow == [seq: Nat \ {0}, entity: Entity, version: Nat \ {0}, sid: Submission]
Reply == Recorded \cup {"ALREADY_ACCEPTED", "COLLISION", "ERROR"}

-----------------------------------------------------------------------------
(* Locks and the unique indexes. *)

\* The device row is already locked, shared, by the lookup and upgraded later.
HoldsDevice_Fault(w) == pc[w] \in {"device", "load", "write", "commit"}

\* deviceRepo.upsert writes the device row, which stays locked until the end
\* of the transaction.
HoldsDevice(w) == pc[w] \in {"load", "write", "commit"}

\* A PinState row takes part in ux_pinstate_active_roll while it is active.
Indexed(e, row) == e \in PinState /\ row # NoRow /\ ~row.archived /\ row.roll # NoRoll

Clash(e, row, f, other) ==
  /\ e # f
  /\ Indexed(e, row)
  /\ Indexed(f, other)
  /\ row.roll = other.roll

\* A CORRECT replaces the payload and forgets to count the version.
NewRow_Fault(r) ==
  LET old == entities[r.entity]
  IN  IF r.op = "CREATE"
      THEN [version |-> 1, archived |-> FALSE, roll |-> r.roll]
      ELSE [old EXCEPT !.version = IF r.op = "CORRECT" THEN @ ELSE @ + 1,
                       !.archived = @ \/ r.op = "DELETE",
                       !.roll = IF r.op = "DELETE" \/ r.roll = NoRoll THEN @ ELSE r.roll]

\* The canonical row a push that passed its checks writes.
NewRow(r) ==
  LET old == entities[r.entity]
  IN  IF r.op = "CREATE"
      THEN [version |-> 1, archived |-> FALSE, roll |-> r.roll]
      ELSE [version |-> old.version + 1,
            archived |-> old.archived \/ r.op = "DELETE",
            roll |-> IF r.op = "DELETE" \/ r.roll = NoRoll THEN old.roll ELSE r.roll]

\* Uncommitted writes of other transactions do not hold an insert back.
MustWait_Fault(w, row, v) == FALSE

\* An insert or update waits for a transaction v whose uncommitted write may
\* still create or remove the key it needs.
MustWait(w, row, v) ==
  /\ pending[v] # NoRow
  /\ LET e == req[w].entity
         f == req[v].entity
     IN  \/ e = f
         \/ Clash(e, row, f, pending[v])
         \/ Clash(e, row, f, entities[f])

\* The next statement of w needs what the transaction of v holds: the device
\* row, the canonical row it locks, or a key it writes.
WaitsFor(w, v) ==
  /\ w # v
  /\ \/ pc[w] = "device" /\ HoldsDevice(v) /\ req[v].device = req[w].device
     \/ pc[w] = "load" /\ locked[v] /\ req[v].entity = req[w].entity
     \/ pc[w] = "write" /\ MustWait(w, NewRow(req[w]), v)

Blocked(w) == \E v \in Worker : WaitsFor(w, v)

\* entityRepo.insert is an upsert.
DuplicateKey_Fault(r) == FALSE

\* Committed rows the write would violate the primary key or the index of.
DuplicateKey(r) == r.op = "CREATE" /\ entities[r.entity] # NoRow
ActivePeers(r, row) ==
  {f \in PinState : Indexed(f, entities[f]) /\ entities[f].roll = row.roll}
\* The database was migrated without ux_pinstate_active_roll.
Violates_Fault(r, row) == DuplicateKey(r)

Violates(r, row) ==
  \/ DuplicateKey(r)
  \/ \E f \in Entity : Clash(r.entity, row, f, entities[f])

-----------------------------------------------------------------------------
Init ==
  /\ entities = [e \in Entity |-> NoRow]
  /\ idem = [s \in Submission |-> NoRecord]
  /\ feed = {}
  /\ conflicts = {}
  /\ nextSeq = 1
  /\ pc = [w \in Worker |-> "idle"]
  /\ req = [w \in Worker |-> NoRequest]
  /\ locked = [w \in Worker |-> FALSE]
  /\ pending = [w \in Worker |-> NoRow]
  /\ seq = [w \in Worker |-> 0]
  /\ verdict = [w \in Worker |-> "ERROR"]

\* The connection answers and goes back to the pool: COMMIT and ROLLBACK both
\* end the transaction, release its locks and drop what it had pending.
Finish(w, reply) ==
  /\ pc' = [pc EXCEPT ![w] = "replied"]
  /\ verdict' = [verdict EXCEPT ![w] = reply]
  /\ locked' = [locked EXCEPT ![w] = FALSE]
  /\ pending' = [pending EXCEPT ![w] = NoRow]
  /\ seq' = [seq EXCEPT ![w] = 0]
  /\ UNCHANGED req

\* The business outcome is decided; it is committed with its idempotency row.
Decide(w, outcome) ==
  /\ pc' = [pc EXCEPT ![w] = "commit"]
  /\ verdict' = [verdict EXCEPT ![w] = outcome]

\* BEGIN for a request that arrived.  Clients resend, so any request may
\* arrive any number of times, also while an earlier copy is in flight.
Receive(w, r) ==
  /\ pc[w] \in {"idle", "replied"}
  /\ pc' = [pc EXCEPT ![w] = "lookup"]
  /\ req' = [req EXCEPT ![w] = r]
  /\ verdict' = [verdict EXCEPT ![w] = "ERROR"]
  /\ UNCHANGED <<tables, nextSeq, locked, pending, seq>>

\* idempotencyRepo.getForUpdate.  A row that is not there cannot be locked,
\* so two copies of one submission may both get past this step.
LookupAbsent(w) ==
  /\ pc[w] = "lookup"
  /\ idem[req[w].sid] = NoRecord
  /\ pc' = [pc EXCEPT ![w] = "device"]
  /\ UNCHANGED <<tables, nextSeq, req, locked, pending, seq, verdict>>

Replay(record) ==
  IF record.status = "ACCEPTED" THEN "ALREADY_ACCEPTED" ELSE record.status

\* The recorded result is replayed whatever payload the copy carries.
LookupKnown_Fault(w) ==
  /\ pc[w] = "lookup"
  /\ idem[req[w].sid] # NoRecord
  /\ Finish(w, Replay(idem[req[w].sid]))
  /\ UNCHANGED <<tables, nextSeq>>

\* Same payload hash: the recorded result is replayed.  Another hash: the
\* reuse of the id is refused, and only audited.
LookupKnown(w) ==
  LET record == idem[req[w].sid]
  IN  /\ pc[w] = "lookup"
      /\ record # NoRecord
      /\ Finish(w, IF record.hash = req[w].hash THEN Replay(record) ELSE "COLLISION")
      /\ UNCHANGED <<tables, nextSeq>>

\* Pushes of one device run side by side.
LockDevice_Fault(w) ==
  /\ pc[w] = "device"
  /\ pc' = [pc EXCEPT ![w] = "load"]
  /\ UNCHANGED <<tables, nextSeq, req, locked, pending, seq, verdict>>

\* deviceRepo.upsert.
LockDevice(w) ==
  /\ pc[w] = "device"
  /\ ~Blocked(w)
  /\ pc' = [pc EXCEPT ![w] = "load"]
  /\ UNCHANGED <<tables, nextSeq, req, locked, pending, seq, verdict>>

\* The expected version is not compared: the last write wins.
StaleTarget_Fault(r, row) == r.op = "CREATE" /\ row # NoRow

\* Conflict and rejection conditions of applyCreate, applyUpdate,
\* applyCorrect and applyArchive, on the row they loaded.
StaleTarget(r, row) ==
  IF r.op = "CREATE" THEN row # NoRow ELSE row # NoRow /\ row.version # r.expected
Refused(r, row) ==
  \/ r.op # "CREATE" /\ row = NoRow
  \/ r.op = "UPDATE" /\ ~r.keepsIdentity

\* The row is read without FOR UPDATE.
LoadEntity_Fault(w) ==
  LET r == req[w]
      row == entities[r.entity]
  IN  /\ pc[w] = "load"
      /\ \/ /\ StaleTarget(r, row)
            /\ Decide(w, "CONFLICT")
         \/ /\ ~StaleTarget(r, row)
            /\ Refused(r, row)
            /\ Decide(w, "REJECTED")
         \/ /\ ~StaleTarget(r, row)
            /\ ~Refused(r, row)
            /\ pc' = [pc EXCEPT ![w] = "write"]
            /\ UNCHANGED verdict
      /\ UNCHANGED <<tables, nextSeq, req, locked, pending, seq>>

\* entityRepo.getForUpdate and the checks on what it returned.  Only a
\* committed row can be returned and locked.
LoadEntity(w) ==
  LET r == req[w]
      row == entities[r.entity]
  IN  /\ pc[w] = "load"
      /\ ~Blocked(w)
      /\ locked' = [locked EXCEPT ![w] = (row # NoRow)]
      /\ \/ /\ StaleTarget(r, row)
            /\ Decide(w, "CONFLICT")
         \/ /\ ~StaleTarget(r, row)
            /\ Refused(r, row)
            /\ Decide(w, "REJECTED")
         \/ /\ ~StaleTarget(r, row)
            /\ ~Refused(r, row)
            /\ pc' = [pc EXCEPT ![w] = "write"]
            /\ UNCHANGED verdict
      /\ UNCHANGED <<tables, nextSeq, req, pending, seq>>

\* entityRepo.insert/update succeeds, then changeFeedRepo.insert draws the
\* next change_seq (nothing another transaction sees lies between the two).
WriteAccepted(w) ==
  LET row == NewRow(req[w])
  IN  /\ pc[w] = "write"
      /\ ~Blocked(w)
      /\ ~Violates(req[w], row)
      /\ nextSeq <= MaxSeq
      /\ pending' = [pending EXCEPT ![w] = row]
      /\ seq' = [seq EXCEPT ![w] = nextSeq]
      /\ nextSeq' = nextSeq + 1
      /\ Decide(w, "ACCEPTED")
      /\ UNCHANGED <<tables, req, locked>>

\* The write hits a unique index.  A PinState CREATE rolls back to its
\* savepoint and looks for the active peer of its roll; every other
\* violation, and a PinState CREATE without such a peer, is rethrown.
WriteViolation(w) ==
  LET r == req[w]
      row == NewRow(r)
      recovers == r.op = "CREATE" /\ r.entity \in PinState /\ ActivePeers(r, row) # {}
  IN  /\ pc[w] = "write"
      /\ ~Blocked(w)
      /\ Violates(r, row)
      /\ \/ /\ recovers
            /\ Decide(w, "CONFLICT")
            /\ UNCHANGED <<req, locked, pending, seq>>
         \/ /\ ~recovers
            /\ Finish(w, "ERROR")
      /\ UNCHANGED <<tables, nextSeq>>

\* The idempotency row is upserted, so a racing copy replaces the result.
Commit_Fault(w) ==
  LET r == req[w]
      accepted == verdict[w] = "ACCEPTED"
  IN  /\ pc[w] = "commit"
      /\ idem' = [idem EXCEPT ![r.sid] =
                    [hash |-> r.hash, status |-> verdict[w], device |-> r.device,
                     entity |-> r.entity, version |-> IF accepted THEN pending[w].version ELSE 0,
                     seq |-> seq[w]]]
      /\ entities' = IF accepted THEN [entities EXCEPT ![r.entity] = pending[w]] ELSE entities
      /\ feed' = IF accepted
                 THEN feed \cup {[seq |-> seq[w], entity |-> r.entity,
                                  version |-> pending[w].version, sid |-> r.sid]}
                 ELSE feed
      /\ conflicts' = IF verdict[w] = "CONFLICT"
                      THEN conflicts \cup {<<r.sid, r.entity>>} ELSE conflicts
      /\ Finish(w, verdict[w])
      /\ UNCHANGED nextSeq

\* idempotencyRepo.insert and COMMIT: everything the push wrote appears at
\* once.  (The version a refusal reports back is not modelled.)
Commit(w) ==
  LET r == req[w]
      accepted == verdict[w] = "ACCEPTED"
  IN  /\ pc[w] = "commit"
      /\ idem[r.sid] = NoRecord
      /\ idem' = [idem EXCEPT ![r.sid] =
                    [hash |-> r.hash, status |-> verdict[w], device |-> r.device,
                     entity |-> r.entity, version |-> IF accepted THEN pending[w].version ELSE 0,
                     seq |-> seq[w]]]
      /\ entities' = IF accepted THEN [entities EXCEPT ![r.entity] = pending[w]] ELSE entities
      /\ feed' = IF accepted
                 THEN feed \cup {[seq |-> seq[w], entity |-> r.entity,
                                  version |-> pending[w].version, sid |-> r.sid]}
                 ELSE feed
      /\ conflicts' = IF verdict[w] = "CONFLICT"
                      THEN conflicts \cup {<<r.sid, r.entity>>} ELSE conflicts
      /\ Finish(w, verdict[w])
      /\ UNCHANGED nextSeq

\* Another copy committed its idempotency row first: the primary key refuses
\* ours, the whole push is rolled back and the client sees an HTTP 500.
CommitDuplicate(w) ==
  /\ pc[w] = "commit"
  /\ idem[req[w].sid] # NoRecord
  /\ Finish(w, "ERROR")
  /\ UNCHANGED <<tables, nextSeq>>

\* The statement fails, the connection drops or the process dies before COMMIT.
Abort(w) ==
  /\ pc[w] \notin {"idle", "replied"}
  /\ Finish(w, "ERROR")
  /\ UNCHANGED <<tables, nextSeq>>

Step(w) ==
  \/ LookupAbsent(w)
  \/ LookupKnown(w)
  \/ LockDevice(w)
  \/ LoadEntity(w)
  \/ WriteAccepted(w)
  \/ WriteViolation(w)
  \/ Commit(w)
  \/ CommitDuplicate(w)

Next ==
  \E w \in Worker :
    \/ \E r \in Request : Receive(w, r)
    \/ Step(w)
    \/ Abort(w)

Spec == Init /\ [][Next]_vars

-----------------------------------------------------------------------------
(* Properties *)

TypeOK ==
  /\ entities \in [Entity -> Row \cup {NoRow}]
  /\ idem \in [Submission -> Record \cup {NoRecord}]
  /\ feed \subseteq FeedRow
  /\ conflicts \subseteq Submission \X Entity
  /\ nextSeq \in Nat \ {0}
  /\ pc \in [Worker -> {"idle", "lookup", "device", "load", "write", "commit", "replied"}]
  /\ req \in [Worker -> Request \cup {NoRequest}]
  /\ locked \in [Worker -> BOOLEAN]
  /\ pending \in [Worker -> Row \cup {NoRow}]
  /\ seq \in [Worker -> Nat]
  /\ verdict \in [Worker -> Reply]

CurrentVersion(e) == IF entities[e] = NoRow THEN 0 ELSE entities[e].version
Settled(s) == idem[s] # NoRecord
Accepted(s) == Settled(s) /\ idem[s].status = "ACCEPTED"

\* Exactly once: whatever copies of a submission race each other, it has a
\* feed row exactly when its recorded result is ACCEPTED, the row is the one
\* the result names, and it has a conflict row exactly when it is CONFLICT
\* (ADR-002 D5, "no partial-ACCEPTED window").
ExactlyOnce ==
  /\ \A s \in Submission : Accepted(s) =>
       \E row \in feed : /\ row.sid = s
                         /\ row.seq = idem[s].seq
                         /\ row.version = idem[s].version
                         /\ row.entity = idem[s].entity
  /\ \A row \in feed : Accepted(row.sid) /\ idem[row.sid].seq = row.seq
  /\ \A s \in Submission, e \in Entity :
       <<s, e>> \in conflicts <=>
         Settled(s) /\ idem[s].status = "CONFLICT" /\ idem[s].entity = e

\* No last-write-wins (ADR-002 D4): the accepted changes of an entity carry
\* the versions 1 .. current, each one once, so no accepted change was
\* overwritten by another that had not seen it.
VersionChain ==
  \A e \in Entity :
    /\ \A n \in 1..CurrentVersion(e) : \E row \in feed : row.entity = e /\ row.version = n
    /\ \A row \in feed : row.entity = e => row.version <= CurrentVersion(e)
    /\ \A row1, row2 \in feed :
         row1.entity = e /\ row2.entity = e /\ row1.version = row2.version => row1 = row2

\* change_seq orders the changes of one entity as their versions do, although
\* it is drawn before COMMIT: the entity is locked from the draw to the COMMIT.
EntityFeedOrdered ==
  \A row1, row2 \in feed :
    row1.entity = row2.entity => (row1.seq < row2.seq <=> row1.version < row2.version)

\* ADR-008: at most one active PinState per roll, under any interleaving of
\* creates, archives and updates that move a PinState to another roll.
OneActivePinStatePerRoll ==
  \A e, f \in Entity : ~Clash(e, entities[e], f, entities[f])

\* A client is told ACCEPTED, ALREADY_ACCEPTED, CONFLICT or REJECTED only if
\* that result is durable for exactly the payload it sent; a COLLISION only
\* if the id durably belongs to another payload (ADR-002 D3).
ReplyIsDurable ==
  \A w \in Worker :
    pc[w] = "replied" /\ verdict[w] # "ERROR" =>
      LET record == idem[req[w].sid]
      IN  /\ record # NoRecord
          /\ IF verdict[w] = "COLLISION"
             THEN record.hash # req[w].hash
             ELSE /\ record.hash = req[w].hash
                  /\ verdict[w] \in {record.status, Replay(record)}

\* Transactions that wait for each other's rows and index keys never form a
\* cycle: among any pushes, one waits for none of the others.
NoLockCycle ==
  \A S \in (SUBSET Worker) \ {{}} : \E w \in S : \A v \in S : ~WaitsFor(w, v)

-----------------------------------------------------------------------------
(* The inductive invariant behind the safety properties. *)

Writing(w) == pending[w] # NoRow

\* What a connection between two statements knows about the transaction.
TxConsistent ==
  \A w \in Worker :
    /\ pc[w] # "idle" => req[w] \in Request
    /\ pc[w] = "commit" => verdict[w] \in Recorded
    /\ Writing(w) <=> pc[w] = "commit" /\ verdict[w] = "ACCEPTED"
    /\ IF Writing(w) THEN seq[w] \in 1..(nextSeq - 1) ELSE seq[w] = 0
    /\ locked[w] => pc[w] \in {"write", "commit"} /\ entities[req[w].entity] # NoRow

\* The row locks exclude each other, and so do uncommitted writes of a row;
\* change_seq values are never drawn twice.
LocksExclude ==
  \A w, v \in Worker : w # v =>
    /\ locked[w] /\ locked[v] => req[w].entity # req[v].entity
    /\ Writing(w) /\ Writing(v) => req[w].entity # req[v].entity /\ seq[w] # seq[v]

\* The version check made when the row was loaded still holds, because the
\* row is locked, or, for a CREATE, because the key is still taken by nobody.
ChecksStillHold ==
  \A w \in Worker :
    /\ pc[w] = "write" /\ req[w].op # "CREATE" =>
         locked[w] /\ entities[req[w].entity].version = req[w].expected
    /\ Writing(w) =>
         IF req[w].op = "CREATE"
         THEN entities[req[w].entity] = NoRow /\ pending[w].version = 1
         ELSE /\ locked[w]
              /\ entities[req[w].entity].version = req[w].expected
              /\ pending[w].version = req[w].expected + 1

\* A change that is about to commit comes after every committed change of
\* its entity, and clashes with no active PinState, committed or pending.
PendingComesLast ==
  /\ \A row \in feed : row.seq < nextSeq
  /\ \A w \in Worker : Writing(w) =>
       /\ \A row \in feed : row.seq # seq[w]
       /\ \A row \in feed : row.entity = req[w].entity => row.seq < seq[w]
       /\ \A f \in Entity : ~Clash(req[w].entity, pending[w], f, entities[f])
       /\ \A v \in Worker \ {w} : Writing(v) =>
            ~Clash(req[w].entity, pending[w], req[v].entity, pending[v])

IInv ==
  /\ TypeOK
  /\ TxConsistent
  /\ LocksExclude
  /\ ChecksStillHold
  /\ PendingComesLast
  /\ ExactlyOnce
  /\ VersionChain
  /\ EntityFeedOrdered
  /\ OneActivePinStatePerRoll

-----------------------------------------------------------------------------
(* Refinement and action properties. *)

\* The store the pipeline implements: a CREATE expects version 0.
Attempts ==
  {[sid |-> r.sid, entity |-> r.entity,
    expected |-> IF r.op = "CREATE" THEN 0 ELSE r.expected] : r \in Request}

Store == INSTANCE VersionedStore WITH
  Attempt <- Attempts,
  version <- [e \in Entity |-> CurrentVersion(e)],
  outcome <- [s \in Submission |-> IF ~Settled(s) THEN "NONE"
                                   ELSE IF Accepted(s) THEN "ACCEPTED" ELSE "REFUSED"],
  history <- {[entity |-> row.entity, version |-> row.version, sid |-> row.sid] : row \in feed}

\* Every commit of the pipeline is one step of the versioned store, accepted
\* exactly when the version the submission expects is the current one at the
\* commit; everything else a transaction does is invisible to clients.
ImplementsStore == Store!ASpec

\* The first recorded result of a submission is final: later copies, also
\* copies with another payload, neither replace nor remove it.
VerdictFinal ==
  [][\A s \in Submission : Settled(s) => idem'[s] = idem[s]]_vars

\* When CONFLICT is recorded for an UPDATE, CORRECT or DELETE the canonical
\* version differs from the expected one at that very moment, not only when
\* it was read.
ConflictIsCurrent ==
  [][\A w \in Worker :
       /\ pc[w] = "commit" /\ verdict[w] = "CONFLICT" /\ req[w].op # "CREATE"
       /\ conflicts' # conflicts /\ pc'[w] = "replied"
       => CurrentVersion(req[w].entity) # req[w].expected]_vars

=============================================================================

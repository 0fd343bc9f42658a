------------------------- MODULE PushPipelineProofs -------------------------
(***************************************************************************)
(* Proofs about PushPipeline for every set of connections, devices,        *)
(* entities and requests and for every bound on change_seq.                *)
(***************************************************************************)
EXTENDS PushPipeline, TLAPS

\* The part of the invariant that only speaks of committed rows.
Committed == ExactlyOnce /\ VersionChain /\ EntityFeedOrdered /\ OneActivePinStatePerRoll

LEMMA CommittedStable ==
  ASSUME Committed, UNCHANGED tables
  PROVE  Committed'
BY DEF Committed, tables, ExactlyOnce, VersionChain, EntityFeedOrdered,
       OneActivePinStatePerRoll, Accepted, Settled, CurrentVersion, Clash, Indexed

LEMMA InitIInv == Init => IInv
<1> SUFFICES ASSUME Init PROVE IInv
  OBVIOUS
<1>1. TypeOK
  BY DEF Init, TypeOK, Reply, Recorded
<1>2. TxConsistent /\ LocksExclude /\ ChecksStillHold /\ PendingComesLast
  BY DEF Init, TxConsistent, LocksExclude, ChecksStillHold, PendingComesLast, Writing
<1>3. ExactlyOnce /\ EntityFeedOrdered
  BY DEF Init, ExactlyOnce, EntityFeedOrdered, Accepted, Settled
<1>4. VersionChain
  BY DEF Init, VersionChain, CurrentVersion
<1>5. OneActivePinStatePerRoll
  BY DEF Init, OneActivePinStatePerRoll, Clash, Indexed
<1> QED
  BY <1>1, <1>2, <1>3, <1>4, <1>5 DEF IInv

\* The end of a transaction that leaves the tables alone: a replay, a refused
\* id, an error or a crash.
LEMMA FinishIInv ==
  ASSUME IInv, NEW w \in Worker, NEW reply \in Reply, pc[w] # "idle",
         Finish(w, reply), UNCHANGED <<tables, nextSeq>>
  PROVE  IInv'
<1> USE DEF IInv, Finish, tables
<1>1. TypeOK'
  BY DEF TypeOK
<1>2. TxConsistent'
  BY DEF TypeOK, TxConsistent, Writing
<1>3. LocksExclude'
  BY DEF TypeOK, LocksExclude, Writing
<1>4. ChecksStillHold'
  BY DEF TypeOK, ChecksStillHold, Writing
<1>5. PendingComesLast'
  BY DEF TypeOK, PendingComesLast, Writing, Clash, Indexed
<1> QED
  BY <1>1, <1>2, <1>3, <1>4, <1>5, CommittedStable DEF Committed

\* A step that only moves one connection on: nothing is written, drawn or
\* committed, and no transaction ends.
Quiet(w) ==
  /\ UNCHANGED <<tables, nextSeq, pending, seq>>
  /\ ~Writing(w)
  /\ \A v \in Worker \ {w} :
       /\ pc'[v] = pc[v] /\ req'[v] = req[v] /\ locked'[v] = locked[v]
       /\ verdict'[v] = verdict[v]

LEMMA QuietIInv ==
  ASSUME IInv, NEW w \in Worker, Quiet(w), TypeOK',
         req'[w] \in Request,
         pc'[w] = "commit" => verdict'[w] \in Recorded \ {"ACCEPTED"},
         locked'[w] => /\ pc'[w] \in {"write", "commit"}
                       /\ entities[req'[w].entity] # NoRow
                       /\ \A v \in Worker \ {w} :
                            locked[v] => req[v].entity # req'[w].entity,
         pc'[w] = "write" /\ req'[w].op # "CREATE" =>
           locked'[w] /\ entities[req'[w].entity].version = req'[w].expected
  PROVE  IInv'
<1> USE DEF IInv, Quiet, tables
<1>2. TxConsistent'
  BY DEF TxConsistent, Writing
<1>3. LocksExclude'
  BY DEF LocksExclude, Writing
<1>4. ChecksStillHold'
  BY DEF ChecksStillHold, Writing
<1>5. PendingComesLast'
  BY DEF PendingComesLast, Writing, Clash, Indexed
<1> QED
  BY <1>2, <1>3, <1>4, <1>5, CommittedStable DEF Committed

LEMMA ReceiveIInv ==
  ASSUME IInv, NEW w \in Worker, NEW r \in Request, Receive(w, r)
  PROVE  IInv'
<1>1. TypeOK'
  BY DEF IInv, TypeOK, Receive, tables, Reply
<1>2. Quiet(w)
  BY DEF IInv, TypeOK, TxConsistent, Receive, Quiet, Writing
<1> QED
  BY <1>1, <1>2, QuietIInv DEF IInv, TypeOK, TxConsistent, Receive

LEMMA LookupIInv ==
  ASSUME IInv, NEW w \in Worker, LookupAbsent(w) \/ LookupKnown(w)
  PROVE  IInv'
<1>1. CASE LookupAbsent(w)
  <2>1. TypeOK'
    BY <1>1 DEF IInv, TypeOK, LookupAbsent, tables
  <2>2. Quiet(w)
    BY <1>1 DEF IInv, TypeOK, TxConsistent, LookupAbsent, Quiet, Writing
  <2> QED
    BY <1>1, <2>1, <2>2, QuietIInv DEF IInv, TypeOK, TxConsistent, LookupAbsent
<1>2. CASE LookupKnown(w)
  <2> DEFINE record == idem[req[w].sid]
  <2>1. req[w].sid \in Submission
    BY <1>2, RequestAssumption DEF IInv, TxConsistent, LookupKnown, RequestType
  <2>2. record.status \in Recorded
    BY <1>2, <2>1 DEF IInv, TypeOK, LookupKnown, Record
  <2>3. (IF record.hash = req[w].hash THEN Replay(record) ELSE "COLLISION") \in Reply
    BY <2>2 DEF Reply, Replay
  <2> QED
    BY <1>2, <2>3, FinishIInv DEF LookupKnown
<1> QED
  BY <1>1, <1>2

LEMMA LockDeviceIInv ==
  ASSUME IInv, NEW w \in Worker, LockDevice(w)
  PROVE  IInv'
<1>1. TypeOK'
  BY DEF IInv, TypeOK, LockDevice, tables
<1>2. Quiet(w)
  BY DEF IInv, TypeOK, TxConsistent, LockDevice, Quiet, Writing
<1> QED
  BY <1>1, <1>2, QuietIInv DEF IInv, TypeOK, TxConsistent, LockDevice

LEMMA LoadEntityIInv ==
  ASSUME IInv, NEW w \in Worker, LoadEntity(w)
  PROVE  IInv'
<1>1. TypeOK'
  BY DEF IInv, TypeOK, LoadEntity, Decide, tables, Reply, Recorded
<1>2. Quiet(w)
  BY DEF IInv, TypeOK, TxConsistent, LoadEntity, Decide, Quiet, Writing
<1>3. pc'[w] \in {"write", "commit"} /\ req' = req /\ req[w] \in Request
  BY DEF IInv, TypeOK, TxConsistent, LoadEntity, Decide
<1>4. pc'[w] = "commit" => verdict'[w] \in Recorded \ {"ACCEPTED"}
  BY DEF IInv, TypeOK, LoadEntity, Decide, Recorded
<1>5. locked'[w] => /\ entities[req'[w].entity] # NoRow
                    /\ \A v \in Worker \ {w} :
                         locked[v] => req[v].entity # req'[w].entity
  BY <1>3 DEF IInv, TypeOK, LoadEntity, Blocked, WaitsFor
<1>6. pc'[w] = "write" /\ req'[w].op # "CREATE" =>
        locked'[w] /\ entities[req'[w].entity].version = req'[w].expected
  BY <1>3 DEF IInv, TypeOK, LoadEntity, Decide, StaleTarget, Refused
<1> QED
  BY <1>1, <1>2, <1>3, <1>4, <1>5, <1>6, QuietIInv

LEMMA WriteViolationIInv ==
  ASSUME IInv, NEW w \in Worker, WriteViolation(w)
  PROVE  IInv'
<1>1. CASE Decide(w, "CONFLICT") /\ UNCHANGED <<req, locked, pending, seq>>
  <2>1. TypeOK'
    BY <1>1 DEF IInv, TypeOK, WriteViolation, Decide, tables, Reply, Recorded
  <2>2. Quiet(w)
    BY <1>1 DEF IInv, TypeOK, TxConsistent, WriteViolation, Decide, Quiet, Writing
  <2>3. pc'[w] = "commit" /\ verdict'[w] = "CONFLICT" /\ req[w] \in Request
    BY <1>1 DEF IInv, TypeOK, TxConsistent, WriteViolation, Decide
  <2> QED
    BY <1>1, <2>1, <2>2, <2>3, QuietIInv
    DEF IInv, TxConsistent, LocksExclude, Recorded
<1>2. CASE Finish(w, "ERROR")
  BY <1>2, FinishIInv DEF WriteViolation, Reply
<1> QED
  BY <1>1, <1>2 DEF WriteViolation

LEMMA AbortIInv ==
  ASSUME IInv, NEW w \in Worker, Abort(w) \/ CommitDuplicate(w)
  PROVE  IInv'
BY FinishIInv DEF Abort, CommitDuplicate, Reply

\* The written row is one version above the locked row, or version 1 for a
\* CREATE whose key no committed row has.
LEMMA WriteAcceptedRow ==
  ASSUME IInv, NEW w \in Worker, WriteAccepted(w)
  PROVE  LET row == NewRow(req[w])
             old == entities[req[w].entity]
         IN  /\ row \in Row
             /\ row # NoRow
             /\ IF req[w].op = "CREATE"
                THEN old = NoRow /\ row.version = 1
                ELSE /\ locked[w] /\ old \in Row
                     /\ old.version = req[w].expected
                     /\ row.version = req[w].expected + 1
<1> DEFINE row == NewRow(req[w])
           old == entities[req[w].entity]
<1>1. req[w] \in RequestType
  BY RequestAssumption DEF IInv, TxConsistent, WriteAccepted
<1>2. old \in Row \cup {NoRow}
  BY <1>1 DEF IInv, TypeOK, RequestType
<1>3. CASE req[w].op = "CREATE"
  <2>1. row = [version |-> 1, archived |-> FALSE, roll |-> req[w].roll]
    BY <1>3 DEF NewRow
  <2>2. row \in Row
    BY <1>1, <2>1 DEF Row, RequestType
  <2>3. old = NoRow
    BY <1>3 DEF WriteAccepted, Violates, DuplicateKey
  <2>4. row # NoRow
    BY <2>2, NullAssumption DEF Row
  <2>5. row.version = 1
    BY <2>1
  <2> QED
    BY <1>3, <2>2, <2>3, <2>4, <2>5
<1>4. CASE req[w].op # "CREATE"
  <2>1. locked[w] /\ old # NoRow /\ old.version = req[w].expected
    BY <1>4 DEF IInv, TxConsistent, ChecksStillHold, WriteAccepted
  <2>2. old \in Row
    BY <1>2, <2>1
  <2>3. row.version = old.version + 1 /\ row \in Row
    BY <1>1, <1>4, <2>2 DEF NewRow, Row, RequestType
  <2> QED
    BY <1>4, <2>1, <2>2, <2>3, NullAssumption DEF Row
<1> QED
  BY <1>3, <1>4

LEMMA WriteAcceptedIInv ==
  ASSUME IInv, NEW w \in Worker, WriteAccepted(w)
  PROVE  IInv'
<1> DEFINE row == NewRow(req[w])
<1>1. row \in Row /\ row # NoRow
  BY WriteAcceptedRow
<1>2. /\ pending' = [pending EXCEPT ![w] = row]
      /\ seq' = [seq EXCEPT ![w] = nextSeq]
      /\ nextSeq' = nextSeq + 1
      /\ pc[w] = "write"
      /\ pc' = [pc EXCEPT ![w] = "commit"]
      /\ verdict' = [verdict EXCEPT ![w] = "ACCEPTED"]
      /\ UNCHANGED <<entities, idem, feed, conflicts, req, locked>>
  BY DEF WriteAccepted, Decide, tables
<1>3. req[w] \in RequestType
  BY RequestAssumption, <1>2 DEF IInv, TxConsistent
<1>4. ~Writing(w) /\ Writing(w)'
  BY <1>1, <1>2 DEF IInv, TypeOK, TxConsistent, Writing
<1>5. \A v \in Worker \ {w} : Writing(v)' <=> Writing(v)
  BY <1>2 DEF IInv, TypeOK, Writing
<1>6. TypeOK'
  BY <1>1, <1>2 DEF IInv, TypeOK, Reply, Recorded
<1>7. TxConsistent'
  BY <1>1, <1>2, <1>4, <1>5 DEF IInv, TypeOK, TxConsistent, Recorded
<1>8. LocksExclude'
  <2>1. ASSUME NEW v \in Worker \ {w}, Writing(v)
        PROVE  req[w].entity # req[v].entity /\ seq[v] < nextSeq
    BY <2>1 DEF WriteAccepted, Blocked, WaitsFor, MustWait, Writing, IInv, TxConsistent, TypeOK
  <2> QED
    BY <1>2, <1>4, <1>5, <2>1 DEF IInv, TypeOK, LocksExclude
<1>9. ChecksStillHold'
  BY <1>2, <1>4, <1>5, WriteAcceptedRow DEF IInv, TypeOK, ChecksStillHold
<1>10. PendingComesLast'
  <2>1. ASSUME NEW f \in Entity PROVE ~Clash(req[w].entity, row, f, entities[f])
    BY DEF WriteAccepted, Violates
  <2>2. ASSUME NEW v \in Worker \ {w}, Writing(v)
        PROVE  /\ ~Clash(req[w].entity, row, req[v].entity, pending[v])
               /\ ~Clash(req[v].entity, pending[v], req[w].entity, row)
    BY <2>2 DEF WriteAccepted, Blocked, WaitsFor, MustWait, Writing, Clash
  <2>3. /\ \A r \in feed : r.seq < nextSeq'
        /\ \A r \in feed : r.seq # nextSeq /\ r.seq < nextSeq
    BY <1>2 DEF IInv, TypeOK, PendingComesLast, FeedRow
  <2> QED
    BY <1>2, <1>4, <1>5, <2>1, <2>2, <2>3
    DEF IInv, TypeOK, PendingComesLast, Clash, Indexed
<1> QED
  BY <1>2, <1>6, <1>7, <1>8, <1>9, <1>10, CommittedStable DEF IInv, Committed, tables

\* COMMIT of a conflict or a rejection: one idempotency row, no feed row.
LEMMA CommitRefusedIInv ==
  ASSUME IInv, NEW w \in Worker, Commit(w), verdict[w] # "ACCEPTED"
  PROVE  IInv'
<1> PICK r : r = req[w]
  OBVIOUS
<1> DEFINE record == [hash |-> r.hash, status |-> verdict[w], device |-> r.device,
                      entity |-> r.entity, version |-> 0, seq |-> seq[w]]
<1>1. /\ r \in RequestType
      /\ verdict[w] \in Recorded
      /\ pc[w] = "commit"
      /\ idem[r.sid] = NoRecord
      /\ ~Writing(w)
      /\ seq[w] = 0
  BY RequestAssumption DEF IInv, TxConsistent, Commit
<1>2. /\ idem' = [idem EXCEPT ![r.sid] = record]
      /\ UNCHANGED <<entities, feed, nextSeq>>
      /\ conflicts' = IF verdict[w] = "CONFLICT"
                      THEN conflicts \cup {<<r.sid, r.entity>>} ELSE conflicts
      /\ Finish(w, verdict[w])
  BY DEF Commit
<1>3. record \in Record /\ record # NoRecord
  BY <1>1, NullAssumption DEF Record, RequestType, Recorded
<1>4. TypeOK'
  BY <1>1, <1>2, <1>3 DEF IInv, TypeOK, Finish, RequestType, Reply
<1>5. TxConsistent' /\ LocksExclude'
  BY <1>1, <1>2 DEF IInv, TypeOK, TxConsistent, LocksExclude, Finish, Writing
<1>6. ChecksStillHold'
  BY <1>1, <1>2 DEF IInv, TypeOK, ChecksStillHold, Finish, Writing
<1>7. PendingComesLast'
  BY <1>1, <1>2 DEF IInv, TypeOK, PendingComesLast, Finish, Writing, Clash, Indexed
<1>8. ExactlyOnce'
  <2>1. \A s \in Submission : s # r.sid => idem'[s] = idem[s]
    BY <1>2 DEF IInv, TypeOK
  <2>2. idem'[r.sid] = record
    BY <1>1, <1>2 DEF IInv, TypeOK, RequestType
  <2>3. ~Accepted(r.sid) /\ ~Accepted(r.sid)'
    BY <1>1, <2>2 DEF Accepted, Settled
  <2>4. \A row \in feed : row.sid \in Submission /\ row.sid # r.sid
    BY <2>3 DEF IInv, TypeOK, ExactlyOnce, FeedRow
  <2>5. \A e \in Entity : <<r.sid, e>> \notin conflicts
    BY <1>1 DEF IInv, ExactlyOnce, RequestType, Settled
  <2>6. \A s \in Submission : s # r.sid => (Accepted(s)' <=> Accepted(s))
    BY <2>1 DEF Accepted, Settled
  <2>7. \A s \in Submission : Accepted(s)' =>
          \E row \in feed' : /\ row.sid = s /\ row.seq = idem'[s].seq
                             /\ row.version = idem'[s].version
                             /\ row.entity = idem'[s].entity
    BY <1>2, <2>1, <2>3, <2>6 DEF IInv, ExactlyOnce, Accepted, Settled
  <2>8. \A row \in feed' : Accepted(row.sid)' /\ idem'[row.sid].seq = row.seq
    BY <1>2, <2>1, <2>4, <2>6 DEF IInv, ExactlyOnce
  <2>9. ASSUME NEW s \in Submission, NEW e \in Entity
        PROVE  <<s, e>> \in conflicts' <=>
                 Settled(s)' /\ idem'[s].status = "CONFLICT" /\ idem'[s].entity = e
    <3>1. CASE s = r.sid
      BY <1>1, <1>2, <1>3, <2>2, <2>5, <3>1 DEF Settled, RequestType
    <3>2. CASE s # r.sid
      <4>1. <<s, e>> \in conflicts' <=> <<s, e>> \in conflicts
        BY <1>2, <3>2
      <4> QED
        BY <2>1, <3>2, <4>1 DEF IInv, ExactlyOnce, Settled
    <3> QED
      BY <3>1, <3>2
  <2> QED
    BY <2>7, <2>8, <2>9 DEF ExactlyOnce
<1>9. VersionChain' /\ EntityFeedOrdered' /\ OneActivePinStatePerRoll'
  BY <1>2 DEF IInv, VersionChain, EntityFeedOrdered, OneActivePinStatePerRoll,
              CurrentVersion, Clash, Indexed
<1> QED
  BY <1>4, <1>5, <1>6, <1>7, <1>8, <1>9 DEF IInv

\* What a push that is about to commit an accepted change knows.
LEMMA CommitAcceptedFacts ==
  ASSUME IInv, NEW w \in Worker, Commit(w), verdict[w] = "ACCEPTED"
  PROVE  /\ Writing(w)
         /\ req[w] \in RequestType
         /\ pending[w] \in Row /\ pending[w] # NoRow
         /\ pending[w].version = CurrentVersion(req[w].entity) + 1
         /\ CurrentVersion(req[w].entity) = IF req[w].op = "CREATE" THEN 0 ELSE req[w].expected
         /\ seq[w] \in Nat \ {0} /\ seq[w] < nextSeq
         /\ idem[req[w].sid] = NoRecord
<1>1. Writing(w) /\ req[w] \in RequestType /\ idem[req[w].sid] = NoRecord
  BY RequestAssumption DEF IInv, TxConsistent, Commit
<1>2. pending[w] \in Row /\ pending[w] # NoRow
  BY <1>1 DEF IInv, TypeOK, Writing
<1>3. seq[w] \in Nat \ {0} /\ seq[w] < nextSeq
  BY <1>1 DEF IInv, TypeOK, TxConsistent
<1>4. CASE req[w].op = "CREATE"
  BY <1>1, <1>2, <1>3, <1>4 DEF IInv, ChecksStillHold, CurrentVersion
<1>5. CASE req[w].op # "CREATE"
  <2>1. locked[w] /\ entities[req[w].entity] # NoRow
    BY <1>1, <1>5 DEF IInv, ChecksStillHold, TxConsistent
  <2>2. CurrentVersion(req[w].entity) = req[w].expected
    BY <1>1, <1>5, <2>1 DEF IInv, ChecksStillHold, CurrentVersion
  <2>3. pending[w].version = req[w].expected + 1
    BY <1>1, <1>5 DEF IInv, ChecksStillHold
  <2> QED
    BY <1>1, <1>2, <1>3, <1>5, <2>2, <2>3
<1> QED
  BY <1>4, <1>5

\* COMMIT of an accepted change: the canonical row, the feed row and the
\* idempotency row appear together.
LEMMA CommitAcceptedIInv ==
  ASSUME IInv, NEW w \in Worker, Commit(w), verdict[w] = "ACCEPTED"
  PROVE  IInv'
<1> PICK r : r = req[w]
  OBVIOUS
<1> PICK new : new = pending[w]
  OBVIOUS
<1> PICK n : n = seq[w]
  OBVIOUS
<1> DEFINE record == [hash |-> r.hash, status |-> "ACCEPTED", device |-> r.device,
                      entity |-> r.entity, version |-> new.version, seq |-> n]
           added == [seq |-> n, entity |-> r.entity, version |-> new.version, sid |-> r.sid]
<1>1. /\ Writing(w)
      /\ r \in RequestType
      /\ new \in Row /\ new # NoRow
      /\ new.version = CurrentVersion(r.entity) + 1
      /\ n \in Nat \ {0} /\ n < nextSeq
      /\ idem[r.sid] = NoRecord
  BY CommitAcceptedFacts
<1>2. /\ idem' = [idem EXCEPT ![r.sid] = record]
      /\ entities' = [entities EXCEPT ![r.entity] = new]
      /\ feed' = feed \cup {added}
      /\ conflicts' = conflicts
      /\ nextSeq' = nextSeq
      /\ Finish(w, "ACCEPTED")
      /\ pc[w] = "commit"
  BY DEF Commit
<1>3. record \in Record /\ record # NoRecord /\ added \in FeedRow
  <2>1. new.version \in Nat \ {0}
    BY <1>1 DEF Row
  <2>2. record \in Record /\ added \in FeedRow
    BY <1>1, <2>1 DEF Record, FeedRow, RequestType, Recorded
  <2> QED
    BY <2>2, NullAssumption DEF Record, Recorded
<1>4. r.sid \in Submission /\ r.entity \in Entity
  BY <1>1 DEF RequestType
<1>5. TypeOK'
  BY <1>1, <1>2, <1>3, <1>4 DEF IInv, TypeOK, Finish, Reply, Recorded
<1>6. \A v \in Worker \ {w} : locked[v] => req[v].entity # r.entity
  <2> SUFFICES ASSUME NEW v \in Worker \ {w}, locked[v], req[v].entity = r.entity
               PROVE  FALSE
    OBVIOUS
  <2>1. entities[r.entity] # NoRow
    BY DEF IInv, TxConsistent
  <2>2. locked[w]
    BY <1>1, <2>1 DEF IInv, ChecksStillHold
  <2> QED
    BY <2>2 DEF IInv, LocksExclude
<1>7. \A v \in Worker \ {w} : Writing(v) => req[v].entity # r.entity /\ seq[v] # n
  BY <1>1 DEF IInv, LocksExclude
<1>8. /\ ~Writing(w)'
      /\ \A v \in Worker \ {w} : Writing(v)' <=> Writing(v)
  BY <1>2 DEF Finish, Writing, IInv, TypeOK
<1>9. TxConsistent' /\ LocksExclude'
  <2>1. \A v \in Worker \ {w} : locked[v] => entities'[req[v].entity] # NoRow
    BY <1>2, <1>4, <1>6 DEF IInv, TypeOK, TxConsistent
  <2> QED
    BY <1>2, <1>8, <2>1 DEF IInv, TypeOK, TxConsistent, LocksExclude, Finish
<1>10. ChecksStillHold'
  <2>1. \A v \in Worker \ {w} :
          locked[v] \/ Writing(v) => entities'[req[v].entity] = entities[req[v].entity]
    BY <1>2, <1>6, <1>7 DEF IInv, TypeOK
  <2> QED
    BY <1>2, <1>8, <2>1 DEF IInv, TypeOK, ChecksStillHold, Finish
<1>11. PendingComesLast'
  <2>1. \A row \in feed' : row.seq < nextSeq'
    BY <1>1, <1>2 DEF IInv, PendingComesLast
  <2>2. ASSUME NEW v \in Worker \ {w}, Writing(v)
        PROVE  /\ \A row \in feed' : row.seq # seq[v]
               /\ \A row \in feed' : row.entity = req[v].entity => row.seq < seq[v]
               /\ \A f \in Entity : ~Clash(req[v].entity, pending[v], f, entities'[f])
    <3>1. \A row \in feed' : row.seq # seq[v]
      BY <1>2, <1>7, <2>2 DEF IInv, PendingComesLast
    <3>2. \A row \in feed' : row.entity = req[v].entity => row.seq < seq[v]
      BY <1>2, <1>7, <2>2 DEF IInv, PendingComesLast
    <3>3. ASSUME NEW f \in Entity
          PROVE  ~Clash(req[v].entity, pending[v], f, entities'[f])
      <4>1. CASE f = r.entity
        <5>1. entities'[f] = new
          BY <1>2, <4>1 DEF IInv, TypeOK
        <5>2. ~Clash(req[v].entity, pending[v], r.entity, new)
          BY <1>1, <2>2 DEF IInv, PendingComesLast
        <5> QED
          BY <4>1, <5>1, <5>2
      <4>2. CASE f # r.entity
        <5>1. entities'[f] = entities[f]
          BY <1>2, <4>2 DEF IInv, TypeOK
        <5> QED
          BY <2>2, <5>1 DEF IInv, PendingComesLast
      <4> QED
        BY <4>1, <4>2
    <3> QED
      BY <3>1, <3>2, <3>3
  <2>3. /\ req' = req
        /\ \A v \in Worker \ {w} : seq'[v] = seq[v] /\ pending'[v] = pending[v]
    BY <1>2 DEF Finish, IInv, TypeOK
  <2>4. ASSUME NEW v \in Worker, Writing(v)'
        PROVE  /\ \A row \in feed' : row.seq # seq'[v]
               /\ \A row \in feed' : row.entity = req'[v].entity => row.seq < seq'[v]
               /\ \A f \in Entity : ~Clash(req'[v].entity, pending'[v], f, entities'[f])
               /\ \A u \in Worker \ {v} : Writing(u)' =>
                    ~Clash(req'[v].entity, pending'[v], req'[u].entity, pending'[u])
    <3>1. v # w /\ Writing(v)
      BY <1>8, <2>4
    <3>2. \A u \in Worker \ {v} : Writing(u)' =>
            ~Clash(req'[v].entity, pending'[v], req'[u].entity, pending'[u])
      BY <1>8, <2>3, <3>1 DEF IInv, PendingComesLast
    <3> QED
      BY <2>2, <2>3, <3>1, <3>2
  <2> QED
    BY <2>1, <2>4 DEF PendingComesLast, Clash, Indexed
<1>12. ExactlyOnce'
  <2>1. \A s \in Submission : s # r.sid => idem'[s] = idem[s]
    BY <1>2 DEF IInv, TypeOK
  <2>2. idem'[r.sid] = record
    BY <1>2, <1>4 DEF IInv, TypeOK
  <2>3. ~Accepted(r.sid)
    BY <1>1 DEF Accepted, Settled
  <2>4. \A row \in feed : row.sid \in Submission /\ row.sid # r.sid
    BY <2>3 DEF IInv, TypeOK, ExactlyOnce, FeedRow
  <2>5. \A s \in Submission : s # r.sid => (Accepted(s)' <=> Accepted(s))
    BY <2>1 DEF Accepted, Settled
  <2>6. ASSUME NEW s \in Submission, Accepted(s)'
        PROVE  \E row \in feed' : /\ row.sid = s /\ row.seq = idem'[s].seq
                                  /\ row.version = idem'[s].version
                                  /\ row.entity = idem'[s].entity
    <3>1. CASE s = r.sid
      <4>1. added \in feed'
        BY <1>2
      <4>2. /\ added.sid = s /\ added.seq = idem'[s].seq
            /\ added.version = idem'[s].version /\ added.entity = idem'[s].entity
        BY <2>2, <3>1
      <4> QED
        BY <4>1, <4>2
    <3>2. CASE s # r.sid
      <4>1. PICK row \in feed : /\ row.sid = s /\ row.seq = idem[s].seq
                                /\ row.version = idem[s].version
                                /\ row.entity = idem[s].entity
        BY <2>5, <2>6, <3>2 DEF IInv, ExactlyOnce
      <4> QED
        BY <1>2, <2>1, <3>2, <4>1
    <3> QED
      BY <3>1, <3>2
  <2>7. ASSUME NEW row \in feed'
        PROVE  Accepted(row.sid)' /\ idem'[row.sid].seq = row.seq
    <3>1. CASE row \in feed
      BY <2>1, <2>4, <2>5, <3>1 DEF IInv, ExactlyOnce
    <3>2. CASE row = added
      BY <1>3, <2>2, <3>2 DEF Accepted, Settled
    <3> QED
      BY <1>2, <3>1, <3>2
  <2>8. ASSUME NEW s \in Submission, NEW e \in Entity
        PROVE  <<s, e>> \in conflicts' <=>
                 Settled(s)' /\ idem'[s].status = "CONFLICT" /\ idem'[s].entity = e
    <3>1. CASE s = r.sid
      <4>1. <<s, e>> \notin conflicts
        BY <1>1, <3>1 DEF IInv, ExactlyOnce, Settled
      <4> QED
        BY <1>2, <2>2, <3>1, <4>1
    <3>2. CASE s # r.sid
      BY <1>2, <2>1, <3>2 DEF IInv, ExactlyOnce, Settled
    <3> QED
      BY <3>1, <3>2
  <2> QED
    BY <2>6, <2>7, <2>8 DEF ExactlyOnce
<1>13. /\ CurrentVersion(r.entity)' = CurrentVersion(r.entity) + 1
       /\ \A e \in Entity : e # r.entity => CurrentVersion(e)' = CurrentVersion(e)
       /\ \A e \in Entity : CurrentVersion(e) \in Nat
  BY <1>1, <1>2, <1>4 DEF IInv, TypeOK, CurrentVersion, Row
<1>14. \A row \in feed : row.entity = r.entity =>
         row.version <= CurrentVersion(r.entity) /\ row.seq < n
  BY <1>1, <1>4 DEF IInv, VersionChain, PendingComesLast
<1>15. VersionChain'
  <2> SUFFICES ASSUME NEW e \in Entity
               PROVE  /\ \A m \in 1..CurrentVersion(e)' :
                           \E row \in feed' : row.entity = e /\ row.version = m
                      /\ \A row \in feed' : row.entity = e => row.version <= CurrentVersion(e)'
                      /\ \A row1, row2 \in feed' :
                           row1.entity = e /\ row2.entity = e /\ row1.version = row2.version
                             => row1 = row2
    BY DEF VersionChain
  <2>1. CASE e = r.entity
    <3>1. ASSUME NEW m \in 1..CurrentVersion(e)'
          PROVE  \E row \in feed' : row.entity = e /\ row.version = m
      <4>1. CASE m = CurrentVersion(e) + 1
        <5>1. added \in feed' /\ added.entity = e /\ added.version = m
          BY <1>1, <1>2, <2>1, <4>1
        <5> QED
          BY <5>1
      <4>2. CASE m \in 1..CurrentVersion(e)
        BY <1>2, <4>2 DEF IInv, VersionChain
      <4> QED
        BY <1>13, <2>1, <3>1, <4>1, <4>2
    <3>2. \A row \in feed' : row.entity = e => row.version <= CurrentVersion(e)'
      BY <1>1, <1>2, <1>13, <1>14, <2>1 DEF IInv, TypeOK, FeedRow
    <3>3. ASSUME NEW row1 \in feed', NEW row2 \in feed', row1.entity = e, row2.entity = e,
                 row1.version = row2.version
          PROVE  row1 = row2
      BY <1>1, <1>2, <1>13, <1>14, <2>1, <3>3 DEF IInv, TypeOK, FeedRow, VersionChain
    <3> QED
      BY <3>1, <3>2, <3>3
  <2>2. CASE e # r.entity
    BY <1>2, <1>13, <2>2 DEF IInv, VersionChain
  <2> QED
    BY <2>1, <2>2
<1>16. EntityFeedOrdered'
  <2> SUFFICES ASSUME NEW row1 \in feed', NEW row2 \in feed', row1.entity = row2.entity
               PROVE  row1.seq < row2.seq <=> row1.version < row2.version
    BY DEF EntityFeedOrdered
  <2>1. added.seq = n /\ added.version = CurrentVersion(r.entity) + 1 /\ added.entity = r.entity
    BY <1>1
  <2>2. \A row \in feed : row.seq \in Nat /\ row.version \in Nat
    BY DEF IInv, TypeOK, FeedRow
  <2>3. CASE row1 \in feed /\ row2 \in feed
    BY <2>3 DEF IInv, EntityFeedOrdered
  <2>4. CASE row1 = added \/ row2 = added
    BY <1>1, <1>2, <1>4, <1>13, <1>14, <2>1, <2>2, <2>4
  <2> QED
    BY <1>2, <2>3, <2>4
<1>17. OneActivePinStatePerRoll'
  <2> SUFFICES ASSUME NEW e \in Entity, NEW f \in Entity
               PROVE  ~Clash(e, entities'[e], f, entities'[f])
    BY DEF OneActivePinStatePerRoll, Clash, Indexed
  <2>1. \A g \in Entity : ~Clash(r.entity, new, g, entities[g])
    BY <1>1 DEF IInv, PendingComesLast
  <2>2. ~Clash(e, entities[e], f, entities[f])
    BY DEF IInv, OneActivePinStatePerRoll
  <2> QED
    BY <1>2, <2>1, <2>2 DEF IInv, TypeOK, Clash, Indexed
<1> QED
  BY <1>5, <1>9, <1>10, <1>11, <1>12, <1>15, <1>16, <1>17 DEF IInv

LEMMA NextIInv == IInv /\ [Next]_vars => IInv'
<1> SUFFICES ASSUME IInv, [Next]_vars PROVE IInv'
  OBVIOUS
<1>1. ASSUME NEW w \in Worker, NEW r \in Request, Receive(w, r) PROVE IInv'
  BY <1>1, ReceiveIInv
<1>2. ASSUME NEW w \in Worker, LookupAbsent(w) \/ LookupKnown(w) PROVE IInv'
  BY <1>2, LookupIInv
<1>3. ASSUME NEW w \in Worker, LockDevice(w) PROVE IInv'
  BY <1>3, LockDeviceIInv
<1>4. ASSUME NEW w \in Worker, LoadEntity(w) PROVE IInv'
  BY <1>4, LoadEntityIInv
<1>5. ASSUME NEW w \in Worker, WriteAccepted(w) PROVE IInv'
  BY <1>5, WriteAcceptedIInv
<1>6. ASSUME NEW w \in Worker, WriteViolation(w) PROVE IInv'
  BY <1>6, WriteViolationIInv
<1>7. ASSUME NEW w \in Worker, Commit(w) PROVE IInv'
  BY <1>7, CommitAcceptedIInv, CommitRefusedIInv
<1>8. ASSUME NEW w \in Worker, Abort(w) \/ CommitDuplicate(w) PROVE IInv'
  BY <1>8, AbortIInv
<1>9. CASE UNCHANGED vars
  BY <1>9 DEF vars, IInv, TypeOK, TxConsistent, LocksExclude, ChecksStillHold,
              PendingComesLast, ExactlyOnce, VersionChain, EntityFeedOrdered,
              OneActivePinStatePerRoll, Writing, Accepted, Settled, CurrentVersion,
              Clash, Indexed
<1> QED
  BY <1>1, <1>2, <1>3, <1>4, <1>5, <1>6, <1>7, <1>8, <1>9 DEF Next, Step

\* The inductive invariant holds in every state of the pipeline.
THEOREM InvariantTheorem == Spec => []IInv
BY InitIInv, NextIInv, PTL DEF Spec

\* Every submission takes effect exactly once, however many copies of it race
\* on however many connections, and its feed, conflict and idempotency rows
\* agree.
THEOREM ExactlyOnceTheorem == Spec => []ExactlyOnce
<1>1. IInv => ExactlyOnce
  BY DEF IInv
<1> QED
  BY <1>1, InvariantTheorem, PTL

\* No accepted change is overwritten by one that had not seen it.
THEOREM VersionChainTheorem == Spec => []VersionChain
<1>1. IInv => VersionChain
  BY DEF IInv
<1> QED
  BY <1>1, InvariantTheorem, PTL

\* The feed orders the changes of an entity as their versions do.
THEOREM EntityFeedOrderedTheorem == Spec => []EntityFeedOrdered
<1>1. IInv => EntityFeedOrdered
  BY DEF IInv
<1> QED
  BY <1>1, InvariantTheorem, PTL

\* A roll never has two active PinStates on the server.
THEOREM OneActivePinStateTheorem == Spec => []OneActivePinStatePerRoll
<1>1. IInv => OneActivePinStatePerRoll
  BY DEF IInv
<1> QED
  BY <1>1, InvariantTheorem, PTL

-----------------------------------------------------------------------------
(* The recorded results and the versioned store. *)

\* Only Commit changes a table, and it finds no idempotency row.
LEMMA TablesChangeOnlyInCommit ==
  ASSUME Next
  PROVE  UNCHANGED tables \/ \E w \in Worker : Commit(w)
BY DEF Next, Step, Receive, LookupAbsent, LookupKnown, LockDevice, LoadEntity,
       WriteAccepted, WriteViolation, CommitDuplicate, Abort

\* The first recorded result of a submission is never replaced or removed.
THEOREM VerdictFinalTheorem == Spec => VerdictFinal
<1>1. IInv /\ [Next]_vars => [\A s \in Submission : Settled(s) => idem'[s] = idem[s]]_vars
  <2> SUFFICES ASSUME IInv, Next, NEW s \in Submission, Settled(s)
               PROVE  idem'[s] = idem[s]
    BY DEF vars
  <2>1. CASE UNCHANGED tables
    BY <2>1 DEF tables
  <2>2. ASSUME NEW w \in Worker, Commit(w) PROVE idem'[s] = idem[s]
    BY <2>2 DEF IInv, TypeOK, Commit, Settled
  <2> QED
    BY <2>1, <2>2, TablesChangeOnlyInCommit
<1> QED
  BY <1>1, InvariantTheorem, PTL DEF Spec, VerdictFinal

\* ReplyIsDurable for one connection.
Durable(w) ==
  pc[w] = "replied" /\ verdict[w] # "ERROR" =>
    /\ idem[req[w].sid] # NoRecord
    /\ IF verdict[w] = "COLLISION"
       THEN idem[req[w].sid].hash # req[w].hash
       ELSE /\ idem[req[w].sid].hash = req[w].hash
            /\ verdict[w] \in {idem[req[w].sid].status, Replay(idem[req[w].sid])}

\* A reply stays durable while another connection moves.
LEMMA DurableElsewhere ==
  ASSUME IInv, NEW w \in Worker, NEW v \in Worker \ {w}, Durable(v), Next,
         pc' = [pc EXCEPT ![w] = pc'[w]], req' = [req EXCEPT ![w] = req'[w]],
         verdict' = [verdict EXCEPT ![w] = verdict'[w]]
  PROVE  Durable(v)'
<1>1. pc'[v] = pc[v] /\ req'[v] = req[v] /\ verdict'[v] = verdict[v]
  BY DEF IInv, TypeOK
<1>2. \A s \in Submission : idem[s] # NoRecord => idem'[s] = idem[s]
  <2>1. CASE UNCHANGED tables
    BY <2>1 DEF tables
  <2>2. ASSUME NEW u \in Worker, Commit(u)
        PROVE  \A s \in Submission : idem[s] # NoRecord => idem'[s] = idem[s]
    BY <2>2 DEF IInv, TypeOK, Commit
  <2> QED
    BY <2>1, <2>2, TablesChangeOnlyInCommit
<1>3. pc[v] = "replied" => req[v].sid \in Submission
  BY RequestAssumption DEF IInv, TxConsistent, RequestType
<1> QED
  BY <1>1, <1>2, <1>3 DEF Durable, Replay

\* The connection that moves replies only what is durable.
LEMMA DurableHere ==
  ASSUME IInv, NEW w \in Worker, Step(w) \/ Abort(w) \/ \E r \in Request : Receive(w, r)
  PROVE  Durable(w)'
<1>1. CASE Commit(w)
  <2> PICK r : r = req[w]
    OBVIOUS
  <2>1. r \in RequestType /\ verdict[w] \in Recorded /\ idem[r.sid] = NoRecord
    BY <1>1, RequestAssumption DEF IInv, TxConsistent, Commit
  <2>2. /\ idem'[r.sid].hash = r.hash /\ idem'[r.sid].status = verdict[w]
        /\ req' = req /\ verdict'[w] = verdict[w]
    BY <1>1, <2>1 DEF IInv, TypeOK, Commit, Finish, RequestType
  <2>3. IInv'
    BY <1>1, CommitAcceptedIInv, CommitRefusedIInv
  <2>4. idem'[r.sid] # NoRecord
    <3>1. CASE verdict[w] = "ACCEPTED"
      <4> DEFINE added == [seq |-> seq[w], entity |-> r.entity,
                           version |-> pending[w].version, sid |-> r.sid]
      <4>1. added \in feed'
        BY <1>1, <3>1 DEF Commit
      <4>2. added.sid = r.sid
        OBVIOUS
      <4> HIDE DEF added
      <4> QED
        BY <2>3, <4>1, <4>2 DEF IInv, ExactlyOnce, Accepted, Settled
    <3>2. CASE verdict[w] # "ACCEPTED"
      <4>1. idem'[r.sid] = [hash |-> r.hash, status |-> verdict[w], device |-> r.device,
                            entity |-> r.entity, version |-> 0, seq |-> seq[w]]
        BY <1>1, <2>1, <3>2 DEF IInv, TypeOK, Commit, RequestType
      <4>2. seq[w] \in Nat
        BY DEF IInv, TypeOK
      <4> QED
        BY <2>1, <4>1, <4>2, NullAssumption DEF Recorded, RequestType
    <3> QED
      BY <3>1, <3>2
  <2> QED
    BY <2>1, <2>2, <2>4 DEF Durable, Recorded
<1>2. CASE LookupKnown(w)
  <2> DEFINE record == idem[req[w].sid]
  <2>1. /\ record # NoRecord /\ idem' = idem /\ req' = req
        /\ verdict'[w] = IF record.hash = req[w].hash THEN Replay(record) ELSE "COLLISION"
    BY <1>2 DEF LookupKnown, Finish, tables, IInv, TypeOK
  <2>2. req[w].sid \in Submission
    BY <1>2, RequestAssumption DEF IInv, TxConsistent, LookupKnown, RequestType
  <2>3. record \in Record
    BY <2>1, <2>2 DEF IInv, TypeOK
  <2>4. Replay(record) # "COLLISION"
    BY <2>3 DEF Replay, Record, Recorded
  <2> QED
    BY <2>1, <2>4 DEF Durable, Replay
<1>3. CASE WriteViolation(w)
  BY <1>3 DEF IInv, TypeOK, WriteViolation, Decide, Finish, Durable
<1>4. CASE Abort(w) \/ CommitDuplicate(w)
  BY <1>4 DEF IInv, TypeOK, Abort, CommitDuplicate, Finish, Durable
<1>5. CASE LookupAbsent(w) \/ LockDevice(w) \/ LoadEntity(w) \/ WriteAccepted(w)
           \/ \E r \in Request : Receive(w, r)
  <2>1. pc'[w] # "replied"
    BY <1>5 DEF IInv, TypeOK, LookupAbsent, LockDevice, LoadEntity, WriteAccepted,
                Receive, Decide
  <2> QED
    BY <2>1 DEF Durable
<1> QED
  BY <1>1, <1>2, <1>3, <1>4, <1>5 DEF Step

\* A client is only told results that are durable for the payload it sent.
THEOREM ReplyIsDurableTheorem == Spec => []ReplyIsDurable
<1>1. Init => ReplyIsDurable
  BY DEF Init, ReplyIsDurable
<1>2. IInv /\ ReplyIsDurable /\ [Next]_vars => ReplyIsDurable'
  <2> SUFFICES ASSUME IInv, \A v \in Worker : Durable(v), [Next]_vars, NEW v \in Worker
               PROVE  Durable(v)'
    BY DEF ReplyIsDurable, Durable, Replay
  <2>1. CASE UNCHANGED vars
    BY <2>1 DEF vars, Durable, Replay
  <2>2. ASSUME NEW w \in Worker, Step(w) \/ Abort(w) \/ \E r \in Request : Receive(w, r)
        PROVE  Durable(v)'
    <3>1. /\ pc' = [pc EXCEPT ![w] = pc'[w]]
          /\ req' = [req EXCEPT ![w] = req'[w]]
          /\ verdict' = [verdict EXCEPT ![w] = verdict'[w]]
      BY <2>2 DEF IInv, TypeOK, Step, Abort, Receive, LookupAbsent, LookupKnown, LockDevice,
           LoadEntity, WriteAccepted, WriteViolation, Commit, CommitDuplicate, Decide, Finish
    <3>2. Next
      BY <2>2 DEF Next
    <3> QED
      BY <2>2, <3>1, <3>2, DurableHere, DurableElsewhere
  <2> QED
    BY <2>1, <2>2 DEF Next
<1> QED
  BY <1>1, <1>2, InvariantTheorem, PTL DEF Spec

-----------------------------------------------------------------------------
(* The pipeline implements the versioned store. *)

LEMMA AcceptIsAccept ==
  ASSUME IInv, NEW w \in Worker, Commit(w), verdict[w] = "ACCEPTED"
  PROVE  Store!ANext
<1> PICK r : r = req[w]
  OBVIOUS
<1> DEFINE a == [sid |-> r.sid, entity |-> r.entity,
                 expected |-> IF r.op = "CREATE" THEN 0 ELSE r.expected]
<1>1. r \in Request /\ r.sid \in Submission /\ r.entity \in Entity
  BY RequestAssumption DEF IInv, TxConsistent, Commit, RequestType
<1>2. a \in Attempts
  BY <1>1 DEF Attempts
<1>3. /\ pending[w] \in Row /\ pending[w] # NoRow
      /\ pending[w].version = a.expected + 1
      /\ CurrentVersion(r.entity) = a.expected
      /\ ~Settled(r.sid)
  BY CommitAcceptedFacts DEF Settled
<1>4. IInv'
  BY CommitAcceptedIInv
<1>5. [e \in Entity |-> CurrentVersion(e)]' =
        [[e \in Entity |-> CurrentVersion(e)] EXCEPT ![a.entity] = a.expected + 1]
  BY <1>1, <1>3 DEF Commit, CurrentVersion, IInv, TypeOK
<1> DEFINE added == [seq |-> seq[w], entity |-> r.entity,
                     version |-> pending[w].version, sid |-> r.sid]
<1>a. feed' = feed \cup {added}
  BY DEF Commit
<1>b. added.entity = a.entity /\ added.version = a.expected + 1 /\ added.sid = a.sid
  BY <1>3
<1>6. Accepted(r.sid)' /\ \A s \in Submission \ {r.sid} : idem'[s] = idem[s]
  <2>1. added \in feed' /\ added.sid = r.sid
    BY <1>a
  <2>2. Accepted(r.sid)'
    <3> HIDE DEF added
    <3> QED
      BY <1>4, <2>1 DEF IInv, ExactlyOnce, Accepted, Settled
  <2>3. \A s \in Submission \ {r.sid} : idem'[s] = idem[s]
    BY <1>1 DEF IInv, TypeOK, Commit
  <2> QED
    BY <2>2, <2>3
<1>7. {[entity |-> row.entity, version |-> row.version, sid |-> row.sid] : row \in feed}' =
        {[entity |-> row.entity, version |-> row.version, sid |-> row.sid] : row \in feed}
          \cup {[entity |-> a.entity, version |-> a.expected + 1, sid |-> a.sid]}
  <2> HIDE DEF added, a
  <2> QED
    BY <1>a, <1>b
<1>8. Store!Accept(a)
  BY <1>1, <1>3, <1>5, <1>6, <1>7 DEF Store!Accept, Accepted, Settled
<1> QED
  BY <1>2, <1>8 DEF Store!ANext

LEMMA RefuseIsRefuse ==
  ASSUME IInv, NEW w \in Worker, Commit(w), verdict[w] # "ACCEPTED"
  PROVE  Store!ANext
<1> PICK r : r = req[w]
  OBVIOUS
<1> DEFINE a == [sid |-> r.sid, entity |-> r.entity,
                 expected |-> IF r.op = "CREATE" THEN 0 ELSE r.expected]
<1>1. r \in Request /\ r \in RequestType
  BY RequestAssumption DEF IInv, TxConsistent, Commit
<1>2. a \in Attempts
  BY <1>1 DEF Attempts
<1>3. UNCHANGED <<entities, feed>> /\ ~Settled(r.sid)
  BY DEF Commit, Settled
<1>4. Settled(r.sid)' /\ ~Accepted(r.sid)'
  <2>1. idem'[r.sid] = [hash |-> r.hash, status |-> verdict[w], device |-> r.device,
                        entity |-> r.entity, version |-> 0, seq |-> seq[w]]
    BY <1>1 DEF IInv, TypeOK, Commit, RequestType
  <2>2. seq[w] \in Nat /\ verdict[w] \in Recorded
    BY DEF IInv, TypeOK, TxConsistent, Commit
  <2> QED
    BY <1>1, <2>1, <2>2, NullAssumption DEF Settled, Accepted, Recorded, RequestType
<1>5. \A s \in Submission \ {r.sid} : idem'[s] = idem[s]
  BY <1>1 DEF IInv, TypeOK, Commit
<1>6. Store!Refuse(a)
  BY <1>1, <1>3, <1>4, <1>5
  DEF Store!Refuse, Accepted, Settled, CurrentVersion, RequestType
<1> QED
  BY <1>2, <1>6 DEF Store!ANext

\* Every behaviour of the pipeline is, seen through the committed tables, a
\* behaviour of the atomic versioned store.
THEOREM ImplementsStoreTheorem == Spec => ImplementsStore
<1>1. Init => Store!AInit
  BY DEF Init, Store!AInit, CurrentVersion, Settled
<1>2. IInv /\ [Next]_vars => [Store!ANext]_(Store!avars)
  <2> SUFFICES ASSUME IInv, [Next]_vars PROVE [Store!ANext]_(Store!avars)
    OBVIOUS
  <2>1. CASE UNCHANGED tables
    BY <2>1 DEF tables, Store!avars, CurrentVersion, Settled, Accepted
  <2>2. CASE \E w \in Worker : Commit(w)
    BY <2>2, AcceptIsAccept, RefuseIsRefuse
  <2> QED
    BY <2>1, <2>2, TablesChangeOnlyInCommit DEF vars, tables
<1> QED
  BY <1>1, <1>2, InvariantTheorem, PTL DEF Spec, ImplementsStore, Store!ASpec

-----------------------------------------------------------------------------
(* A recorded conflict is one at the commit, not only at the read. *)

\* The row that made an UPDATE, CORRECT or DELETE conflict is locked until the
\* conflict is committed, and still has the version it was found to have.
StillStale(w) ==
  pc[w] = "commit" /\ verdict[w] = "CONFLICT" /\ req[w].op # "CREATE" =>
    /\ locked[w]
    /\ entities[req[w].entity] # NoRow
    /\ entities[req[w].entity].version # req[w].expected

\* A row that one connection holds FOR UPDATE is changed by no other.
LEMMA LockedRowStays ==
  ASSUME IInv, NEW w \in Worker, NEW v \in Worker \ {w}, locked[v], req[v].entity \in Entity,
         UNCHANGED tables \/ Commit(w)
  PROVE  entities'[req[v].entity] = entities[req[v].entity]
<1>1. CASE UNCHANGED tables
  BY <1>1 DEF tables
<1>2. CASE Commit(w) /\ verdict[w] # "ACCEPTED"
  BY <1>2 DEF Commit
<1>3. CASE Commit(w) /\ verdict[w] = "ACCEPTED"
  <2>1. Writing(w) /\ pc[v] \in {"write", "commit"} /\ entities[req[v].entity] # NoRow
    BY <1>3 DEF IInv, TxConsistent, Commit
  <2>2. req[w].entity # req[v].entity
    <3>1. CASE req[w].op = "CREATE"
      BY <2>1, <3>1 DEF IInv, ChecksStillHold
    <3>2. CASE req[w].op # "CREATE"
      BY <2>1, <3>2 DEF IInv, ChecksStillHold, LocksExclude
    <3> QED
      BY <3>1, <3>2
  <2>3. entities' = [entities EXCEPT ![req[w].entity] = pending[w]]
    BY <1>3 DEF Commit
  <2> QED
    BY <2>2, <2>3 DEF IInv, TypeOK
<1> QED
  BY <1>1, <1>2, <1>3

LEMMA StillStaleHere ==
  ASSUME IInv, NEW w \in Worker, Step(w) \/ Abort(w) \/ \E r \in Request : Receive(w, r)
  PROVE  StillStale(w)'
<1>1. CASE LoadEntity(w)
  <2> DEFINE row == entities[req[w].entity]
  <2>1. /\ entities' = entities /\ req' = req
        /\ locked' = [locked EXCEPT ![w] = (row # NoRow)]
        /\ StaleTarget(req[w], row) \/ verdict' = [verdict EXCEPT ![w] = "REJECTED"]
           \/ pc' = [pc EXCEPT ![w] = "write"]
    BY <1>1 DEF LoadEntity, Decide, tables
  <2>2. locked'[w] = (row # NoRow)
    BY <2>1 DEF IInv, TypeOK
  <2>3. CASE StaleTarget(req[w], row)
    BY <2>1, <2>2, <2>3 DEF StaleTarget, StillStale
  <2>4. CASE verdict' = [verdict EXCEPT ![w] = "REJECTED"]
    BY <2>4 DEF IInv, TypeOK, StillStale
  <2>5. CASE pc' = [pc EXCEPT ![w] = "write"]
    BY <2>5 DEF IInv, TypeOK, StillStale
  <2> QED
    BY <2>1, <2>3, <2>4, <2>5
<1>2. CASE WriteViolation(w)
  <2>1. req' = req /\ (req[w].op = "CREATE" \/ pc' = [pc EXCEPT ![w] = "replied"])
    BY <1>2 DEF WriteViolation, Finish
  <2> QED
    BY <2>1 DEF IInv, TypeOK, StillStale
<1>3. CASE WriteAccepted(w)
  <2>1. verdict' = [verdict EXCEPT ![w] = "ACCEPTED"]
    BY <1>3 DEF WriteAccepted, Decide
  <2> QED
    BY <2>1 DEF IInv, TypeOK, StillStale
<1>4. CASE \/ LookupAbsent(w) \/ LookupKnown(w) \/ LockDevice(w) \/ Commit(w)
           \/ CommitDuplicate(w) \/ Abort(w) \/ \E r \in Request : Receive(w, r)
  <2>1. PICK at \in {"lookup", "device", "load", "replied"} : pc' = [pc EXCEPT ![w] = at]
    BY <1>4 DEF LookupAbsent, LookupKnown, LockDevice, Commit, CommitDuplicate, Abort, Receive, Finish
  <2> QED
    BY <2>1 DEF IInv, TypeOK, StillStale
<1> QED
  BY <1>1, <1>2, <1>3, <1>4 DEF Step

LEMMA StillStaleElsewhere ==
  ASSUME IInv, NEW w \in Worker, NEW v \in Worker \ {w}, StillStale(v),
         Step(w) \/ Abort(w) \/ \E r \in Request : Receive(w, r)
  PROVE  StillStale(v)'
<1>1. pc'[v] = pc[v] /\ req'[v] = req[v] /\ verdict'[v] = verdict[v] /\ locked'[v] = locked[v]
  BY DEF IInv, TypeOK, Step, Abort, Receive, LookupAbsent, LookupKnown, LockDevice,
         LoadEntity, WriteAccepted, WriteViolation, Commit, CommitDuplicate, Decide, Finish
<1>2. UNCHANGED tables \/ Commit(w)
  BY DEF Step, Receive, LookupAbsent, LookupKnown, LockDevice, LoadEntity,
         WriteAccepted, WriteViolation, CommitDuplicate, Abort
<1>3. pc[v] = "commit" => req[v].entity \in Entity
  BY RequestAssumption DEF IInv, TxConsistent, RequestType
<1> QED
  BY <1>1, <1>2, <1>3, LockedRowStays DEF StillStale

\* The conflict recorded for an UPDATE, CORRECT or DELETE is one against the
\* version the row has when the conflict commits: the lock holds it in between.
THEOREM ConflictIsCurrentTheorem == Spec => ConflictIsCurrent
<1> DEFINE Conflicts ==
      \A w \in Worker :
        /\ pc[w] = "commit" /\ verdict[w] = "CONFLICT" /\ req[w].op # "CREATE"
        /\ conflicts' # conflicts /\ pc'[w] = "replied"
        => CurrentVersion(req[w].entity) # req[w].expected
           Inv == IInv /\ \A w \in Worker : StillStale(w)
<1>1. Init => Inv
  BY InitIInv DEF Init, StillStale
<1>2. Inv /\ [Next]_vars => Inv'
  <2> SUFFICES ASSUME Inv, [Next]_vars, NEW v \in Worker PROVE StillStale(v)'
    BY NextIInv
  <2>1. CASE UNCHANGED vars
    BY <2>1 DEF vars, StillStale
  <2>2. ASSUME NEW w \in Worker, Step(w) \/ Abort(w) \/ \E r \in Request : Receive(w, r)
        PROVE  StillStale(v)'
    BY <2>2, StillStaleHere, StillStaleElsewhere
  <2> QED
    BY <2>1, <2>2 DEF Next
<1>3. Inv => Conflicts
  BY DEF StillStale, CurrentVersion
<1>4. Inv /\ [Next]_vars => [Conflicts]_vars
  BY <1>3
<1> HIDE DEF Inv, Conflicts
<1>5. Spec => [][Conflicts]_vars
  BY <1>1, <1>2, <1>4, PTL DEF Spec
<1> QED
  BY <1>5 DEF ConflictIsCurrent, Conflicts

-----------------------------------------------------------------------------
\* Only a push that has not locked its canonical row yet waits for a lock, and
\* only one about to write waits for a key.
LEMMA WaitsForLater ==
  ASSUME IInv, NEW w \in Worker, NEW v \in Worker, WaitsFor(w, v)
  PROVE  \/ pc[w] = "device" /\ pc[v] \in {"load", "write", "commit"}
         \/ pc[w] = "load" /\ pc[v] \in {"write", "commit"}
         \/ pc[w] = "write" /\ pc[v] = "commit"
BY DEF WaitsFor, MustWait, HoldsDevice, IInv, TxConsistent, Writing

\* No deadlock: of any set of pushes one waits for no lock and no key of the
\* others, whatever they push (pushService.ts: executePush takes the device
\* row, then the canonical row, then the keys it writes, in every operation).
THEOREM NoLockCycleTheorem == Spec => []NoLockCycle
<1>1. IInv => NoLockCycle
  <2> SUFFICES ASSUME IInv, NEW S \in (SUBSET Worker) \ {{}}
               PROVE  \E w \in S : \A v \in S : ~WaitsFor(w, v)
    BY DEF NoLockCycle
  <2>1. CASE \E w \in S : pc[w] \notin {"device", "load", "write"}
    <3>1. PICK w \in S : pc[w] \notin {"device", "load", "write"}
      BY <2>1
    <3>2. \A v \in S : ~WaitsFor(w, v)
      BY <3>1, WaitsForLater
    <3> QED
      BY <3>2
  <2>2. CASE (\A w \in S : pc[w] \in {"device", "load", "write"}) /\ \E w \in S : pc[w] = "write"
    <3>1. PICK w \in S : pc[w] = "write"
      BY <2>2
    <3>2. \A v \in S : ~WaitsFor(w, v)
      BY <2>2, <3>1, WaitsForLater
    <3> QED
      BY <3>2
  <2>3. CASE (\A w \in S : pc[w] \in {"device", "load"}) /\ \E w \in S : pc[w] = "load"
    <3>1. PICK w \in S : pc[w] = "load"
      BY <2>3
    <3>2. \A v \in S : ~WaitsFor(w, v)
      BY <2>3, <3>1, WaitsForLater
    <3> QED
      BY <3>2
  <2>4. CASE \A w \in S : pc[w] = "device"
    <3>1. PICK w \in S : TRUE
      OBVIOUS
    <3>2. \A v \in S : ~WaitsFor(w, v)
      BY <2>4, WaitsForLater
    <3> QED
      BY <3>2
  <2> QED
    BY <2>1, <2>2, <2>3, <2>4
<1> QED
  BY <1>1, InvariantTheorem, PTL

=============================================================================

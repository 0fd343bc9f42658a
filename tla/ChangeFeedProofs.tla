-------------------------- MODULE ChangeFeedProofs --------------------------
(***************************************************************************)
(* Proofs about ChangeFeed for every set of connections, devices, entities *)
(* and requests, every set of readers and every page size.                 *)
(***************************************************************************)
EXTENDS ChangeFeed, PushPipelineProofs, FiniteSetTheorems

(************************* the inductive invariant *************************)

\* The device row is locked exclusively from LockDevice to the end.
DevicesExclude ==
  \A w, v \in Worker : w # v /\ HoldsDevice(w) /\ HoldsDevice(v) => req[w].device # req[v].device

\* A change that is about to commit comes after every committed change its
\* device pushed.
PendingComesLastOfDevice ==
  \A w \in Worker : Writing(w) =>
    \A row \in feed : idem[row.sid].device = req[w].device => row.seq < seq[w]

\* The change at a reader's cursor is a committed one it was handed.
CursorDelivered ==
  \A d \in Reader : cursor[d] # 0 =>
    \E row \in feed : row.seq = cursor[d] /\ row.seq \in delivered[d]

ReaderTypes ==
  /\ cursor \in [Reader -> Nat]
  /\ delivered \in [Reader -> SUBSET Nat]
  /\ IsFiniteSet(feed)

FIInv ==
  /\ IInv /\ DevicesExclude /\ PendingComesLastOfDevice
  /\ ReaderTypes /\ CursorDelivered /\ GapsOnlyAcrossSources

(************************* the pipeline's own part *************************)

\* The submission of a feed row is settled, and stays as it was recorded.
LEMMA FeedIsSettled ==
  ASSUME IInv, NEW row \in feed
  PROVE  row \in FeedRow /\ row.sid \in Submission /\ idem[row.sid] # NoRecord
BY DEF IInv, TypeOK, ExactlyOnce, Accepted, Settled, FeedRow

LEMMA RecordStays ==
  ASSUME IInv, NEW w \in Worker, UNCHANGED tables \/ Commit(w), NEW row \in feed
  PROVE  idem'[row.sid] = idem[row.sid]
<1>1. row.sid \in Submission /\ idem[row.sid] # NoRecord
  BY FeedIsSettled
<1>2. CASE UNCHANGED tables
  BY <1>2 DEF tables
<1>3. CASE Commit(w)
  BY <1>1, <1>3 DEF IInv, TypeOK, Commit
<1> QED
  BY <1>2, <1>3

\* A commit that adds a change adds the one it had pending, of its device.
LEMMA CommitAdds ==
  ASSUME IInv, NEW w \in Worker, Commit(w)
  PROVE  \/ feed' = feed
         \/ \E added \in FeedRow :
              /\ Writing(w) /\ feed' = feed \cup {added}
              /\ added.seq = seq[w] /\ added.entity = req[w].entity
              /\ idem'[added.sid].device = req[w].device
<1>1. CASE verdict[w] # "ACCEPTED"
  BY <1>1 DEF Commit
<1>2. CASE verdict[w] = "ACCEPTED"
  <2> DEFINE added == [seq |-> seq[w], entity |-> req[w].entity,
                       version |-> pending[w].version, sid |-> req[w].sid]
  <2>1. Writing(w) /\ feed' = feed \cup {added}
    BY <1>2 DEF Commit, IInv, TxConsistent
  <2>2. req[w] \in RequestType
    BY RequestAssumption DEF Commit, IInv, TxConsistent
  <2>3. IInv'
    BY <1>2, CommitAcceptedIInv
  <2>4. added \in FeedRow
    BY <2>1, <2>3 DEF IInv, TypeOK
  <2>5. idem'[req[w].sid].device = req[w].device
    BY <2>2 DEF IInv, TypeOK, Commit, RequestType
  <2>6. added.sid = req[w].sid /\ added.seq = seq[w] /\ added.entity = req[w].entity
    OBVIOUS
  <2> HIDE DEF added
  <2> QED
    BY <2>1, <2>4, <2>5, <2>6
<1> QED
  BY <1>1, <1>2

Moves(w) == Step(w) \/ Abort(w) \/ \E r \in Request : Receive(w, r)

LEMMA DevicesExcludeStep ==
  ASSUME IInv, DevicesExclude, NEW w \in Worker, Moves(w)
  PROVE  DevicesExclude'
<1>1. \A v \in Worker \ {w} : pc'[v] = pc[v] /\ req'[v] = req[v]
  BY DEF IInv, TypeOK, Moves, Step, Abort, Receive, LookupAbsent, LookupKnown, LockDevice,
         LoadEntity, WriteAccepted, WriteViolation, Commit, CommitDuplicate, Decide, Finish
<1>2. CASE LockDevice(w)
  <2>1. req' = req /\ \A v \in Worker \ {w} : HoldsDevice(v) => req[v].device # req[w].device
    BY <1>2 DEF LockDevice, Blocked, WaitsFor
  <2> QED
    BY <1>1, <2>1 DEF DevicesExclude, HoldsDevice
<1>3. CASE LoadEntity(w) \/ WriteAccepted(w) \/ WriteViolation(w)
  <2>1. req' = req /\ HoldsDevice(w)
    BY <1>3 DEF LoadEntity, WriteAccepted, WriteViolation, Decide, Finish, HoldsDevice
  <2> QED
    BY <1>1, <2>1 DEF DevicesExclude, HoldsDevice
<1>4. CASE \/ LookupAbsent(w) \/ LookupKnown(w) \/ Commit(w) \/ CommitDuplicate(w) \/ Abort(w)
           \/ \E r \in Request : Receive(w, r)
  <2>1. pc'[w] \in {"lookup", "device", "replied"}
    BY <1>4 DEF IInv, TypeOK, LookupAbsent, LookupKnown, Commit, CommitDuplicate, Abort, Receive, Finish
  <2> QED
    BY <1>1, <2>1 DEF DevicesExclude, HoldsDevice
<1> QED
  BY <1>2, <1>3, <1>4 DEF Moves, Step

LEMMA PendingComesLastOfDeviceStep ==
  ASSUME IInv, DevicesExclude, PendingComesLastOfDevice, NEW w \in Worker, Moves(w)
  PROVE  PendingComesLastOfDevice'
<1> USE DEF Moves
<1>1. \A v \in Worker \ {w} : pending'[v] = pending[v] /\ seq'[v] = seq[v] /\ req'[v] = req[v]
  BY DEF IInv, TypeOK, Step, Abort, Receive, LookupAbsent, LookupKnown, LockDevice,
         LoadEntity, WriteAccepted, WriteViolation, Commit, CommitDuplicate, Decide, Finish
<1>2. UNCHANGED tables \/ Commit(w)
  BY DEF Step, Receive, LookupAbsent, LookupKnown, LockDevice, LoadEntity,
         WriteAccepted, WriteViolation, CommitDuplicate, Abort
<1>3. ASSUME NEW v \in Worker \ {w}, Writing(v)
      PROVE  \A row \in feed' : idem'[row.sid].device = req[v].device => row.seq < seq[v]
  <2>1. \A row \in feed : idem'[row.sid].device = req[v].device => row.seq < seq[v]
    BY <1>2, <1>3, RecordStays DEF PendingComesLastOfDevice
  <2>2. CASE feed' = feed
    BY <2>1, <2>2
  <2>3. CASE Commit(w) /\ feed' # feed
    <3>1. PICK added \in FeedRow : /\ Writing(w) /\ feed' = feed \cup {added}
                                   /\ idem'[added.sid].device = req[w].device
      BY <2>3, CommitAdds
    <3>2. HoldsDevice(w) /\ HoldsDevice(v)
      BY <1>3, <3>1 DEF IInv, TxConsistent, HoldsDevice
    <3>3. req[w].device # req[v].device
      BY <3>2 DEF DevicesExclude
    <3> QED
      BY <2>1, <3>1, <3>3
  <2> QED
    BY <1>2, <2>2, <2>3 DEF tables
<1>4. CASE WriteAccepted(w)
  <2>1. seq'[w] = nextSeq /\ feed' = feed
    BY <1>4 DEF WriteAccepted, IInv, TypeOK, tables
  <2>2. \A row \in feed : row.seq < nextSeq
    BY DEF IInv, PendingComesLast
  <2> QED
    BY <1>1, <1>3, <2>1, <2>2 DEF PendingComesLastOfDevice, Writing
<1>5. CASE ~Writing(w)'
  BY <1>1, <1>3, <1>5 DEF PendingComesLastOfDevice, Writing
<1>6. WriteAccepted(w) \/ ~Writing(w)'
  <2>1. CASE LookupKnown(w) \/ Commit(w) \/ CommitDuplicate(w) \/ Abort(w)
    BY <2>1 DEF LookupKnown, Commit, CommitDuplicate, Abort, Finish, Writing, IInv, TypeOK
  <2>2. CASE WriteViolation(w) /\ Finish(w, "ERROR")
    BY <2>2 DEF Finish, Writing, IInv, TypeOK
  <2>3. CASE \/ LookupAbsent(w) \/ LockDevice(w) \/ LoadEntity(w)
             \/ WriteViolation(w) /\ pending' = pending
             \/ \E r \in Request : Receive(w, r)
    <3>1. pending' = pending /\ pc[w] # "commit"
      BY <2>3 DEF LookupAbsent, LockDevice, LoadEntity, WriteViolation, Receive
    <3> QED
      BY <3>1 DEF Writing, IInv, TxConsistent
  <2>4. WriteViolation(w) => pending' = pending \/ Finish(w, "ERROR")
    BY DEF WriteViolation
  <2> QED
    BY <2>1, <2>2, <2>3, <2>4 DEF Step
<1> QED
  BY <1>4, <1>5, <1>6

(****************************** the readers ********************************)

LEMMA ReadersStep ==
  ASSUME FIInv, NEW w \in Worker, Moves(w), UNCHANGED <<cursor, delivered>>
  PROVE  ReaderTypes' /\ CursorDelivered' /\ GapsOnlyAcrossSources'
<1> USE DEF FIInv, Moves
<1>1. UNCHANGED tables \/ Commit(w)
  BY DEF Step, Receive, LookupAbsent, LookupKnown, LockDevice, LoadEntity,
         WriteAccepted, WriteViolation, CommitDuplicate, Abort
<1>2. \A row \in feed : idem'[row.sid].device = idem[row.sid].device
  BY <1>1, RecordStays
<1>3. CASE feed' = feed
  <2>1. ReaderTypes' /\ CursorDelivered'
    BY <1>3 DEF ReaderTypes, CursorDelivered
  <2>2. GapsOnlyAcrossSources'
    BY <1>2, <1>3 DEF GapsOnlyAcrossSources
  <2> QED
    BY <2>1, <2>2
<1>4. CASE Commit(w) /\ feed' # feed
  <2>1. PICK added \in FeedRow :
          /\ Writing(w) /\ feed' = feed \cup {added}
          /\ added.seq = seq[w] /\ added.entity = req[w].entity
          /\ idem'[added.sid].device = req[w].device
    BY <1>4, CommitAdds
  <2>2. ReaderTypes'
    BY <2>1, FS_AddElement DEF ReaderTypes
  <2>3. CursorDelivered'
    BY <2>1 DEF CursorDelivered
  <2>4. ASSUME NEW d \in Reader, added.seq <= cursor[d]
        PROVE  \E row \in feed : /\ row.seq \in delivered[d] /\ row.seq > added.seq
                                 /\ row.entity # added.entity
                                 /\ idem'[row.sid].device # idem'[added.sid].device
    <3>1. added.seq \in Nat \ {0} /\ cursor[d] \in Nat
      BY DEF FeedRow, ReaderTypes
    <3>2. cursor[d] # 0
      BY <2>4, <3>1
    <3>3. PICK row \in feed : row.seq = cursor[d] /\ row.seq \in delivered[d]
      BY <3>2 DEF CursorDelivered
    <3>4. row.seq # seq[w] /\ ~(row.seq < seq[w])
      BY <2>1, <2>4, <3>1, <3>3 DEF IInv, PendingComesLast
    <3>5. row.seq > added.seq
      BY <2>1, <2>4, <3>1, <3>3, <3>4
    <3>6. row.entity # added.entity
      BY <2>1, <3>4 DEF IInv, PendingComesLast
    <3>7. idem'[row.sid].device # req[w].device
      BY <1>2, <2>1, <3>4 DEF PendingComesLastOfDevice
    <3> QED
      BY <2>1, <3>3, <3>5, <3>6, <3>7
  <2>5. ASSUME NEW d \in Reader, NEW missed \in feed,
               missed.seq <= cursor[d], missed.seq \notin delivered[d]
        PROVE  \E row \in feed : /\ row.seq \in delivered[d] /\ row.seq > missed.seq
                                 /\ row.entity # missed.entity
                                 /\ idem'[row.sid].device # idem'[missed.sid].device
    BY <1>2, <2>5 DEF GapsOnlyAcrossSources
  <2>6. GapsOnlyAcrossSources'
    <3> SUFFICES ASSUME NEW d \in Reader, NEW missed \in feed',
                        missed.seq <= cursor[d], missed.seq \notin delivered[d]
                 PROVE  \E row \in feed' : /\ row.seq \in delivered[d] /\ row.seq > missed.seq
                                           /\ row.entity # missed.entity
                                           /\ idem'[row.sid].device # idem'[missed.sid].device
      BY DEF GapsOnlyAcrossSources
    <3>1. feed \subseteq feed' /\ (missed \in feed \/ missed = added)
      BY <2>1
    <3>2. CASE missed \in feed
      BY <2>5, <3>1, <3>2
    <3>3. CASE missed = added
      BY <2>4, <3>1, <3>3
    <3> QED
      BY <3>1, <3>2, <3>3
  <2> QED
    BY <2>2, <2>3, <2>6
<1> QED
  BY <1>1, <1>3, <1>4 DEF tables

\* Between the cursor and the last change of a page nothing is left out.
LEMMA PageHasNoGap ==
  ASSUME IsFiniteSet(feed), feed \subseteq FeedRow, NEW after \in Nat,
         NEW last \in Page(after), NEW row \in feed, row.seq > after, row.seq <= last.seq
  PROVE  row.seq = last.seq \/ row \in Page(after)
<1> DEFINE Below(n) == {r \in feed : r.seq > after /\ r.seq < n}
<1>1. row.seq \in Nat /\ last.seq \in Nat /\ last \in feed /\ Cardinality(Below(last.seq)) < PageLimit
  BY DEF Page, FeedRow
<1>2. CASE row.seq < last.seq
  <2>1. \A r \in feed : r.seq \in Nat
    BY DEF FeedRow
  <2>2. Below(row.seq) \in SUBSET Below(last.seq) /\ Below(last.seq) \in SUBSET feed
    BY <1>1, <1>2, <2>1
  <2> HIDE DEF Below
  <2>3. IsFiniteSet(Below(last.seq))
    BY <2>2, FS_Subset
  <2>4. Cardinality(Below(row.seq)) <= Cardinality(Below(last.seq))
    BY <2>2, <2>3, FS_Subset
  <2>5. Cardinality(Below(row.seq)) \in Nat /\ Cardinality(Below(last.seq)) \in Nat
    BY <2>2, <2>3, FS_Subset, FS_CardinalityType
  <2>6. Cardinality(Below(row.seq)) < PageLimit
    BY <1>1, <2>4, <2>5, ReaderAssumption
  <2> QED
    BY <2>6 DEF Page, Below
<1> QED
  BY <1>1, <1>2

LEMMA PullStep ==
  ASSUME FIInv, NEW d \in Reader, PullChanges(d)
  PROVE  FIInv'
<1> USE DEF FIInv
<1> DEFINE page == Page(cursor[d])
           handed == {row.seq : row \in page}
<1>1. PICK last \in page : (\A row \in page : row.seq <= last.seq) /\ cursor' = [cursor EXCEPT ![d] = last.seq]
  BY DEF PullChanges
<1>2. delivered' = [delivered EXCEPT ![d] = @ \cup handed] /\ UNCHANGED vars
  BY DEF PullChanges
<1>3. cursor[d] \in Nat /\ feed \subseteq FeedRow /\ page \subseteq feed /\ IsFiniteSet(feed)
  BY DEF ReaderTypes, IInv, TypeOK, Page
<1>4. last.seq \in Nat /\ last.seq > cursor[d] /\ last \in feed /\ last.seq \in handed
  BY <1>3 DEF Page, FeedRow
<1>5. handed \subseteq Nat
  BY <1>3 DEF FeedRow
<1>6. \A row \in feed : row.seq > cursor[d] /\ row.seq <= last.seq => row.seq \in handed
  BY <1>3, <1>4, PageHasNoGap
<1> HIDE DEF handed, page
<1>7. /\ cursor' \in [Reader -> Nat] /\ delivered' \in [Reader -> SUBSET Nat]
      /\ \A c \in Reader : /\ cursor'[c] = IF c = d THEN last.seq ELSE cursor[c]
                           /\ delivered'[c] = IF c = d THEN delivered[c] \cup handed ELSE delivered[c]
  BY <1>1, <1>2, <1>4, <1>5 DEF ReaderTypes
<1>8. IInv' /\ DevicesExclude' /\ PendingComesLastOfDevice'
  <2>1. IInv'
    BY <1>2, NextIInv
  <2> QED
    BY <1>2, <2>1 DEF vars, DevicesExclude, PendingComesLastOfDevice, HoldsDevice, Writing
<1>9. ReaderTypes'
  BY <1>2, <1>7 DEF ReaderTypes, vars
<1>10. CursorDelivered'
  BY <1>2, <1>4, <1>7 DEF CursorDelivered, vars
<1>11. GapsOnlyAcrossSources'
  <2> SUFFICES ASSUME NEW c \in Reader, NEW missed \in feed,
                      missed.seq <= cursor'[c], missed.seq \notin delivered'[c]
               PROVE  \E row \in feed : /\ row.seq \in delivered'[c] /\ row.seq > missed.seq
                                        /\ row.entity # missed.entity
                                        /\ idem[row.sid].device # idem[missed.sid].device
    BY <1>2 DEF GapsOnlyAcrossSources, vars
  <2>1. missed.seq \in Nat
    BY <1>3 DEF FeedRow
  <2>2. missed.seq <= cursor[c] /\ missed.seq \notin delivered[c]
    BY <1>3, <1>4, <1>6, <1>7, <2>1
  <2>3. PICK row \in feed : /\ row.seq \in delivered[c] /\ row.seq > missed.seq
                            /\ row.entity # missed.entity
                            /\ idem[row.sid].device # idem[missed.sid].device
    BY <2>2 DEF GapsOnlyAcrossSources
  <2>4. row.seq \in delivered'[c]
    BY <1>7, <2>3
  <2> QED
    BY <2>3, <2>4
<1> QED
  BY <1>8, <1>9, <1>10, <1>11

\* A reader that pages through the feed misses a change only by having been
\* handed a later one of another device to another entity: what one device
\* pushed, and what happened to one entity, is read without gaps.
THEOREM GapsTheorem == FSpec => []GapsOnlyAcrossSources
<1>1. FInit => FIInv
  <2> SUFFICES ASSUME FInit PROVE FIInv
    OBVIOUS
  <2>1. IInv
    BY InitIInv DEF FInit
  <2>2. feed = {} /\ IsFiniteSet(feed)
    BY FS_EmptySet DEF FInit, Init
  <2> QED
    BY <2>1, <2>2 DEF FInit, Init, FIInv, DevicesExclude, PendingComesLastOfDevice, ReaderTypes,
                      CursorDelivered, GapsOnlyAcrossSources, HoldsDevice
<1>2. FIInv /\ [FNext]_fvars => FIInv'
  <2> SUFFICES ASSUME FIInv, [FNext]_fvars PROVE FIInv'
    OBVIOUS
  <2>1. ASSUME NEW w \in Worker, Moves(w), UNCHANGED <<cursor, delivered>> PROVE FIInv'
    <3>1. Next
      BY <2>1 DEF Moves, Next
    <3>2. IInv'
      BY <3>1, NextIInv DEF FIInv
    <3>3. DevicesExclude' /\ PendingComesLastOfDevice'
      BY <2>1, DevicesExcludeStep, PendingComesLastOfDeviceStep DEF FIInv
    <3> QED
      BY <2>1, <3>2, <3>3, ReadersStep DEF FIInv
  <2>2. ASSUME NEW d \in Reader, PullChanges(d) PROVE FIInv'
    BY <2>2, PullStep
  <2>3. CASE UNCHANGED fvars
    <3>1. UNCHANGED vars /\ UNCHANGED <<cursor, delivered>>
      BY <2>3 DEF fvars, vars
    <3>2. IInv'
      BY <3>1, NextIInv DEF FIInv
    <3> QED
      BY <3>1, <3>2 DEF vars, FIInv, DevicesExclude, PendingComesLastOfDevice, ReaderTypes,
                        CursorDelivered, GapsOnlyAcrossSources, HoldsDevice, Writing
  <2> QED
    BY <2>1, <2>2, <2>3 DEF FNext, Next, Moves
<1>3. FIInv => GapsOnlyAcrossSources
  BY DEF FIInv
<1> QED
  BY <1>1, <1>2, <1>3, PTL DEF FSpec

=============================================================================

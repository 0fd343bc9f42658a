-------------------------- MODULE SyncCoordinator --------------------------
(***************************************************************************)
(* The sync coordinators of several devices (src/sync/coordinator.ts) over *)
(* their SQLite stores, a lossy network and one server.  A step is what a  *)
(* coordinator does between two awaits or two commits: a crash can fall    *)
(* between any two steps, a local mutation only where the coordinator      *)
(* waits.  The server settles a push in one step, which is what            *)
(* PushPipeline implements (see VersionedStore).                           *)
(*                                                                         *)
(* A definition named X_Fault is X with a plausible bug; it is used by no  *)
(* specification and records what the properties are able to detect.       *)
(***************************************************************************)
EXTENDS Integers, Sequences, FiniteSets

CONSTANTS
  Device,      \* devices with a coordinator
  Submission,  \* submission ids
  Entity,      \* (entity_type, entity_id) pairs
  PinState,    \* the entities whose entity_type is PinState
  RollOf,      \* PinState -> its roll_id
  Mutation,    \* [sid, device, entity, op]: local mutations users may make
  NoRow,       \* no row in canonical_entities
  NoEnvelope,  \* the submission was not made
  PageLimit,   \* pullLimit
  MaxCrash     \* bound of the model: crashes of all devices together

ASSUME MutationAssumption ==
  /\ Mutation \subseteq [sid: Submission, device: Device, entity: Entity,
                         op: {"CREATE", "UPDATE", "CORRECT", "DELETE"}]
  /\ \A m, n \in Mutation : m.sid = n.sid => m = n
  /\ \A m, n \in Mutation : m.op = "CREATE" /\ n.op = "CREATE" /\ m.entity = n.entity => m = n

ASSUME SubmissionAssumption == IsFiniteSet(Submission)

ASSUME PullAssumption == PinState \subseteq Entity /\ PageLimit \in Nat \ {0} /\ MaxCrash \in Nat

VARIABLES
  local,     \* canonical_entities of each device: Entity -> row or NoRow
  envelope,  \* sync_outbox: Submission -> the queued mutation or NoEnvelope
  order,     \* the submissions of each device's sync_outbox by seq
  state,     \* sync_outbox.state, "NONE" before the row exists
  receipts,  \* submissions with a durable receipt:<sid>
  conflicts, \* sync_conflicts: <<"push", sid>> and <<"pull", change_seq>>
  applied,   \* applied_changes
  cursor,    \* the change_cursor checkpoint
  phase,     \* where each coordinator is
  todo,      \* the candidates it has still to push
  page,      \* the downloaded page it has still to apply
  row,       \* server: Entity -> canonical row or NoRow
  outcome,   \* server: the recorded result of each submission, or "NONE"
  feed,      \* server: change_feed by change_seq
  net,       \* push requests on their way to the server
  crashes

device == <<local, envelope, order, state, receipts, conflicts, applied, cursor>>
coordinator == <<phase, todo, page>>
server == <<row, outcome, feed>>
vars == <<local, envelope, order, state, receipts, conflicts, applied, cursor,
          phase, todo, page, row, outcome, feed, net, crashes>>

Settled == {"CONFIRMED", "CONFLICT", "REJECTED"}
SyncState == Settled \cup {"NONE", "QUEUED", "SUBMITTED", "ACCEPTED", "RETRYABLE_ERROR"}
Phase == {"idle", "push", "sent", "accepted", "pull", "page"}

\* A canonical row; by names the submission whose payload it holds.
Row == [version: Nat \ {0}, archived: BOOLEAN, by: Submission]
Envelope == [device: Device, entity: Entity, expected: Nat,
             op: {"CREATE", "UPDATE", "CORRECT", "DELETE"}]

ASSUME NullAssumption == NoRow \notin Row /\ NoEnvelope \notin Envelope

NoPage == [changes |-> <<>>, more |-> FALSE]

Active(r) == r # NoRow /\ ~r.archived

\* The active PinStates of e's roll other than e.
ActivePeers(rows, e) ==
  {f \in PinState \ {e} : e \in PinState /\ RollOf[f] = RollOf[e] /\ Active(rows[f])}

Init ==
  /\ local = [d \in Device |-> [e \in Entity |-> NoRow]]
  /\ envelope = [s \in Submission |-> NoEnvelope]
  /\ order = [d \in Device |-> <<>>]
  /\ state = [s \in Submission |-> "NONE"]
  /\ receipts = {}
  /\ conflicts = [d \in Device |-> {}]
  /\ applied = [d \in Device |-> {}]
  /\ cursor = [d \in Device |-> 0]
  /\ phase = [d \in Device |-> "idle"]
  /\ todo = [d \in Device |-> <<>>]
  /\ page = [d \in Device |-> NoPage]
  /\ row = [e \in Entity |-> NoRow]
  /\ outcome = [s \in Submission |-> "NONE"]
  /\ feed = <<>>
  /\ net = {}
  /\ crashes = 0

-----------------------------------------------------------------------------
(* Local mutations: applyLocalMutation and applyCorrection, one transaction *)
(* that writes the entity and queues its envelope.                          *)

Mutate(m) ==
  LET d == m.device
      old == local[d][m.entity]
      expected == IF m.op = "CREATE" THEN 0 ELSE old.version
  IN  /\ state[m.sid] = "NONE"
      /\ phase[d] \in {"idle", "sent", "pull", "page"}
      /\ IF m.op = "CREATE"
         THEN old = NoRow /\ ActivePeers(local[d], m.entity) = {}
         ELSE Active(old)
      /\ local' = [local EXCEPT ![d][m.entity] =
                     [version |-> expected + 1, archived |-> m.op = "DELETE", by |-> m.sid]]
      /\ envelope' = [envelope EXCEPT ![m.sid] =
                        [device |-> d, entity |-> m.entity, expected |-> expected, op |-> m.op]]
      /\ order' = [order EXCEPT ![d] = Append(@, m.sid)]
      /\ state' = [state EXCEPT ![m.sid] = "QUEUED"]
      /\ UNCHANGED <<receipts, conflicts, applied, cursor, coordinator, server, net, crashes>>

-----------------------------------------------------------------------------
(* pushPending *)

Pending == {"QUEUED", "RETRYABLE_ERROR"}
Resumable == {"SUBMITTED", "ACCEPTED"}

\* The rows of an outbox that are in one of the states, by seq.
Selected(found, s, states) == IF state[s] \in states THEN Append(found, s) ELSE found

InStates(outbox, states) ==
  LET found[i \in 0..Len(outbox)] ==
        IF i = 0 THEN <<>> ELSE Selected(found[i - 1], outbox[i], states)
  IN  found[Len(outbox)]

\* Only pending() is read: what was submitted before a crash is forgotten.
Candidates_Fault(d) == InStates(order[d], Pending)

\* pending() followed by resumable(), each by seq.
Candidates(d) == InStates(order[d], Pending) \o InStates(order[d], Resumable)

\* syncOnce or pushPending is called: the candidates are read once, up front.
StartPush(d) ==
  /\ phase[d] = "idle"
  /\ phase' = [phase EXCEPT ![d] = "push"]
  /\ todo' = [todo EXCEPT ![d] = Candidates(d)]
  /\ UNCHANGED <<device, page, server, net, crashes>>

\* The candidate is sent before it is marked.
MarkSubmitted_Fault(s) == state[s]

\* outbox.markSubmitted, for an entry that was not submitted before.
MarkSubmitted(s) ==
  IF state[s] \in Pending THEN "SUBMITTED" ELSE state[s]

\* The next candidate is marked SUBMITTED and sent.  (Copies of a settled submission only replay its result, so net
\* keeps track of the others.)
Send(d) ==
  LET s == Head(todo[d])
  IN  /\ phase[d] = "push"
      /\ todo[d] # <<>>
      /\ state' = [state EXCEPT ![s] = MarkSubmitted(s)]
      /\ net' = IF outcome[s] = "NONE" THEN net \cup {s} ELSE net
      /\ phase' = [phase EXCEPT ![d] = "sent"]
      /\ UNCHANGED <<local, envelope, order, receipts, conflicts, applied, cursor,
                     todo, page, server, crashes>>

\* The awaited push resolves to outcome "retryable": a network failure, the
\* timeout, a 5xx.  The request may still reach the server.
PushFails(d) ==
  /\ phase[d] = "sent"
  /\ state' = [state EXCEPT ![Head(todo[d])] = "RETRYABLE_ERROR"]
  /\ todo' = [todo EXCEPT ![d] = Tail(@)]
  /\ phase' = [phase EXCEPT ![d] = "push"]
  /\ UNCHANGED <<local, envelope, order, receipts, conflicts, applied, cursor,
                 page, server, net, crashes>>

\* The status of the response is stored as it is, also of a replay.
PushAccepted_Fault(d) ==
  LET s == Head(todo[d])
      status == IF s \in receipts THEN "ALREADY_ACCEPTED" ELSE "ACCEPTED"
  IN  /\ phase[d] = "sent"
      /\ outcome[s] = "ACCEPTED"
      /\ state' = [state EXCEPT ![s] = status]
      /\ receipts' = receipts \cup {s}
      /\ phase' = [phase EXCEPT ![d] = "accepted"]
      /\ UNCHANGED <<local, envelope, order, conflicts, applied, cursor,
                     todo, page, server, net, crashes>>

\* ACCEPTED or ALREADY_ACCEPTED: the receipt is stored with the state ...
PushAccepted(d) ==
  LET s == Head(todo[d])
  IN  /\ phase[d] = "sent"
      /\ outcome[s] = "ACCEPTED"
      /\ state' = [state EXCEPT ![s] = "ACCEPTED"]
      /\ receipts' = receipts \cup {s}
      /\ phase' = [phase EXCEPT ![d] = "accepted"]
      /\ UNCHANGED <<local, envelope, order, conflicts, applied, cursor,
                     todo, page, server, net, crashes>>

\* ... and confirmed by a second write.
Confirm(d) ==
  /\ phase[d] = "accepted"
  /\ state' = [state EXCEPT ![Head(todo[d])] = "CONFIRMED"]
  /\ todo' = [todo EXCEPT ![d] = Tail(@)]
  /\ phase' = [phase EXCEPT ![d] = "push"]
  /\ UNCHANGED <<local, envelope, order, receipts, conflicts, applied, cursor,
                 page, server, net, crashes>>

\* CONFLICT: state and conflict record in one transaction.  REJECTED: state only.
PushRefused(d) ==
  LET s == Head(todo[d])
  IN  /\ phase[d] = "sent"
      /\ outcome[s] \in {"CONFLICT", "REJECTED"}
      /\ state' = [state EXCEPT ![s] = outcome[s]]
      /\ conflicts' = IF outcome[s] = "CONFLICT"
                      THEN [conflicts EXCEPT ![d] = @ \cup {<<"push", s>>}] ELSE conflicts
      /\ todo' = [todo EXCEPT ![d] = Tail(@)]
      /\ phase' = [phase EXCEPT ![d] = "push"]
      /\ UNCHANGED <<local, envelope, order, receipts, applied, cursor,
                     page, server, net, crashes>>

-----------------------------------------------------------------------------
(* pull *)

\* syncOnce goes on with pull after the last candidate; pull may also be
\* called by itself.
StartPull(d) ==
  /\ \/ phase[d] = "idle"
     \/ phase[d] = "push" /\ todo[d] = <<>>
  /\ phase' = [phase EXCEPT ![d] = "pull"]
  /\ UNCHANGED <<device, todo, page, server, net, crashes>>

\* The server reads a page after the cursor: each change carries the version
\* of its own row and the payload the entity has now.  The response travels.
Download(d) ==
  LET last == IF cursor[d] + PageLimit < Len(feed) THEN cursor[d] + PageLimit ELSE Len(feed)
      Change(n) == [seq |-> n, entity |-> feed[n].entity, version |-> feed[n].version,
                    payload |-> row[feed[n].entity]]
  IN  /\ phase[d] = "pull"
      /\ page' = [page EXCEPT ![d] =
                    [changes |-> [i \in 1..(last - cursor[d]) |-> Change(cursor[d] + i)],
                     more |-> last < Len(feed)]]
      /\ phase' = [phase EXCEPT ![d] = "page"]
      /\ UNCHANGED <<device, todo, server, net, crashes>>

\* The pull resolves to outcome "retryable" and returns.
PullFails(d) ==
  /\ phase[d] \in {"pull", "page"}
  /\ phase' = [phase EXCEPT ![d] = "idle"]
  /\ page' = [page EXCEPT ![d] = NoPage]
  /\ UNCHANGED <<device, todo, server, net, crashes>>

\* entities.get: archived rows are not found.
Found(rows, e) == IF Active(rows[e]) THEN rows[e] ELSE NoRow

\* Pulled PinStates are installed without looking at their roll.
AssociationConflict_Fault(rows, change) == FALSE

\* handlePinStatePullAssociation: installing the PinState would give its roll
\* a second active one.
AssociationConflict(rows, change) ==
  ~change.payload.archived /\ ActivePeers(rows, change.entity) # {}

\* A pulled deletion is taken for an entity that is already gone.
ApplyRemoteChange_Fault(rows, change) ==
  LET existing == Found(rows, change.entity)
  IN  IF \/ change.payload.archived
         \/ existing # NoRow /\ change.version <= existing.version
      THEN rows
      ELSE [rows EXCEPT ![change.entity] = change.payload]

\* applyRemoteChange
ApplyRemoteChange(rows, change) ==
  LET existing == Found(rows, change.entity)
  IN  IF existing # NoRow /\ change.version <= existing.version
      THEN rows
      ELSE [rows EXCEPT ![change.entity] = change.payload]

\* An association conflict is recorded, but its change is not marked applied.
ApplyChange_Fault(st, change) ==
  IF change.seq \in st.done
  THEN st
  ELSE LET clash == AssociationConflict(st.rows, change)
       IN  [rows |-> IF clash THEN st.rows ELSE ApplyRemoteChange(st.rows, change),
            open |-> IF clash THEN st.open \cup {<<"pull", change.seq>>} ELSE st.open,
            done |-> IF clash THEN st.done ELSE st.done \cup {change.seq}]

\* One change of a page, on the state [rows, open, done] of the transaction.
ApplyChange(st, change) ==
  IF change.seq \in st.done
  THEN st
  ELSE LET clash == AssociationConflict(st.rows, change)
       IN  [rows |-> IF clash THEN st.rows ELSE ApplyRemoteChange(st.rows, change),
            open |-> IF clash THEN st.open \cup {<<"pull", change.seq>>} ELSE st.open,
            done |-> st.done \cup {change.seq}]

\* The changes of a page in their order, on the state of the transaction.
ApplyChanges(start, changes) ==
  LET after[i \in 0..Len(changes)] ==
        IF i = 0 THEN start ELSE ApplyChange(after[i - 1], changes[i])
  IN  after[Len(changes)]

\* The cursor stays where it is while a change of the page is in conflict.
NextCursor_Fault(d) ==
  IF \E i \in DOMAIN page[d].changes : AssociationConflict(local[d], page[d].changes[i])
  THEN cursor[d] ELSE page[d].changes[Len(page[d].changes)].seq

\* next_cursor
NextCursor(d) == page[d].changes[Len(page[d].changes)].seq

\* The page is applied and the cursor advanced in one transaction; the next
\* page is asked for if the server said there are more.
ApplyPage(d) ==
  LET st == ApplyChanges([rows |-> local[d], open |-> conflicts[d], done |-> applied[d]],
                         page[d].changes)
  IN  /\ phase[d] = "page"
      /\ page[d].changes # <<>>
      /\ local' = [local EXCEPT ![d] = st.rows]
      /\ conflicts' = [conflicts EXCEPT ![d] = st.open]
      /\ applied' = [applied EXCEPT ![d] = st.done]
      /\ cursor' = [cursor EXCEPT ![d] = NextCursor(d)]
      /\ phase' = [phase EXCEPT ![d] = IF page[d].more THEN "pull" ELSE "idle"]
      /\ page' = [page EXCEPT ![d] = NoPage]
      /\ UNCHANGED <<envelope, order, state, receipts, todo, server, net, crashes>>

\* An empty page ends the pull.
EndPull(d) ==
  /\ phase[d] = "page"
  /\ page[d].changes = <<>>
  /\ phase' = [phase EXCEPT ![d] = "idle"]
  /\ UNCHANGED <<device, todo, page, server, net, crashes>>

\* The process dies: only what was committed to SQLite survives.
Crash(d) ==
  /\ phase[d] # "idle"
  /\ crashes < MaxCrash
  /\ crashes' = crashes + 1
  /\ phase' = [phase EXCEPT ![d] = "idle"]
  /\ todo' = [todo EXCEPT ![d] = <<>>]
  /\ page' = [page EXCEPT ![d] = NoPage]
  /\ UNCHANGED <<device, server, net>>

-----------------------------------------------------------------------------
(* The server, as PushPipeline implements it, and the network. *)

\* The expected version is not compared: the last write wins.
Judge_Fault(env) ==
  LET canonical == row[env.entity]
  IN  IF env.op = "CREATE"
      THEN IF canonical # NoRow \/ ActivePeers(row, env.entity) # {}
           THEN "CONFLICT" ELSE "ACCEPTED"
      ELSE IF canonical = NoRow THEN "REJECTED" ELSE "ACCEPTED"

\* The verdict of executePush.
Judge(env) ==
  LET canonical == row[env.entity]
  IN  IF env.op = "CREATE"
      THEN IF canonical # NoRow \/ ActivePeers(row, env.entity) # {}
           THEN "CONFLICT" ELSE "ACCEPTED"
      ELSE IF canonical = NoRow THEN "REJECTED"
      ELSE IF canonical.version # env.expected THEN "CONFLICT" ELSE "ACCEPTED"

\* executePush for a submission without a recorded result.
Serve(s) ==
  LET env == envelope[s]
      old == row[env.entity]
      new == [version |-> env.expected + 1, by |-> s,
              archived |-> IF env.op = "CREATE" THEN FALSE ELSE old.archived \/ env.op = "DELETE"]
  IN  /\ s \in net
      /\ outcome[s] = "NONE"
      /\ outcome' = [outcome EXCEPT ![s] = Judge(env)]
      /\ IF Judge(env) = "ACCEPTED"
         THEN /\ row' = [row EXCEPT ![env.entity] = new]
              /\ feed' = Append(feed, [entity |-> env.entity, version |-> new.version, sid |-> s])
         ELSE UNCHANGED <<row, feed>>
      /\ net' = net \ {s}
      /\ UNCHANGED <<device, coordinator, crashes>>

\* The request is lost before the server sees it.
Drop(s) ==
  /\ s \in net
  /\ net' = net \ {s}
  /\ UNCHANGED <<device, coordinator, server, crashes>>

-----------------------------------------------------------------------------
Coordinate(d) ==
  \/ StartPush(d)
  \/ Send(d)
  \/ PushFails(d)
  \/ PushAccepted(d)
  \/ Confirm(d)
  \/ PushRefused(d)
  \/ StartPull(d)
  \/ Download(d)
  \/ PullFails(d)
  \/ ApplyPage(d)
  \/ EndPull(d)

Next ==
  \/ \E m \in Mutation : Mutate(m)
  \/ \E d \in Device : Coordinate(d) \/ Crash(d)
  \/ \E s \in Submission : Serve(s) \/ Drop(s)

Spec == Init /\ [][Next]_vars

\* Sync is called again and again, a coordinator that can go on does, a request
\* answers or times out, and the network delivers what is sent again and again.
Fairness ==
  /\ \A d \in Device :
       /\ SF_vars(StartPush(d))
       /\ WF_vars(Send(d))
       /\ SF_vars(PushAccepted(d) \/ PushRefused(d))
       /\ WF_vars(PushFails(d))
       /\ WF_vars(Confirm(d))
       /\ WF_vars(phase[d] = "push" /\ StartPull(d))
       /\ SF_vars(Download(d))
       /\ SF_vars(ApplyPage(d))
       /\ WF_vars(EndPull(d))
  /\ \A s \in Submission : SF_vars(Serve(s))

FairSpec == Spec /\ Fairness

-----------------------------------------------------------------------------
(* Properties *)

TypeOK ==
  /\ local \in [Device -> [Entity -> Row \cup {NoRow}]]
  /\ envelope \in [Submission -> Envelope \cup {NoEnvelope}]
  /\ \A d \in Device : order[d] \in Seq(Submission) /\ todo[d] \in Seq(Submission)
  /\ state \in [Submission -> SyncState]
  /\ receipts \subseteq Submission
  /\ \A d \in Device : conflicts[d] \subseteq ({"push"} \X Submission) \cup ({"pull"} \X Nat)
  /\ applied \in [Device -> SUBSET Nat]
  /\ cursor \in [Device -> Nat]
  /\ phase \in [Device -> Phase]
  /\ row \in [Entity -> Row \cup {NoRow}]
  /\ outcome \in [Submission -> {"NONE", "ACCEPTED", "CONFLICT", "REJECTED"}]
  /\ feed \in Seq([entity: Entity, version: Nat \ {0}, sid: Submission])
  /\ net \subseteq Submission
  /\ crashes \in 0..MaxCrash

Made(d, s) == envelope[s] # NoEnvelope /\ envelope[s].device = d

\* What an outbox says of a submission is what the server recorded, whatever
\* was lost, timed out, arrived late or crashed: a verdict in the outbox is the
\* server's verdict, an acceptance has its receipt, a conflict its conflict
\* record, and the server never settled what the outbox still calls QUEUED.
OutboxAgreesWithServer ==
  \A s \in Submission :
    /\ state[s] \in {"ACCEPTED", "CONFIRMED"} => s \in receipts
    /\ s \in receipts => outcome[s] = "ACCEPTED"
    /\ state[s] \in {"CONFLICT", "REJECTED"} => outcome[s] = state[s]
    /\ state[s] \in {"NONE", "QUEUED"} => outcome[s] = "NONE"
    /\ \A d \in Device :
         <<"push", s>> \in conflicts[d] <=> Made(d, s) /\ state[s] = "CONFLICT"

\* The checkpoint and the applied changes move together: a device has handled
\* exactly the changes up to its cursor, across crashes and failed pulls.
CursorMatchesApplied == \A d \in Device : applied[d] = 1..cursor[d]

\* ADR-008 on the device: no mutation and no pull gives a roll two active
\* PinStates, so ux_pinstate_active_roll never makes a pull's transaction fail.
OneActivePerRollLocally ==
  \A d \in Device, e \in Entity : Active(local[d][e]) => ActivePeers(local[d], e) = {}

\* Devices converge: once a device's mutations of an entity are confirmed and
\* its cursor has reached the end of the feed, it holds the server's row, unless
\* a pulled change of the entity is on record as a conflict.
Converged ==
  \A d \in Device, e \in Entity :
    /\ cursor[d] = Len(feed)
    /\ \A s \in Submission : Made(d, s) /\ envelope[s].entity = e => state[s] = "CONFIRMED"
    /\ \A n \in 1..Len(feed) : feed[n].entity = e => <<"pull", n>> \notin conflicts[d]
    => local[d][e] = row[e]

\* stateMachine.ts: once the server's acceptance is durable on the device the
\* entry never returns to uncertainty (no ACCEPTED -> RETRYABLE_ERROR).
AcceptanceKept == \A s \in receipts : state[s] \in {"ACCEPTED", "CONFIRMED"}

\* applyRemoteChange's comment: a pull never regresses the local version, so an
\* entity is at least at the version the device's own mutations gave it.
OwnVersionKept ==
  \A d \in Device, s \in Submission :
    Made(d, s) => local[d][envelope[s].entity].version > envelope[s].expected

\* The server the devices see is the versioned store PushPipeline implements.
Store == INSTANCE VersionedStore WITH
  Attempt <- [sid: Submission, entity: Entity, expected: 0..Cardinality(Submission)],
  version <- [e \in Entity |-> IF row[e] = NoRow THEN 0 ELSE row[e].version],
  outcome <- [s \in Submission |-> IF outcome[s] \in {"CONFLICT", "REJECTED"}
                                   THEN "REFUSED" ELSE outcome[s]],
  history <- {feed[n] : n \in DOMAIN feed}
ServerIsStore == Store!ASpec

\* Every queued mutation is settled in the end: confirmed, or durably in
\* conflict or rejected.
EventuallySettled ==
  \A s \in Submission : state[s] = "QUEUED" ~> state[s] \in Settled

\* Every device handles every change of the feed in the end.
EventuallyCaughtUp ==
  \A d \in Device : []<>(cursor[d] = Len(feed))

=============================================================================

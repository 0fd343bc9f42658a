----------------------- MODULE SyncCoordinatorProofs ------------------------
(***************************************************************************)
(* Proofs about SyncCoordinator for every set of devices, entities and     *)
(* mutations, every finite set of submissions, every page size and every   *)
(* number of crashes.                                                      *)
(***************************************************************************)
EXTENDS SyncCoordinator, Induction

(************************* the inductive invariant *************************)

Conflict == ({"push"} \X Submission) \cup ({"pull"} \X Nat)
Change == [seq: Nat, entity: Entity, version: Nat \ {0}, payload: Row]
PageOf == [changes: Seq(Change), more: BOOLEAN]
FeedRow == [entity: Entity, version: Nat \ {0}, sid: Submission]

Types ==
  /\ local \in [Device -> [Entity -> Row \cup {NoRow}]]
  /\ envelope \in [Submission -> Envelope \cup {NoEnvelope}]
  /\ order \in [Device -> Seq(Submission)]
  /\ state \in [Submission -> SyncState]
  /\ receipts \subseteq Submission
  /\ conflicts \in [Device -> SUBSET Conflict]
  /\ applied \in [Device -> SUBSET Nat]
  /\ cursor \in [Device -> Nat]
  /\ phase \in [Device -> Phase]
  /\ todo \in [Device -> Seq(Submission)]
  /\ page \in [Device -> PageOf]
  /\ row \in [Entity -> Row \cup {NoRow}]
  /\ outcome \in [Submission -> {"NONE", "ACCEPTED", "CONFLICT", "REJECTED"}]
  /\ feed \in Seq(FeedRow)
  /\ net \subseteq Submission
  /\ crashes \in 0..MaxCrash

Distinct(q) == \A i, j \in 1..Len(q) : q[i] = q[j] => i = j

\* An outbox row exists exactly where an envelope was queued, and a creation
\* expects version 0; the outbox of a device holds its own submissions, each once.
OutboxRows ==
  /\ \A s \in Submission :
       /\ state[s] = "NONE" <=> envelope[s] = NoEnvelope
       /\ envelope[s] # NoEnvelope /\ envelope[s].op = "CREATE" => envelope[s].expected = 0
  /\ \A d \in Device : Distinct(order[d]) /\ \A i \in 1..Len(order[d]) : Made(d, order[d][i])

\* What a coordinator has still to push is its own, unsettled and listed once;
\* the head has been sent when its answer is awaited.
Open(d, q, at, env, st) ==
  /\ Distinct(q)
  /\ \A i \in 1..Len(q) : env[q[i]] # NoEnvelope /\ env[q[i]].device = d /\ st[q[i]] \notin Settled
  /\ at = "sent" => q # <<>> /\ st[q[1]] \in {"SUBMITTED", "ACCEPTED"}
  /\ at = "accepted" => q # <<>> /\ st[q[1]] = "ACCEPTED"

TodoOpen == \A d \in Device : Open(d, todo[d], phase[d], envelope, state)

\* Only what the outbox calls submitted travels.
NetSubmitted == \A s \in net : state[s] \notin {"NONE", "QUEUED"}

FeedHasRow == \A n \in 1..Len(feed) : row[feed[n].entity] # NoRow

\* The page a coordinator has still to apply follows its cursor.
PageFollowsCursor ==
  \A d \in Device : \A i \in 1..Len(page[d].changes) : page[d].changes[i].seq = cursor[d] + i

\* A version is never higher than the number of accepted submissions.
VersionsCounted ==
  \A e \in Entity :
    row[e] # NoRow => row[e].version <= Cardinality({s \in Submission : outcome[s] = "ACCEPTED"})

IInv ==
  /\ Types /\ OutboxRows /\ TodoOpen /\ NetSubmitted /\ OutboxAgreesWithServer
  /\ FeedHasRow /\ PageFollowsCursor /\ VersionsCounted
  /\ CursorMatchesApplied /\ OneActivePerRollLocally

(************************* sequences and recursion *************************)

LEMMA TailDistinct ==
  ASSUME NEW S, NEW q \in Seq(S), q # <<>>, Distinct(q)
  PROVE  /\ Head(q) = q[1] /\ q[1] \in S /\ 1 \in 1..Len(q)
         /\ Tail(q) \in Seq(S) /\ Distinct(Tail(q))
         /\ \A i \in 1..Len(Tail(q)) :
              i + 1 \in 1..Len(q) /\ Tail(q)[i] = q[i + 1] /\ q[i + 1] # q[1]
BY DEF Distinct

LEMMA AppendElements ==
  ASSUME NEW S, NEW q \in Seq(S), NEW x \in S
  PROVE  /\ Append(q, x) \in Seq(S) /\ Len(Append(q, x)) = Len(q) + 1
         /\ Append(q, x)[Len(q) + 1] = x
         /\ \A i \in 1..Len(q) : Append(q, x)[i] = q[i]
OBVIOUS

\* The recursive functions of the specification exist: by induction on the
\* length there is a function that satisfies the equation.
Selecting(outbox, states, n, f) ==
  f = [i \in 0..n |-> IF i = 0 THEN <<>> ELSE Selected(f[i - 1], outbox[i], states)]

LEMMA InStatesDef ==
  ASSUME NEW outbox, NEW states, Len(outbox) \in Nat
  PROVE  \E f : Selecting(outbox, states, Len(outbox), f) /\ InStates(outbox, states) = f[Len(outbox)]
<1> DEFINE T == {n \in Nat : \E f : Selecting(outbox, states, n, f)}
<1>1. 0 \in T
  <2>1. Selecting(outbox, states, 0, [i \in 0..0 |-> <<>>])
    BY DEF Selecting
  <2> QED
    BY <2>1
<1>2. ASSUME NEW n \in T PROVE n + 1 \in T
  <2>1. PICK f : Selecting(outbox, states, n, f)
    OBVIOUS
  <2> DEFINE g == [i \in 0..(n + 1) |->
                     IF i = n + 1 THEN Selected(f[n], outbox[n + 1], states) ELSE f[i]]
  <2>2. \A i \in 1..(n + 1) : g[i - 1] = f[i - 1]
    OBVIOUS
  <2>3. \A i \in 0..(n + 1) :
          g[i] = IF i = 0 THEN <<>> ELSE Selected(g[i - 1], outbox[i], states)
    BY <2>1, <2>2 DEF Selecting
  <2>4. Selecting(outbox, states, n + 1, g)
    <3> HIDE DEF T
    <3> QED
      BY <2>3 DEF Selecting
  <2> HIDE DEF g
  <2> QED
    BY <2>4
<1>3. T = Nat
  <2>1. T \in SUBSET Nat
    OBVIOUS
  <2> HIDE DEF T
  <2> QED
    BY <1>1, <1>2, <2>1, NatSetInduction
<1>4. \E f : Selecting(outbox, states, Len(outbox), f)
  BY <1>3
<1> QED
  BY <1>4 DEF InStates, Selecting

\* InStates lists rows of the outbox that are in one of the states, each once.
LEMMA InStatesElements ==
  ASSUME NEW outbox \in Seq(Submission), NEW states, Distinct(outbox)
  PROVE  LET q == InStates(outbox, states)
         IN  /\ q \in Seq(Submission) /\ Distinct(q)
             /\ \A k \in 1..Len(q) :
                  state[q[k]] \in states /\ \E j \in 1..Len(outbox) : q[k] = outbox[j]
<1> DEFINE N == Len(outbox)
           Upto(i, q) ==
             /\ q \in Seq(Submission) /\ Distinct(q)
             /\ \A k \in 1..Len(q) : state[q[k]] \in states /\ \E j \in 1..i : q[k] = outbox[j]
<1>1. N \in Nat
  OBVIOUS
<1>2. PICK f : Selecting(outbox, states, N, f) /\ InStates(outbox, states) = f[N]
  BY <1>1, InStatesDef
<1>3. f[0] = <<>> /\ \A i \in 0..(N - 1) : f[i + 1] = Selected(f[i], outbox[i + 1], states)
  <2> HIDE DEF N
  <2> QED
    BY <1>1, <1>2 DEF Selecting
<1>4. Upto(0, f[0])
  BY <1>3 DEF Distinct
<1>5. ASSUME NEW i \in 0..(N - 1), Upto(i, f[i])
      PROVE  Upto(i + 1, f[i + 1])
  <2> DEFINE x == outbox[i + 1]
  <2>1. i + 1 \in 1..N /\ x \in Submission
    BY <1>1
  <2>2. f[i] \in Seq(Submission) /\ Len(f[i]) \in Nat
    BY <1>5
  <2>3. CASE state[x] \notin states
    <3>1. f[i + 1] = f[i]
      BY <1>3, <2>3 DEF Selected
    <3>2. \A k \in 1..Len(f[i]) :
            state[f[i][k]] \in states /\ \E j \in 1..(i + 1) : f[i][k] = outbox[j]
      BY <1>5
    <3>3. f[i] \in Seq(Submission) /\ Distinct(f[i])
      BY <1>5
    <3>4. Upto(i + 1, f[i])
      BY <3>2, <3>3
    <3> HIDE DEF Upto
    <3> QED
      BY <3>1, <3>4
  <2>4. CASE state[x] \in states
    <3>1. f[i + 1] = Append(f[i], x)
      BY <1>3, <2>4 DEF Selected
    <3>2. \A k \in 1..Len(f[i]) : f[i][k] # x
      BY <1>1, <1>5, <2>1 DEF Distinct
    <3> HIDE DEF x
    <3>3. /\ f[i + 1] \in Seq(Submission) /\ Len(f[i + 1]) = Len(f[i]) + 1
          /\ f[i + 1][Len(f[i]) + 1] = x
          /\ \A k \in 1..Len(f[i]) : f[i + 1][k] = f[i][k]
      BY <2>1, <2>2, <3>1, AppendElements
    <3>4. Distinct(f[i + 1])
      <4>1. Distinct(f[i])
        BY <1>5
      <4>2. \A k \in 1..Len(f[i + 1]) : k = Len(f[i]) + 1 \/ k \in 1..Len(f[i])
        BY <2>2, <3>3
      <4> QED
        BY <2>2, <3>2, <3>3, <4>1, <4>2 DEF Distinct
    <3>5. \A k \in 1..Len(f[i + 1]) : k = Len(f[i]) + 1 \/ k \in 1..Len(f[i])
      BY <2>2, <3>3
    <3>6. \A k \in 1..Len(f[i]) :
            state[f[i][k]] \in states /\ \E j \in 1..(i + 1) : f[i][k] = outbox[j]
      BY <1>5
    <3>7. \E j \in 1..(i + 1) : x = outbox[j]
      BY <2>1 DEF x
    <3> QED
      BY <2>4, <3>3, <3>4, <3>5, <3>6, <3>7
  <2> QED
    BY <2>3, <2>4
<1>6. Upto(N, f[N])
  <2> DEFINE T == {i \in 0..N : Upto(i, f[i])}
  <2> HIDE DEF N, Upto
  <2>1. 0 \in T /\ \A i \in 0..(N - 1) : i \in T => i + 1 \in T
    BY <1>1, <1>4, <1>5
  <2> HIDE DEF T
  <2>2. 0..N \subseteq T
    BY <1>1, <2>1, IntervalSetInduction
  <2> USE DEF T
  <2> QED
    BY <1>1, <2>2
<1> QED
  BY <1>2, <1>6

\* What is pushed is what the outbox has pending, then what it may resume.
LEMMA CandidatesElements ==
  ASSUME NEW d \in Device, order[d] \in Seq(Submission), Distinct(order[d])
  PROVE  /\ Candidates(d) \in Seq(Submission) /\ Distinct(Candidates(d))
         /\ \A k \in 1..Len(Candidates(d)) :
              /\ state[Candidates(d)[k]] \in Pending \cup Resumable
              /\ \E j \in 1..Len(order[d]) : Candidates(d)[k] = order[d][j]
<1> DEFINE p == InStates(order[d], Pending)
           r == InStates(order[d], Resumable)
<1>1. /\ p \in Seq(Submission) /\ Distinct(p)
      /\ \A k \in 1..Len(p) :
           state[p[k]] \in Pending /\ \E j \in 1..Len(order[d]) : p[k] = order[d][j]
  BY InStatesElements
<1>2. /\ r \in Seq(Submission) /\ Distinct(r)
      /\ \A k \in 1..Len(r) :
           state[r[k]] \in Resumable /\ \E j \in 1..Len(order[d]) : r[k] = order[d][j]
  BY InStatesElements
<1>3. Candidates(d) = p \o r
  BY DEF Candidates
<1> HIDE DEF p, r
<1> DEFINE q == p \o r
<1>4. /\ q \in Seq(Submission) /\ Len(q) = Len(p) + Len(r)
      /\ \A k \in 1..Len(q) : q[k] = IF k <= Len(p) THEN p[k] ELSE r[k - Len(p)]
      /\ Len(p) \in Nat /\ Len(r) \in Nat
  BY <1>1, <1>2
<1> HIDE DEF q
<1>5. \A k \in 1..Len(q) : \/ k \in 1..Len(p) /\ q[k] = p[k]
                           \/ k - Len(p) \in 1..Len(r) /\ q[k] = r[k - Len(p)]
  BY <1>4
<1>6. \A i \in 1..Len(p), j \in 1..Len(r) : p[i] # r[j]
  BY <1>1, <1>2 DEF Pending, Resumable
<1>7. Distinct(q)
  <2> SUFFICES ASSUME NEW i \in 1..Len(q), NEW j \in 1..Len(q), q[i] = q[j] PROVE i = j
    BY DEF Distinct
  <2>1. CASE i \in 1..Len(p) /\ j \in 1..Len(p)
    BY <1>1, <1>4, <2>1 DEF Distinct
  <2>2. CASE i \notin 1..Len(p) /\ j \notin 1..Len(p)
    <3>1. /\ i - Len(p) \in 1..Len(r) /\ q[i] = r[i - Len(p)]
          /\ j - Len(p) \in 1..Len(r) /\ q[j] = r[j - Len(p)]
      BY <1>5, <2>2
    <3>2. i - Len(p) = j - Len(p)
      BY <1>2, <3>1 DEF Distinct
    <3> QED
      BY <1>4, <3>2
  <2>3. CASE i \in 1..Len(p) /\ j \notin 1..Len(p)
    <3>1. q[i] = p[i] /\ j - Len(p) \in 1..Len(r) /\ q[j] = r[j - Len(p)]
      BY <1>4, <1>5, <2>3
    <3> QED
      BY <1>6, <2>3, <3>1
  <2>4. CASE i \notin 1..Len(p) /\ j \in 1..Len(p)
    <3>1. q[j] = p[j] /\ i - Len(p) \in 1..Len(r) /\ q[i] = r[i - Len(p)]
      BY <1>4, <1>5, <2>4
    <3> QED
      BY <1>6, <2>4, <3>1
  <2> QED
    BY <2>1, <2>2, <2>3, <2>4
<1>8. \A k \in 1..Len(q) : /\ state[q[k]] \in Pending \cup Resumable
                           /\ \E j \in 1..Len(order[d]) : q[k] = order[d][j]
  <2> SUFFICES ASSUME NEW k \in 1..Len(q)
               PROVE  /\ state[q[k]] \in Pending \cup Resumable
                      /\ \E j \in 1..Len(order[d]) : q[k] = order[d][j]
    OBVIOUS
  <2>1. CASE k \in 1..Len(p) /\ q[k] = p[k]
    BY <1>1, <2>1
  <2>2. CASE k - Len(p) \in 1..Len(r) /\ q[k] = r[k - Len(p)]
    BY <1>2, <2>2
  <2> QED
    BY <1>5, <2>1, <2>2
<1> QED
  BY <1>3, <1>4, <1>7, <1>8 DEF q

(************************ the transaction of a page ************************)

Applying(start, changes, n, f) ==
  f = [i \in 0..n |-> IF i = 0 THEN start ELSE ApplyChange(f[i - 1], changes[i])]

LEMMA ApplyChangesDef ==
  ASSUME NEW start, NEW changes, Len(changes) \in Nat
  PROVE  \E f : /\ Applying(start, changes, Len(changes), f)
                /\ ApplyChanges(start, changes) = f[Len(changes)]
<1> DEFINE T == {n \in Nat : \E f : Applying(start, changes, n, f)}
<1>1. 0 \in T
  <2>1. Applying(start, changes, 0, [i \in 0..0 |-> start])
    BY DEF Applying
  <2> QED
    BY <2>1
<1>2. ASSUME NEW n \in T PROVE n + 1 \in T
  <2>1. PICK f : Applying(start, changes, n, f)
    OBVIOUS
  <2> DEFINE g == [i \in 0..(n + 1) |->
                     IF i = n + 1 THEN ApplyChange(f[n], changes[n + 1]) ELSE f[i]]
  <2>2. \A i \in 1..(n + 1) : g[i - 1] = f[i - 1]
    OBVIOUS
  <2>3. \A i \in 0..(n + 1) :
          g[i] = IF i = 0 THEN start ELSE ApplyChange(g[i - 1], changes[i])
    BY <2>1, <2>2 DEF Applying
  <2>4. Applying(start, changes, n + 1, g)
    <3> HIDE DEF T
    <3> QED
      BY <2>3 DEF Applying
  <2> HIDE DEF g
  <2> QED
    BY <2>4
<1>3. T = Nat
  <2>1. T \in SUBSET Nat
    OBVIOUS
  <2> HIDE DEF T
  <2> QED
    BY <1>1, <1>2, <2>1, NatSetInduction
<1>4. \E f : Applying(start, changes, Len(changes), f)
  BY <1>3
<1> QED
  BY <1>4 DEF ApplyChanges, Applying

OneActive(rows) == \A e \in Entity : Active(rows[e]) => ActivePeers(rows, e) = {}

\* A row installed where its roll has no other active PinState, or installed
\* as archived, gives no roll a second one.
LEMMA InstallOneActive ==
  ASSUME NEW rows \in [Entity -> Row \cup {NoRow}], NEW e \in Entity, NEW r \in Row,
         OneActive(rows), r.archived \/ ActivePeers(rows, e) = {}
  PROVE  /\ [rows EXCEPT ![e] = r] \in [Entity -> Row \cup {NoRow}]
         /\ OneActive([rows EXCEPT ![e] = r])
<1> DEFINE new == [rows EXCEPT ![e] = r]
<1>1. new \in [Entity -> Row \cup {NoRow}] /\ new[e] = r /\ \A f \in Entity \ {e} : new[f] = rows[f]
  OBVIOUS
<1> HIDE DEF new
<1>2. ASSUME NEW f \in Entity, Active(new[f]), NEW g \in ActivePeers(new, f)
      PROVE  FALSE
  <2>1. /\ f \in PinState /\ g \in PinState /\ f # g /\ RollOf[f] = RollOf[g]
        /\ Active(new[g]) /\ g \in Entity
    BY <1>2, PullAssumption DEF ActivePeers
  <2>2. CASE f = e
    <3>1. ~r.archived /\ Active(rows[g])
      BY <1>1, <1>2, <2>1, <2>2 DEF Active
    <3> QED
      BY <2>1, <2>2, <3>1 DEF ActivePeers
  <2>3. CASE g = e
    <3>1. ~r.archived /\ Active(rows[f])
      BY <1>1, <1>2, <2>1, <2>3 DEF Active
    <3> QED
      BY <2>1, <2>3, <3>1 DEF ActivePeers
  <2>4. CASE f # e /\ g # e
    <3>1. Active(rows[f]) /\ Active(rows[g])
      BY <1>1, <1>2, <2>1, <2>4
    <3> QED
      BY <2>1, <3>1 DEF OneActive, ActivePeers
  <2> QED
    BY <2>2, <2>3, <2>4
<1> QED
  BY <1>1, <1>2 DEF OneActive, new

\* The state of the transaction after the changes up to c, begun with the
\* conflicts open.
Applied(st, open, c) ==
  /\ st \in [rows: [Entity -> Row \cup {NoRow}], open: SUBSET Conflict, done: SUBSET Nat]
  /\ OneActive(st.rows)
  /\ st.done = 1..c
  /\ \A s \in Submission : <<"push", s>> \in st.open <=> <<"push", s>> \in open

LEMMA ApplyChangeEffect ==
  ASSUME NEW st, NEW open, NEW c \in Nat, Applied(st, open, c),
         NEW change \in Change, change.seq = c + 1
  PROVE  Applied(ApplyChange(st, change), open, c + 1)
<1> DEFINE clash == AssociationConflict(st.rows, change)
           rows == IF clash THEN st.rows ELSE ApplyRemoteChange(st.rows, change)
           recorded == IF clash THEN st.open \cup {<<"pull", change.seq>>} ELSE st.open
<1>1. change.seq \notin st.done /\ st.done \cup {change.seq} = 1..(c + 1)
  BY DEF Applied
<1>2. ApplyChange(st, change) = [rows |-> rows, open |-> recorded, done |-> 1..(c + 1)]
  BY <1>1 DEF ApplyChange
<1>3. st.rows \in [Entity -> Row \cup {NoRow}] /\ OneActive(st.rows) /\ st.open \subseteq Conflict
  BY DEF Applied
<1>4. change.entity \in Entity /\ change.payload \in Row /\ change.seq \in Nat
  BY DEF Change
<1>5. rows \in [Entity -> Row \cup {NoRow}] /\ OneActive(rows)
  <2>1. CASE clash
    BY <1>3, <2>1
  <2>2. CASE ~clash
    <3>1. change.payload.archived \/ ActivePeers(st.rows, change.entity) = {}
      BY <2>2 DEF AssociationConflict
    <3>2. rows = st.rows \/ rows = [st.rows EXCEPT ![change.entity] = change.payload]
      BY <2>2 DEF ApplyRemoteChange
    <3> QED
      BY <1>3, <1>4, <3>1, <3>2, InstallOneActive
  <2> QED
    BY <2>1, <2>2
<1>6. /\ recorded \subseteq Conflict
      /\ \A s \in Submission : <<"push", s>> \in recorded <=> <<"push", s>> \in st.open
  BY <1>3, <1>4 DEF Conflict
<1>7. 1..(c + 1) \subseteq Nat
  OBVIOUS
<1> HIDE DEF rows, recorded
<1> QED
  BY <1>2, <1>5, <1>6, <1>7 DEF Applied

LEMMA ApplyChangesEffect ==
  ASSUME NEW start, NEW open, NEW c \in Nat, Applied(start, open, c),
         NEW changes \in Seq(Change), \A i \in 1..Len(changes) : changes[i].seq = c + i
  PROVE  Applied(ApplyChanges(start, changes), open, c + Len(changes))
<1> DEFINE N == Len(changes)
<1>1. N \in Nat /\ \A i \in 1..N : changes[i] \in Change
  OBVIOUS
<1>2. PICK f : Applying(start, changes, N, f) /\ ApplyChanges(start, changes) = f[N]
  BY <1>1, ApplyChangesDef
<1> HIDE DEF N
<1>3. f[0] = start /\ \A i \in 0..(N - 1) : f[i + 1] = ApplyChange(f[i], changes[i + 1])
  BY <1>1, <1>2 DEF Applying
<1>4. ASSUME NEW i \in 0..(N - 1), Applied(f[i], open, c + i)
      PROVE  Applied(f[i + 1], open, c + (i + 1))
  <2>1. i + 1 \in 1..N /\ changes[i + 1] \in Change /\ changes[i + 1].seq = (c + i) + 1
    BY <1>1 DEF N
  <2>2. Applied(ApplyChange(f[i], changes[i + 1]), open, (c + i) + 1)
    BY <1>1, <1>4, <2>1, ApplyChangeEffect
  <2>3. (c + i) + 1 = c + (i + 1)
    BY <1>1
  <2> QED
    BY <1>3, <2>2, <2>3
<1> DEFINE T == {i \in 0..N : Applied(f[i], open, c + i)}
<1>5. 0 \in T /\ \A i \in 0..(N - 1) : i \in T => i + 1 \in T
  <2>1. c + 0 = c
    OBVIOUS
  <2> QED
    BY <1>1, <1>3, <1>4, <2>1
<1> HIDE DEF T
<1>6. 0..N \subseteq T
  BY <1>1, <1>5, IntervalSetInduction
<1>7. Applied(f[N], open, c + N)
  BY <1>1, <1>6 DEF T
<1> QED
  BY <1>2, <1>7 DEF N

(********************** the invariant, step by step ************************)

LEMMA InitIInv == Init => IInv
<1> SUFFICES ASSUME Init PROVE IInv
  OBVIOUS
<1> USE DEF Init
<1>1. Types
  BY PullAssumption DEF Types, NoPage, PageOf, SyncState, Settled, Phase
<1>2. OutboxRows /\ TodoOpen
  BY DEF OutboxRows, TodoOpen, Open, Distinct
<1>3. NetSubmitted /\ OutboxAgreesWithServer
  BY DEF NetSubmitted, OutboxAgreesWithServer, Made
<1>4. FeedHasRow /\ PageFollowsCursor /\ VersionsCounted
  BY DEF FeedHasRow, PageFollowsCursor, VersionsCounted, NoPage
<1>5. CursorMatchesApplied /\ OneActivePerRollLocally
  BY DEF CursorMatchesApplied, OneActivePerRollLocally, Active
<1> QED
  BY <1>1, <1>2, <1>3, <1>4, <1>5 DEF IInv

\* A step of a coordinator that commits nothing.
LEMMA QuietIInv ==
  ASSUME IInv, UNCHANGED <<device, server>>, net' \subseteq net,
         phase' \in [Device -> Phase], todo' \in [Device -> Seq(Submission)],
         page' \in [Device -> PageOf], crashes' \in 0..MaxCrash,
         TodoOpen', PageFollowsCursor'
  PROVE  IInv'
<1> USE DEF IInv, device, server
<1>1. Types'
  BY DEF Types
<1>2. OutboxRows' /\ NetSubmitted' /\ OutboxAgreesWithServer'
  BY DEF OutboxRows, NetSubmitted, OutboxAgreesWithServer, Made
<1>3. FeedHasRow' /\ VersionsCounted' /\ CursorMatchesApplied' /\ OneActivePerRollLocally'
  BY DEF FeedHasRow, VersionsCounted, CursorMatchesApplied, OneActivePerRollLocally, ActivePeers
<1> QED
  BY <1>1, <1>2, <1>3

\* The page of every other coordinator is the same, and this one's is gone.
LEMMA PageDropped ==
  ASSUME Types, PageFollowsCursor, NEW d \in Device, page' = [page EXCEPT ![d] = NoPage],
         \A c \in Device \ {d} : cursor'[c] = cursor[c]
  PROVE  page' \in [Device -> PageOf] /\ PageFollowsCursor'
<1>1. NoPage \in PageOf /\ Len(NoPage.changes) = 0
  BY DEF NoPage, PageOf
<1>2. page' \in [Device -> PageOf]
  BY <1>1 DEF Types
<1>3. \A c \in Device : page'[c] = IF c = d THEN NoPage ELSE page[c]
  BY DEF Types
<1> QED
  BY <1>1, <1>2, <1>3 DEF PageFollowsCursor

LEMMA StartPushIInv ==
  ASSUME IInv, NEW d \in Device, StartPush(d)
  PROVE  IInv'
<1> USE DEF IInv
<1>1. /\ UNCHANGED <<device, server, page, net, crashes>>
      /\ phase' = [phase EXCEPT ![d] = "push"] /\ todo' = [todo EXCEPT ![d] = Candidates(d)]
  BY DEF StartPush
<1>2. order[d] \in Seq(Submission) /\ Distinct(order[d]) /\ \A i \in 1..Len(order[d]) : Made(d, order[d][i])
  BY DEF Types, OutboxRows
<1> DEFINE q == Candidates(d)
<1>3. /\ q \in Seq(Submission) /\ Distinct(q)
      /\ \A k \in 1..Len(q) : Made(d, q[k]) /\ state[q[k]] \notin Settled
  <2>1. Pending \cup Resumable = {"QUEUED", "RETRYABLE_ERROR", "SUBMITTED", "ACCEPTED"}
    BY DEF Pending, Resumable
  <2>2. /\ q \in Seq(Submission) /\ Distinct(q)
        /\ \A k \in 1..Len(q) : /\ state[q[k]] \in Pending \cup Resumable
                                /\ \E j \in 1..Len(order[d]) : q[k] = order[d][j]
    BY <1>2, CandidatesElements
  <2> HIDE DEF q
  <2>3. \A k \in 1..Len(q) : Made(d, q[k])
    BY <1>2, <2>2
  <2>4. \A k \in 1..Len(q) : state[q[k]] \notin Settled
    BY <2>1, <2>2 DEF Settled
  <2> QED
    BY <2>2, <2>3, <2>4
<1> HIDE DEF q
<1>4. phase' \in [Device -> Phase] /\ todo' \in [Device -> Seq(Submission)]
  BY <1>1, <1>3 DEF Types, Phase, q
<1>5. \A c \in Device : /\ todo'[c] = IF c = d THEN q ELSE todo[c]
                        /\ phase'[c] = IF c = d THEN "push" ELSE phase[c]
  BY <1>1 DEF Types, q
<1>6. TodoOpen'
  BY <1>1, <1>3, <1>5 DEF TodoOpen, Open, Made, device
<1>7. page' \in [Device -> PageOf] /\ crashes' \in 0..MaxCrash /\ PageFollowsCursor' /\ net' \subseteq net
  BY <1>1 DEF Types, PageFollowsCursor, device
<1> QED
  BY <1>1, <1>4, <1>6, <1>7, QuietIInv

\* A coordinator that leaves its push and its commits alone goes on pulling.
LEMMA PullingIInv ==
  ASSUME IInv, NEW d \in Device, UNCHANGED <<device, server, todo, net, crashes>>,
         NEW at \in {"idle", "pull", "page"}, phase' = [phase EXCEPT ![d] = at],
         page' \in [Device -> PageOf], PageFollowsCursor'
  PROVE  IInv'
<1> USE DEF IInv
<1>1. phase' \in [Device -> Phase] /\ \A c \in Device : phase'[c] = IF c = d THEN at ELSE phase[c]
  BY DEF Types, Phase
<1>2. TodoOpen'
  BY <1>1 DEF TodoOpen, Open, device
<1>3. todo' \in [Device -> Seq(Submission)] /\ crashes' \in 0..MaxCrash /\ net' \subseteq net
  BY DEF Types
<1> QED
  BY <1>1, <1>2, <1>3, QuietIInv

LEMMA DownloadIInv ==
  ASSUME IInv, NEW d \in Device, Download(d)
  PROVE  IInv'
<1> USE DEF IInv
<1> DEFINE last == IF cursor[d] + PageLimit < Len(feed) THEN cursor[d] + PageLimit ELSE Len(feed)
           Row0(n) == [seq |-> n, entity |-> feed[n].entity, version |-> feed[n].version,
                       payload |-> row[feed[n].entity]]
           q == [i \in 1..(last - cursor[d]) |-> Row0(cursor[d] + i)]
<1>1. cursor[d] \in Nat /\ Len(feed) \in Nat /\ last \in Nat /\ last <= Len(feed)
  BY PullAssumption DEF Types
<1> HIDE DEF last
<1>2. ASSUME NEW i \in 1..(last - cursor[d]) PROVE Row0(cursor[d] + i) \in Change
  <2>1. cursor[d] + i \in 1..Len(feed)
    BY <1>1
  <2>2. feed[cursor[d] + i] \in FeedRow
    BY <2>1 DEF Types
  <2>3. row[feed[cursor[d] + i].entity] \in Row
    BY <2>1, <2>2 DEF Types, FeedHasRow, FeedRow
  <2> QED
    BY <2>1, <2>2, <2>3 DEF Change, FeedRow
<1>3. q \in Seq(Change) /\ \A i \in 1..Len(q) : q[i].seq = cursor[d] + i
  <2>1. CASE last - cursor[d] \in Nat
    <3>1. Len(q) = last - cursor[d] /\ q \in Seq(Change)
      BY <1>2, <2>1
    <3> QED
      BY <3>1
  <2>2. CASE last - cursor[d] \notin Nat
    <3>1. 1..(last - cursor[d]) = {}
      BY <1>1, <2>2
    <3>2. q = <<>>
      BY <3>1
    <3>3. <<>> \in Seq(Change) /\ Len(<<>>) = 0
      OBVIOUS
    <3> HIDE DEF q
    <3> QED
      BY <3>2, <3>3
  <2> QED
    BY <2>1, <2>2
<1>4. page' = [page EXCEPT ![d] = [changes |-> q, more |-> last < Len(feed)]]
  BY DEF Download, last
<1> HIDE DEF q
<1>5. /\ page' \in [Device -> PageOf]
      /\ \A c \in Device : page'[c].changes = IF c = d THEN q ELSE page[c].changes
  BY <1>3, <1>4 DEF Types, PageOf
<1>6. UNCHANGED <<device, server, todo, net, crashes>> /\ phase' = [phase EXCEPT ![d] = "page"]
  BY DEF Download
<1>7. PageFollowsCursor'
  BY <1>3, <1>5, <1>6 DEF PageFollowsCursor, device
<1> QED
  BY <1>5, <1>6, <1>7, PullingIInv

LEMMA PullIInv ==
  ASSUME IInv, NEW d \in Device, StartPull(d) \/ PullFails(d) \/ EndPull(d)
  PROVE  IInv'
<1> USE DEF IInv
<1>1. CASE StartPull(d) \/ EndPull(d)
  <2>1. UNCHANGED <<device, server, todo, page, net, crashes>>
    BY <1>1 DEF StartPull, EndPull
  <2>2. page' \in [Device -> PageOf] /\ PageFollowsCursor'
    BY <2>1 DEF Types, PageFollowsCursor, device
  <2> QED
    BY <1>1, <2>1, <2>2, PullingIInv DEF StartPull, EndPull
<1>2. CASE PullFails(d)
  <2>1. UNCHANGED <<device, server, todo, net, crashes>> /\ page' = [page EXCEPT ![d] = NoPage]
    BY <1>2 DEF PullFails
  <2>2. page' \in [Device -> PageOf] /\ PageFollowsCursor'
    BY <2>1, PageDropped DEF device
  <2> QED
    BY <1>2, <2>1, <2>2, PullingIInv DEF PullFails
<1> QED
  BY <1>1, <1>2

LEMMA CrashIInv ==
  ASSUME IInv, NEW d \in Device, Crash(d)
  PROVE  IInv'
<1> USE DEF IInv
<1>1. /\ UNCHANGED <<device, server, net>> /\ page' = [page EXCEPT ![d] = NoPage]
      /\ todo' = [todo EXCEPT ![d] = <<>>] /\ phase' = [phase EXCEPT ![d] = "idle"]
  BY DEF Crash
<1>2. crashes' \in 0..MaxCrash
  BY PullAssumption DEF Crash, Types
<1>3. phase' \in [Device -> Phase] /\ todo' \in [Device -> Seq(Submission)]
  BY <1>1 DEF Types, Phase
<1>4. \A c \in Device : /\ todo'[c] = IF c = d THEN <<>> ELSE todo[c]
                        /\ phase'[c] = IF c = d THEN "idle" ELSE phase[c]
  BY <1>1 DEF Types
<1>5. TodoOpen'
  BY <1>1, <1>4 DEF TodoOpen, Open, device, Distinct
<1>6. page' \in [Device -> PageOf] /\ PageFollowsCursor'
  BY <1>1, PageDropped DEF device
<1> QED
  BY <1>1, <1>2, <1>3, <1>5, <1>6, QuietIInv

\* What the head of the candidates may become, and the coordinator with it.
LEMMA TodoStep ==
  ASSUME Types, TodoOpen, NEW d \in Device, todo[d] # <<>>,
         NEW x \in SyncState, state' = [state EXCEPT ![todo[d][1]] = x], UNCHANGED envelope,
         NEW at \in {"push", "sent", "accepted"}, phase' = [phase EXCEPT ![d] = at],
         \/ at = "push" /\ todo' = [todo EXCEPT ![d] = Tail(@)]
         \/ at = "sent" /\ todo' = todo /\ x \in {"SUBMITTED", "ACCEPTED"}
         \/ at = "accepted" /\ todo' = todo /\ x = "ACCEPTED"
  PROVE  TodoOpen' /\ todo' \in [Device -> Seq(Submission)] /\ phase' \in [Device -> Phase]
<1> DEFINE q == todo[d]
           s == q[1]
           Mine(c, t) == envelope[t] # NoEnvelope /\ envelope[t].device = c
<1>1. q \in Seq(Submission) /\ Open(d, q, phase[d], envelope, state) /\ q # <<>>
  BY DEF TodoOpen, Types
<1>2. Distinct(q) /\ \A i \in 1..Len(q) : q[i] \in Submission /\ Mine(d, q[i]) /\ state[q[i]] \notin Settled
  BY <1>1 DEF Open
<1>3. /\ s \in Submission /\ 1 \in 1..Len(q) /\ Tail(q) \in Seq(Submission) /\ Distinct(Tail(q))
      /\ \A i \in 1..Len(Tail(q)) : i + 1 \in 1..Len(q) /\ Tail(q)[i] = q[i + 1] /\ q[i + 1] # s
  BY <1>1, <1>2, TailDistinct
<1>4. Mine(d, s)
  BY <1>2, <1>3
<1>5. \A t \in Submission : state'[t] = IF t = s THEN x ELSE state[t]
  BY <1>3 DEF Types
<1>6. phase' \in [Device -> Phase] /\ \A c \in Device : phase'[c] = IF c = d THEN at ELSE phase[c]
  BY DEF Types, Phase
<1>7. todo' \in [Device -> Seq(Submission)] /\ \A c \in Device \ {d} : todo'[c] = todo[c]
  BY <1>3 DEF Types
<1>8. ASSUME NEW c \in Device \ {d} PROVE Open(c, todo[c], phase[c], envelope, state')
  <2> DEFINE r == todo[c]
  <2>1. r \in Seq(Submission) /\ Open(c, r, phase[c], envelope, state)
    BY DEF Types, TodoOpen
  <2> HIDE DEF r
  <2>2. \A i \in 1..Len(r) : r[i] \in Submission /\ Mine(c, r[i])
    BY <2>1 DEF Open
  <2>3. \A i \in 1..Len(r) : r[i] # s
    BY <1>4, <2>2
  <2> HIDE DEF s
  <2>4. \A i \in 1..Len(r) : state'[r[i]] = state[r[i]]
    BY <1>5, <2>2, <2>3
  <2>5. r # <<>> => 1 \in 1..Len(r)
    BY <2>1
  <2>6. Open(c, r, phase[c], envelope, state')
    BY <2>1, <2>4, <2>5 DEF Open
  <2> QED
    BY <2>6 DEF r
<1>9. Open(d, todo'[d], at, envelope, state')
  <2>1. CASE at = "push"
    <3>1. todo'[d] = Tail(q)
      BY <2>1 DEF Types
    <3>2. \A i \in 1..Len(Tail(q)) : /\ Tail(q)[i] \in Submission /\ Tail(q)[i] # s
                                     /\ Mine(d, Tail(q)[i]) /\ state[Tail(q)[i]] \notin Settled
      BY <1>2, <1>3
    <3> HIDE DEF s, q
    <3>3. \A i \in 1..Len(Tail(q)) : state'[Tail(q)[i]] \notin Settled
      BY <1>5, <3>2
    <3>4. Open(d, Tail(q), at, envelope, state')
      BY <1>3, <2>1, <3>2, <3>3 DEF Open
    <3> QED
      BY <3>1, <3>4
  <2>2. CASE at # "push"
    <3>1. todo' = todo /\ x \in {"SUBMITTED", "ACCEPTED"} /\ (at = "accepted" => x = "ACCEPTED")
      BY <2>2
    <3>2. state'[s] = x /\ todo'[d] = q
      BY <1>3, <1>5, <3>1
    <3>3. \A i \in 1..Len(q) : state'[q[i]] \notin Settled
      BY <1>2, <1>5, <3>1 DEF Settled
    <3>4. Open(d, q, at, envelope, state')
      BY <1>1, <1>2, <2>2, <3>1, <3>2, <3>3 DEF Open
    <3> QED
      BY <3>2, <3>4
  <2> QED
    BY <2>1, <2>2
<1>10. \A c \in Device : Open(c, todo'[c], phase'[c], envelope, state')
  <2> HIDE DEF q, s
  <2> QED
    BY <1>6, <1>7, <1>8, <1>9
<1> QED
  BY <1>6, <1>7, <1>10 DEF TodoOpen

\* A step of pushPending on its head s: the state it stores is sound, the
\* receipt and the conflict record are stored with it.
LEMMA PushStepIInv ==
  ASSUME IInv, NEW d \in Device, todo[d] # <<>>, NEW s \in Submission, s = todo[d][1],
         NEW x \in SyncState \ {"NONE", "QUEUED"}, state' = [state EXCEPT ![s] = x],
         x \in {"ACCEPTED", "CONFIRMED"} => s \in receipts',
         x \in {"CONFLICT", "REJECTED"} => outcome[s] = x,
         receipts' = receipts \/ (receipts' = receipts \cup {s} /\ outcome[s] = "ACCEPTED"),
         x = "CONFLICT" => conflicts' = [conflicts EXCEPT ![d] = @ \cup {<<"push", s>>}],
         x # "CONFLICT" => conflicts' = conflicts,
         net' \subseteq net \cup {s},
         UNCHANGED <<local, envelope, order, applied, cursor, page, server, crashes>>,
         NEW at \in {"push", "sent", "accepted"}, phase' = [phase EXCEPT ![d] = at],
         \/ at = "push" /\ todo' = [todo EXCEPT ![d] = Tail(@)]
         \/ at = "sent" /\ todo' = todo /\ x \in {"SUBMITTED", "ACCEPTED"}
         \/ at = "accepted" /\ todo' = todo /\ x = "ACCEPTED"
  PROVE  IInv'
<1> USE DEF IInv, server
<1>1. TodoOpen' /\ todo' \in [Device -> Seq(Submission)] /\ phase' \in [Device -> Phase]
  BY TodoStep
<1>2. Made(d, s) /\ state[s] \notin Settled
  <2>1. todo[d] \in Seq(Submission) /\ Open(d, todo[d], phase[d], envelope, state)
    BY DEF TodoOpen, Types
  <2>2. 1 \in 1..Len(todo[d])
    BY <2>1
  <2> QED
    BY <2>1, <2>2 DEF Open, Made
<1>3. state' \in [Submission -> SyncState] /\ \A t \in Submission : state'[t] = IF t = s THEN x ELSE state[t]
  BY DEF Types
<1>4. /\ conflicts' \in [Device -> SUBSET Conflict]
      /\ \A c \in Device, t \in Submission :
           <<"push", t>> \in conflicts'[c] <=>
             \/ <<"push", t>> \in conflicts[c]
             \/ c = d /\ t = s /\ x = "CONFLICT"
  <2>1. conflicts \in [Device -> SUBSET Conflict] /\ <<"push", s>> \in Conflict
    BY DEF Types, Conflict
  <2>2. CASE x = "CONFLICT"
    <3>1. conflicts' = [conflicts EXCEPT ![d] = conflicts[d] \cup {<<"push", s>>}]
      BY <2>2
    <3>2. /\ conflicts' \in [Device -> SUBSET Conflict]
          /\ \A c \in Device : conflicts'[c] = IF c = d THEN conflicts[d] \cup {<<"push", s>>} ELSE conflicts[c]
      BY <2>1, <3>1
    <3> QED
      BY <2>2, <3>2
  <2>3. CASE x # "CONFLICT"
    BY <2>1, <2>3
  <2> QED
    BY <2>2, <2>3
<1>5. Types'
  BY <1>1, <1>3, <1>4 DEF Types
<1>6. \A c \in Device, t \in Submission : Made(c, t)' <=> Made(c, t)
  BY DEF Made
<1>7. state[s] # "NONE"
  BY <1>2 DEF OutboxRows, Made
<1>8. OutboxRows'
  <2>1. \A t \in Submission : state'[t] = "NONE" <=> state[t] = "NONE"
    BY <1>3, <1>7
  <2> QED
    BY <2>1 DEF OutboxRows, Made
<1>9. NetSubmitted'
  BY <1>3 DEF NetSubmitted, Types
<1>10. OutboxAgreesWithServer'
  <2> SUFFICES ASSUME NEW t \in Submission
               PROVE  /\ state'[t] \in {"ACCEPTED", "CONFIRMED"} => t \in receipts'
                      /\ t \in receipts' => outcome[t] = "ACCEPTED"
                      /\ state'[t] \in {"CONFLICT", "REJECTED"} => outcome[t] = state'[t]
                      /\ state'[t] \in {"NONE", "QUEUED"} => outcome[t] = "NONE"
                      /\ \A c \in Device :
                           <<"push", t>> \in conflicts'[c] <=> Made(c, t) /\ state'[t] = "CONFLICT"
    BY <1>6 DEF OutboxAgreesWithServer
  <2>1. CASE t # s
    BY <1>3, <1>4, <2>1 DEF OutboxAgreesWithServer
  <2>2. CASE t = s
    <3>1. \A c \in Device : <<"push", s>> \notin conflicts[c]
      BY <1>2 DEF OutboxAgreesWithServer, Settled
    <3>2. \A c \in Device : Made(c, s) => c = d
      BY <1>2 DEF Made
    <3>3. \A c \in Device : <<"push", s>> \in conflicts'[c] <=> Made(c, s) /\ x = "CONFLICT"
      BY <1>2, <1>4, <3>1, <3>2
    <3>4. state'[s] = x
      BY <1>3
    <3>5. s \in receipts' => outcome[s] = "ACCEPTED"
      BY DEF OutboxAgreesWithServer
    <3> QED
      BY <2>2, <3>3, <3>4, <3>5
  <2> QED
    BY <2>1, <2>2
<1>11. FeedHasRow' /\ PageFollowsCursor' /\ VersionsCounted' /\ CursorMatchesApplied' /\ OneActivePerRollLocally'
  BY DEF FeedHasRow, PageFollowsCursor, VersionsCounted, CursorMatchesApplied, OneActivePerRollLocally, ActivePeers
<1> QED
  BY <1>1, <1>5, <1>8, <1>9, <1>10, <1>11

LEMMA PushIInv ==
  ASSUME IInv, NEW d \in Device,
         Send(d) \/ PushFails(d) \/ PushAccepted(d) \/ Confirm(d) \/ PushRefused(d)
  PROVE  IInv'
<1> DEFINE s == todo[d][1]
<1>1. Types /\ OutboxRows /\ TodoOpen /\ OutboxAgreesWithServer
  BY DEF IInv
<1>2. todo[d] \in Seq(Submission) /\ Open(d, todo[d], phase[d], envelope, state)
  BY <1>1 DEF Types, TodoOpen
<1>3. todo[d] # <<>>
  BY <1>2 DEF Open, Send, PushFails, PushAccepted, Confirm, PushRefused
<1>4. 1 \in 1..Len(todo[d]) /\ Head(todo[d]) = s /\ s \in Submission
  BY <1>2, <1>3
<1>5. state[s] \in SyncState \ Settled /\ state[s] # "NONE" /\ (phase[d] = "accepted" => state[s] = "ACCEPTED")
  BY <1>1, <1>2, <1>4 DEF Types, Open, OutboxRows
<1>6. /\ s \in receipts => outcome[s] = "ACCEPTED"
      /\ state[s] = "ACCEPTED" => s \in receipts
  BY <1>1, <1>4 DEF OutboxAgreesWithServer
<1> DEFINE Kept == UNCHANGED <<local, envelope, order, applied, cursor, page, server, crashes>>
           Recorded == conflicts' = [conflicts EXCEPT ![d] = @ \cup {<<"push", s>>}]
           Received(x) ==
             /\ x \in {"ACCEPTED", "CONFIRMED"} => s \in receipts'
             /\ x \in {"CONFLICT", "REJECTED"} => outcome[s] = x
             /\ x = "CONFLICT" => Recorded
             /\ x # "CONFLICT" => conflicts' = conflicts
           Stored(x) ==
             /\ x \in SyncState \ {"NONE", "QUEUED"} /\ state' = [state EXCEPT ![s] = x]
             /\ Received(x)
             /\ receipts' = receipts \/ (receipts' = receipts \cup {s} /\ outcome[s] = "ACCEPTED")
             /\ net' \subseteq net \cup {s} /\ Kept
           Popped == phase' = [phase EXCEPT ![d] = "push"] /\ todo' = [todo EXCEPT ![d] = Tail(@)]
<1>7. ASSUME NEW x, Stored(x), Popped PROVE IInv'
  BY <1>3, <1>4, <1>7, PushStepIInv
<1>8. ASSUME NEW x \in {"SUBMITTED", "ACCEPTED"}, NEW at \in {"sent", "accepted"}, Stored(x),
             at = "accepted" => x = "ACCEPTED", phase' = [phase EXCEPT ![d] = at], todo' = todo
      PROVE  IInv'
  <2>1. x \in SyncState \ {"NONE", "QUEUED"} /\ at \in {"push", "sent", "accepted"}
    BY <1>8
  <2> QED
    BY <1>3, <1>4, <1>8, <2>1, PushStepIInv
<1>9. CASE Send(d)
  <2> DEFINE x == MarkSubmitted(s)
  <2>1. x \in {"SUBMITTED", "ACCEPTED"} /\ (x = "ACCEPTED" => s \in receipts) /\ x \in SyncState \ {"NONE", "QUEUED"}
    BY <1>5, <1>6 DEF MarkSubmitted, Pending, SyncState, Settled
  <2>2. /\ state' = [state EXCEPT ![s] = x] /\ net' \subseteq net \cup {s}
        /\ phase' = [phase EXCEPT ![d] = "sent"] /\ todo' = todo
        /\ receipts' = receipts /\ conflicts' = conflicts /\ Kept
    BY <1>4, <1>9 DEF Send
  <2> HIDE DEF s, x, Kept, Recorded
  <2>3. x \notin {"CONFLICT", "REJECTED", "CONFIRMED"}
    BY <2>1
  <2>4. Received(x)
    BY <2>1, <2>2, <2>3
  <2> HIDE DEF Received
  <2>5. Stored(x)
    BY <2>1, <2>2, <2>4
  <2> HIDE DEF Stored
  <2> QED
    BY <1>8, <2>1, <2>2, <2>5
<1>10. CASE PushFails(d)
  <2>1. /\ state' = [state EXCEPT ![s] = "RETRYABLE_ERROR"] /\ net' \subseteq net \cup {s}
        /\ receipts' = receipts /\ conflicts' = conflicts /\ Popped /\ Kept
    BY <1>4, <1>10 DEF PushFails
  <2> HIDE DEF s, Kept, Recorded, Popped
  <2>2. Stored("RETRYABLE_ERROR")
    <3> DEFINE x == "RETRYABLE_ERROR"
    <3>1. x \in SyncState \ {"NONE", "QUEUED"} /\ x \notin {"CONFLICT", "REJECTED", "CONFIRMED", "ACCEPTED"}
      BY DEF SyncState
    <3>2. state' = [state EXCEPT ![s] = x]
      BY <2>1
    <3> HIDE DEF x
    <3>3. Received(x)
      BY <2>1, <3>1
    <3> HIDE DEF Received
    <3>4. Stored(x)
      BY <2>1, <3>1, <3>2, <3>3
    <3> QED
      BY <3>4 DEF x
  <2> HIDE DEF Stored
  <2> QED
    BY <1>7, <2>1, <2>2
<1>11. CASE PushAccepted(d)
  <2>1. /\ state' = [state EXCEPT ![s] = "ACCEPTED"] /\ net' \subseteq net \cup {s}
        /\ phase' = [phase EXCEPT ![d] = "accepted"] /\ todo' = todo
        /\ receipts' = receipts \cup {s} /\ outcome[s] = "ACCEPTED" /\ conflicts' = conflicts /\ Kept
    BY <1>4, <1>11 DEF PushAccepted
  <2> HIDE DEF s, Kept, Recorded
  <2>2. Stored("ACCEPTED")
    BY <2>1 DEF SyncState
  <2> HIDE DEF Stored
  <2> QED
    BY <1>8, <2>1, <2>2
<1>12. CASE Confirm(d)
  <2>1. /\ state' = [state EXCEPT ![s] = "CONFIRMED"] /\ net' \subseteq net \cup {s} /\ phase[d] = "accepted"
        /\ receipts' = receipts /\ conflicts' = conflicts /\ Popped /\ Kept
    BY <1>4, <1>12 DEF Confirm
  <2> HIDE DEF s, Kept, Recorded, Popped
  <2>2. Stored("CONFIRMED")
    BY <1>5, <1>6, <2>1 DEF SyncState, Settled
  <2> HIDE DEF Stored
  <2> QED
    BY <1>7, <2>1, <2>2
<1>13. CASE PushRefused(d)
  <2> DEFINE x == outcome[s]
  <2>1. /\ state' = [state EXCEPT ![s] = x] /\ net' \subseteq net \cup {s} /\ x \in {"CONFLICT", "REJECTED"}
        /\ receipts' = receipts /\ Popped /\ Kept
        /\ IF x = "CONFLICT" THEN Recorded ELSE conflicts' = conflicts
    BY <1>4, <1>13 DEF PushRefused
  <2>2. x = outcome[s] /\ x \in SyncState \ {"NONE", "QUEUED"}
    BY <2>1 DEF SyncState, Settled
  <2> HIDE DEF s, x, Kept, Recorded, Popped
  <2>3. x \notin {"ACCEPTED", "CONFIRMED"}
    BY <2>1
  <2>4. Received(x)
    BY <2>1, <2>2, <2>3
  <2> HIDE DEF Received
  <2>5. Stored(x)
    BY <2>1, <2>2, <2>4
  <2> HIDE DEF Stored
  <2> QED
    BY <1>7, <2>1, <2>5
<1> QED
  BY <1>9, <1>10, <1>11, <1>12, <1>13

LEMMA ApplyPageIInv ==
  ASSUME IInv, NEW d \in Device, ApplyPage(d)
  PROVE  IInv'
<1> USE DEF IInv, server
<1> DEFINE start == [rows |-> local[d], open |-> conflicts[d], done |-> applied[d]]
           q == page[d].changes
           st == ApplyChanges(start, q)
           c == cursor[d]
<1>1. /\ local[d] \in [Entity -> Row \cup {NoRow}] /\ conflicts[d] \subseteq Conflict
      /\ c \in Nat /\ applied[d] = 1..c /\ q \in Seq(Change) /\ q # <<>>
      /\ \A i \in 1..Len(q) : q[i].seq = c + i
  BY DEF Types, PageOf, CursorMatchesApplied, PageFollowsCursor, ApplyPage
<1>2. OneActive(local[d])
  BY DEF OneActivePerRollLocally, OneActive
<1>3. Applied(start, conflicts[d], c)
  BY <1>1, <1>2 DEF Applied
<1> HIDE DEF start, q, c
<1>4. Applied(st, conflicts[d], c + Len(q))
  BY <1>1, <1>3, ApplyChangesEffect
<1>5. NextCursor(d) = c + Len(q)
  <2>1. Len(q) \in 1..Len(q)
    BY <1>1
  <2> QED
    BY <1>1, <2>1 DEF NextCursor, q
<1>6. /\ local' = [local EXCEPT ![d] = st.rows] /\ conflicts' = [conflicts EXCEPT ![d] = st.open]
      /\ applied' = [applied EXCEPT ![d] = st.done] /\ cursor' = [cursor EXCEPT ![d] = c + Len(q)]
      /\ page' = [page EXCEPT ![d] = NoPage]
      /\ phase' = [phase EXCEPT ![d] = IF page[d].more THEN "pull" ELSE "idle"]
      /\ UNCHANGED <<envelope, order, state, receipts, todo, row, outcome, feed, net, crashes>>
  BY <1>5 DEF ApplyPage, start, q
<1> HIDE DEF st
<1>7. /\ st.rows \in [Entity -> Row \cup {NoRow}] /\ st.open \subseteq Conflict /\ OneActive(st.rows)
      /\ st.done = 1..(c + Len(q)) /\ c + Len(q) \in Nat
      /\ \A s \in Submission : <<"push", s>> \in st.open <=> <<"push", s>> \in conflicts[d]
  BY <1>1, <1>4 DEF Applied
<1>8. /\ local' \in [Device -> [Entity -> Row \cup {NoRow}]]
      /\ \A b \in Device : local'[b] = IF b = d THEN st.rows ELSE local[b]
  BY <1>6, <1>7 DEF Types
<1>9. /\ conflicts' \in [Device -> SUBSET Conflict]
      /\ \A b \in Device : conflicts'[b] = IF b = d THEN st.open ELSE conflicts[b]
  BY <1>6, <1>7 DEF Types
<1>10. /\ applied' \in [Device -> SUBSET Nat] /\ cursor' \in [Device -> Nat]
       /\ \A b \in Device : /\ applied'[b] = IF b = d THEN 1..(c + Len(q)) ELSE applied[b]
                            /\ cursor'[b] = IF b = d THEN c + Len(q) ELSE cursor[b]
  <2>1. 1..(c + Len(q)) \subseteq Nat
    OBVIOUS
  <2> QED
    BY <1>6, <1>7, <2>1 DEF Types
<1>11. page' \in [Device -> PageOf] /\ PageFollowsCursor'
  BY <1>6, <1>10, PageDropped
<1>12. PICK at \in {"pull", "idle"} : phase' = [phase EXCEPT ![d] = at]
  BY <1>6
<1>13. phase' \in [Device -> Phase] /\ \A b \in Device : phase'[b] = IF b = d THEN at ELSE phase[b]
  BY <1>12 DEF Types, Phase
<1>14. Types'
  BY <1>6, <1>8, <1>9, <1>10, <1>11, <1>13 DEF Types
<1>15. TodoOpen'
  BY <1>6, <1>13 DEF TodoOpen, Open
<1>16. OutboxRows' /\ NetSubmitted' /\ FeedHasRow' /\ VersionsCounted'
  BY <1>6 DEF OutboxRows, NetSubmitted, FeedHasRow, VersionsCounted, Made
<1>17. OutboxAgreesWithServer'
  <2>1. \A b \in Device, s \in Submission : <<"push", s>> \in conflicts'[b] <=> <<"push", s>> \in conflicts[b]
    BY <1>7, <1>9
  <2> QED
    BY <1>6, <2>1 DEF OutboxAgreesWithServer, Made
<1>18. CursorMatchesApplied'
  BY <1>10 DEF CursorMatchesApplied
<1>19. OneActivePerRollLocally'
  BY <1>7, <1>8 DEF OneActivePerRollLocally, OneActive
<1> QED
  BY <1>11, <1>14, <1>15, <1>16, <1>17, <1>18, <1>19

LEMMA MutateIInv ==
  ASSUME IInv, NEW m \in Mutation, Mutate(m)
  PROVE  IInv'
<1> USE DEF IInv, server, coordinator
<1> DEFINE d == m.device
           e == m.entity
           s == m.sid
           old == local[d][e]
           expected == IF m.op = "CREATE" THEN 0 ELSE old.version
           new == [version |-> expected + 1, archived |-> m.op = "DELETE", by |-> s]
           queued == [device |-> d, entity |-> e, expected |-> expected, op |-> m.op]
<1>1. d \in Device /\ e \in Entity /\ s \in Submission /\ m.op \in {"CREATE", "UPDATE", "CORRECT", "DELETE"}
  BY MutationAssumption
<1>2. /\ state[s] = "NONE" /\ phase[d] # "accepted"
      /\ IF m.op = "CREATE" THEN old = NoRow /\ ActivePeers(local[d], e) = {} ELSE Active(old)
      /\ local' = [local EXCEPT ![d][e] = new] /\ envelope' = [envelope EXCEPT ![s] = queued]
      /\ order' = [order EXCEPT ![d] = Append(@, s)] /\ state' = [state EXCEPT ![s] = "QUEUED"]
      /\ UNCHANGED <<receipts, conflicts, applied, cursor, phase, todo, page, row, outcome, feed, net, crashes>>
  BY DEF Mutate
<1>3. local[d] \in [Entity -> Row \cup {NoRow}] /\ OneActive(local[d])
  BY <1>1 DEF Types, OneActivePerRollLocally, OneActive
<1>4. expected \in Nat /\ (m.op = "CREATE" => expected = 0) /\ ActivePeers(local[d], e) = {}
  <2>1. CASE m.op = "CREATE"
    BY <1>2, <2>1
  <2>2. CASE m.op # "CREATE"
    <3>1. Active(old)
      BY <1>2, <2>2
    <3>2. old \in Row
      BY <1>1, <1>3, <3>1 DEF Active
    <3> QED
      BY <1>1, <1>3, <2>2, <3>1, <3>2 DEF Row, OneActive
  <2> QED
    BY <2>1, <2>2
<1> HIDE DEF expected
<1>5. new \in Row /\ queued \in Envelope
  BY <1>1, <1>4 DEF Row, Envelope
<1>6. queued # NoEnvelope /\ (queued.op = "CREATE" => queued.expected = 0)
  BY <1>4, <1>5, NullAssumption
<1> HIDE DEF new, queued
<1> DEFINE rows == [local[d] EXCEPT ![e] = new]
<1>7. rows \in [Entity -> Row \cup {NoRow}] /\ OneActive(rows)
  BY <1>1, <1>3, <1>4, <1>5, InstallOneActive
<1>8. /\ local' \in [Device -> [Entity -> Row \cup {NoRow}]]
      /\ \A b \in Device : local'[b] = IF b = d THEN rows ELSE local[b]
  BY <1>1, <1>2, <1>5 DEF Types
<1> HIDE DEF rows
<1>9. /\ envelope' \in [Submission -> Envelope \cup {NoEnvelope}] /\ state' \in [Submission -> SyncState]
      /\ \A t \in Submission : /\ envelope'[t] = IF t = s THEN queued ELSE envelope[t]
                               /\ state'[t] = IF t = s THEN "QUEUED" ELSE state[t]
  BY <1>1, <1>2, <1>5 DEF Types, SyncState
<1>10. order' \in [Device -> Seq(Submission)] /\ \A b \in Device : order'[b] = IF b = d THEN Append(order[d], s) ELSE order[b]
  BY <1>1, <1>2 DEF Types
<1>11. Types'
  BY <1>2, <1>8, <1>9, <1>10 DEF Types
<1>12. envelope[s] = NoEnvelope /\ \A b \in Device : ~Made(b, s)
  BY <1>1, <1>2 DEF OutboxRows, Made
<1> DEFINE Now(b, t) == envelope'[t] # NoEnvelope /\ envelope'[t].device = b
<1>13. \A b \in Device, t \in Submission \ {s} : Now(b, t) <=> Made(b, t)
  BY <1>9 DEF Made
<1>14. Now(d, s)
  BY <1>1, <1>6, <1>9 DEF queued
<1>15. OutboxRows'
  <2>1. \A t \in Submission : /\ state'[t] = "NONE" <=> envelope'[t] = NoEnvelope
                              /\ envelope'[t] # NoEnvelope /\ envelope'[t].op = "CREATE" => envelope'[t].expected = 0
    BY <1>6, <1>9 DEF OutboxRows
  <2>2. ASSUME NEW b \in Device
        PROVE  Distinct(order'[b]) /\ \A i \in 1..Len(order'[b]) : Now(b, order'[b][i])
    <3> DEFINE r == order[b]
    <3>1. r \in Seq(Submission) /\ Distinct(r) /\ \A i \in 1..Len(r) : Made(b, r[i])
      BY DEF Types, OutboxRows
    <3> HIDE DEF r
    <3>2. \A i \in 1..Len(r) : r[i] \in Submission \ {s}
      BY <1>12, <3>1
    <3>3. \A i \in 1..Len(r) : Now(b, r[i])
      BY <1>13, <3>1, <3>2
    <3>4. CASE b # d
      BY <1>10, <3>1, <3>3, <3>4 DEF r
    <3>5. CASE b = d
      <4> DEFINE p == Append(r, s)
      <4>1. /\ p \in Seq(Submission) /\ Len(p) = Len(r) + 1 /\ p[Len(r) + 1] = s
            /\ \A i \in 1..Len(r) : p[i] = r[i]
        BY <1>1, <3>1, AppendElements
      <4>2. order'[b] = p
        BY <1>10, <3>5 DEF r
      <4> HIDE DEF p
      <4>3. Len(r) \in Nat /\ \A i \in 1..Len(p) : i = Len(r) + 1 \/ i \in 1..Len(r)
        BY <3>1, <4>1
      <4>4. Distinct(p)
        BY <3>1, <3>2, <4>1, <4>3 DEF Distinct
      <4>5. \A i \in 1..Len(p) : Now(b, p[i])
        BY <1>14, <3>3, <3>5, <4>1, <4>3
      <4> QED
        BY <4>2, <4>4, <4>5
    <3> QED
      BY <3>4, <3>5
  <2> QED
    BY <2>1, <2>2 DEF OutboxRows, Made
<1>16. TodoOpen'
  <2> SUFFICES ASSUME NEW b \in Device PROVE Open(b, todo[b], phase[b], envelope', state')
    BY <1>2 DEF TodoOpen
  <2> DEFINE r == todo[b]
  <2>1. r \in Seq(Submission) /\ Open(b, r, phase[b], envelope, state)
    BY DEF Types, TodoOpen
  <2> HIDE DEF r
  <2>2. \A i \in 1..Len(r) : r[i] \in Submission /\ r[i] # s
    BY <1>12, <2>1 DEF Open
  <2> HIDE DEF s
  <2>3. \A i \in 1..Len(r) : envelope'[r[i]] = envelope[r[i]] /\ state'[r[i]] = state[r[i]]
    BY <1>9, <2>2
  <2>4. r # <<>> => 1 \in 1..Len(r)
    BY <2>1
  <2>5. Open(b, r, phase[b], envelope', state')
    BY <2>1, <2>3, <2>4 DEF Open
  <2> QED
    BY <2>5 DEF r
<1>17. NetSubmitted'
  BY <1>2, <1>9 DEF NetSubmitted, Types
<1>18. OutboxAgreesWithServer'
  <2>1. ASSUME NEW t \in Submission
        PROVE  /\ state'[t] \in {"ACCEPTED", "CONFIRMED"} => t \in receipts
               /\ t \in receipts => outcome[t] = "ACCEPTED"
               /\ state'[t] \in {"CONFLICT", "REJECTED"} => outcome[t] = state'[t]
               /\ state'[t] \in {"NONE", "QUEUED"} => outcome[t] = "NONE"
               /\ \A b \in Device : <<"push", t>> \in conflicts[b] <=> Now(b, t) /\ state'[t] = "CONFLICT"
    <3>1. CASE t = s
      BY <1>2, <1>9, <1>12, <3>1 DEF OutboxAgreesWithServer
    <3>2. CASE t # s
      BY <1>9, <1>13, <3>2 DEF OutboxAgreesWithServer
    <3> QED
      BY <3>1, <3>2
  <2> QED
    BY <1>2, <2>1 DEF OutboxAgreesWithServer, Made
<1>19. FeedHasRow' /\ PageFollowsCursor' /\ VersionsCounted' /\ CursorMatchesApplied'
  BY <1>2 DEF FeedHasRow, PageFollowsCursor, VersionsCounted, CursorMatchesApplied
<1>20. OneActivePerRollLocally'
  <2>1. \A b \in Device : OneActive(local'[b])
    BY <1>7, <1>8 DEF OneActivePerRollLocally, OneActive
  <2> QED
    BY <2>1 DEF OneActivePerRollLocally, OneActive
<1> QED
  BY <1>11, <1>15, <1>16, <1>17, <1>18, <1>19, <1>20

AcceptedSet == {s \in Submission : outcome[s] = "ACCEPTED"}

\* What Serve does to the row, the feed and the result of a submission it accepts.
LEMMA ServeFacts ==
  ASSUME IInv, NEW s \in Submission, Serve(s)
  PROVE  LET env == envelope[s]
         IN  /\ env \in Envelope /\ outcome[s] = "NONE" /\ state[s] \notin {"NONE", "QUEUED"}
             /\ outcome' = [outcome EXCEPT ![s] = Judge(env)]
             /\ Judge(env) \in {"ACCEPTED", "CONFLICT", "REJECTED"}
             /\ Judge(env) = "ACCEPTED" =>
                  /\ env.expected = IF row[env.entity] = NoRow THEN 0 ELSE row[env.entity].version
                  /\ feed' = Append(feed, [entity |-> env.entity, version |-> env.expected + 1, sid |-> s])
                  /\ \E new \in Row : /\ new.version = env.expected + 1
                                      /\ row' = [row EXCEPT ![env.entity] = new]
             /\ Judge(env) # "ACCEPTED" => UNCHANGED <<row, feed>>
<1> USE DEF IInv
<1> DEFINE env == envelope[s]
           old == row[env.entity]
           archived == IF env.op = "CREATE" THEN FALSE ELSE old.archived \/ env.op = "DELETE"
           new == [version |-> env.expected + 1, by |-> s, archived |-> archived]
<1>1. /\ s \in net /\ outcome[s] = "NONE" /\ outcome' = [outcome EXCEPT ![s] = Judge(env)]
      /\ IF Judge(env) = "ACCEPTED"
         THEN /\ row' = [row EXCEPT ![env.entity] = new]
              /\ feed' = Append(feed, [entity |-> env.entity, version |-> env.expected + 1, sid |-> s])
         ELSE UNCHANGED <<row, feed>>
  BY DEF Serve
<1>2. state[s] \notin {"NONE", "QUEUED"}
  BY <1>1 DEF NetSubmitted
<1>3. env # NoEnvelope /\ env \in Envelope /\ (env.op = "CREATE" => env.expected = 0)
  BY <1>2 DEF OutboxRows, Types
<1>4. Judge(env) \in {"ACCEPTED", "CONFLICT", "REJECTED"}
  BY DEF Judge
<1>5. env.entity \in Entity /\ env.expected \in Nat /\ old \in Row \cup {NoRow}
  BY <1>3 DEF Envelope, Types
<1> HIDE DEF env
<1>6. ASSUME Judge(env) = "ACCEPTED"
      PROVE  /\ env.expected = IF old = NoRow THEN 0 ELSE old.version
             /\ new \in Row
  <2>1. CASE env.op = "CREATE"
    <3>1. old = NoRow
      BY <1>6, <2>1 DEF Judge
    <3>2. archived \in BOOLEAN
      BY <2>1
    <3> HIDE DEF archived, old
    <3>3. new \in Row
      BY <1>5, <3>2 DEF Row
    <3> HIDE DEF new
    <3> QED
      BY <1>3, <2>1, <3>1, <3>3
  <2>2. CASE env.op # "CREATE"
    <3>1. old # NoRow /\ old.version = env.expected
      BY <1>6, <2>2 DEF Judge
    <3>2. old \in Row
      BY <1>5, <3>1
    <3>3. archived \in BOOLEAN
      BY <2>2, <3>2 DEF Row
    <3> HIDE DEF archived, old
    <3> QED
      BY <1>5, <3>1, <3>3 DEF Row
  <2> QED
    BY <2>1, <2>2
<1>7. new.version = env.expected + 1
  OBVIOUS
<1> HIDE DEF new
<1> QED
  BY <1>1, <1>2, <1>3, <1>4, <1>6, <1>7 DEF env

LEMMA ServeIInv ==
  ASSUME IInv, NEW s \in Submission, Serve(s)
  PROVE  IInv'
<1> USE DEF IInv, device, coordinator
<1> DEFINE env == envelope[s]
           verdict == Judge(env)
           change == [entity |-> env.entity, version |-> env.expected + 1, sid |-> s]
<1>1. /\ env \in Envelope /\ outcome[s] = "NONE" /\ state[s] \notin {"NONE", "QUEUED"}
      /\ outcome' = [outcome EXCEPT ![s] = verdict] /\ verdict \in {"ACCEPTED", "CONFLICT", "REJECTED"}
      /\ verdict = "ACCEPTED" =>
           /\ env.expected = IF row[env.entity] = NoRow THEN 0 ELSE row[env.entity].version
           /\ feed' = Append(feed, change)
           /\ \E new \in Row : new.version = env.expected + 1 /\ row' = [row EXCEPT ![env.entity] = new]
      /\ verdict # "ACCEPTED" => UNCHANGED <<row, feed>>
  BY ServeFacts
<1>2. UNCHANGED <<local, envelope, order, state, receipts, conflicts, applied, cursor, phase, todo, page, crashes>>
      /\ net' \subseteq net
  BY DEF Serve
<1>3. env.entity \in Entity /\ env.expected \in Nat /\ change \in FeedRow
  BY <1>1 DEF Envelope, FeedRow
<1> HIDE DEF verdict, change, env
<1>4. /\ outcome' \in [Submission -> {"NONE", "ACCEPTED", "CONFLICT", "REJECTED"}]
      /\ \A t \in Submission : outcome'[t] = IF t = s THEN verdict ELSE outcome[t]
  BY <1>1 DEF Types
<1>5. outcome' \in [Submission -> {"NONE", "ACCEPTED", "CONFLICT", "REJECTED"}] /\ AcceptedSet' =
        IF verdict = "ACCEPTED" THEN AcceptedSet \cup {s} ELSE AcceptedSet
  BY <1>1, <1>4 DEF AcceptedSet
<1>6. /\ IsFiniteSet(AcceptedSet) /\ Cardinality(AcceptedSet) \in Nat /\ s \notin AcceptedSet
      /\ Cardinality(AcceptedSet \cup {s}) = Cardinality(AcceptedSet) + 1
  <2>1. AcceptedSet \in SUBSET Submission /\ s \notin AcceptedSet
    BY <1>1 DEF AcceptedSet
  <2>2. IsFiniteSet(AcceptedSet)
    BY <2>1, SubmissionAssumption, FS_Subset
  <2> QED
    BY <2>1, <2>2, FS_CardinalityType, FS_AddElement
<1> DEFINE n == Cardinality(AcceptedSet)
<1>7. \A e \in Entity : row[e] # NoRow => row[e].version <= n
  BY DEF VersionsCounted, AcceptedSet
<1>8. /\ row' \in [Entity -> Row \cup {NoRow}] /\ feed' \in Seq(FeedRow)
      /\ \A e \in Entity : row'[e] # NoRow => row'[e].version <= Cardinality(AcceptedSet')
      /\ \A i \in 1..Len(feed') : row'[feed'[i].entity] # NoRow
  <2>1. CASE verdict = "ACCEPTED"
    <3>1. PICK new \in Row : new.version = env.expected + 1 /\ row' = [row EXCEPT ![env.entity] = new]
      BY <1>1, <2>1
    <3>2. /\ row' \in [Entity -> Row \cup {NoRow}]
          /\ \A e \in Entity : row'[e] = IF e = env.entity THEN new ELSE row[e]
      BY <1>3, <3>1 DEF Types
    <3>3. new # NoRow
      BY NullAssumption
    <3>4. Cardinality(AcceptedSet') = n + 1 /\ n \in Nat
      BY <1>5, <1>6, <2>1
    <3>5. new.version <= n + 1
      BY <1>1, <1>3, <1>7, <2>1, <3>1, <3>4
    <3>6. \A e \in Entity : row[e] # NoRow => row[e] \in Row /\ row[e].version \in Nat
      BY DEF Types, Row
    <3> HIDE DEF n
    <3>7. \A e \in Entity : row'[e] # NoRow => row'[e].version <= n + 1
      BY <1>7, <3>2, <3>4, <3>5, <3>6
    <3>8. feed \in Seq(FeedRow) /\ feed' = Append(feed, change)
      BY <1>1, <2>1 DEF Types
    <3>9. /\ feed' \in Seq(FeedRow) /\ Len(feed') = Len(feed) + 1
          /\ feed'[Len(feed) + 1] = change /\ \A i \in 1..Len(feed) : feed'[i] = feed[i]
      BY <1>3, <3>8, AppendElements
    <3>10. \A i \in 1..Len(feed') : i = Len(feed) + 1 \/ i \in 1..Len(feed)
      BY <3>8, <3>9
    <3>11. row'[change.entity] # NoRow
      BY <1>3, <3>2, <3>3 DEF change
    <3>12. \A i \in 1..Len(feed) : feed[i].entity \in Entity /\ row[feed[i].entity] # NoRow
      <4>1. \A i \in 1..Len(feed) : feed[i] \in FeedRow
        BY <3>8
      <4> QED
        BY <4>1 DEF FeedRow, FeedHasRow
    <3>13. \A i \in 1..Len(feed') : row'[feed'[i].entity] # NoRow
      BY <3>2, <3>3, <3>9, <3>10, <3>11, <3>12
    <3> QED
      BY <3>2, <3>4, <3>7, <3>9, <3>13
  <2>2. CASE verdict # "ACCEPTED"
    <3>1. row' = row /\ feed' = feed /\ AcceptedSet' = AcceptedSet
      BY <1>1, <1>5, <2>2
    <3> QED
      BY <1>7, <3>1 DEF Types, FeedHasRow
  <2> QED
    BY <2>1, <2>2
<1>9. Types'
  BY <1>2, <1>4, <1>8 DEF Types
<1>10. FeedHasRow' /\ VersionsCounted'
  BY <1>8 DEF FeedHasRow, VersionsCounted, AcceptedSet
<1>11. OutboxRows' /\ TodoOpen' /\ NetSubmitted' /\ PageFollowsCursor'
  BY <1>2 DEF OutboxRows, TodoOpen, NetSubmitted, PageFollowsCursor, Made
<1>12. CursorMatchesApplied' /\ OneActivePerRollLocally'
  BY <1>2 DEF CursorMatchesApplied, OneActivePerRollLocally, ActivePeers
<1>13. OutboxAgreesWithServer'
  <2>1. ASSUME NEW t \in Submission
        PROVE  /\ t \in receipts => outcome'[t] = "ACCEPTED"
               /\ state[t] \in {"CONFLICT", "REJECTED"} => outcome'[t] = state[t]
               /\ state[t] \in {"NONE", "QUEUED"} => outcome'[t] = "NONE"
    <3>1. CASE t = s
      BY <1>1, <3>1 DEF OutboxAgreesWithServer
    <3>2. CASE t # s
      BY <1>4, <3>2 DEF OutboxAgreesWithServer
    <3> QED
      BY <3>1, <3>2
  <2> QED
    BY <1>2, <2>1 DEF OutboxAgreesWithServer, Made
<1> QED
  BY <1>9, <1>10, <1>11, <1>12, <1>13

LEMMA DropIInv ==
  ASSUME IInv, NEW s \in Submission, Drop(s)
  PROVE  IInv'
<1>1. UNCHANGED <<device, coordinator, server, crashes>> /\ net' \subseteq net
  BY DEF Drop
<1>2. /\ phase' \in [Device -> Phase] /\ todo' \in [Device -> Seq(Submission)]
      /\ page' \in [Device -> PageOf] /\ crashes' \in 0..MaxCrash
  BY <1>1 DEF IInv, Types, coordinator
<1>3. TodoOpen' /\ PageFollowsCursor'
  BY <1>1 DEF IInv, TodoOpen, PageFollowsCursor, coordinator, device
<1> QED
  BY <1>1, <1>2, <1>3, QuietIInv

LEMMA NextIInv == IInv /\ [Next]_vars => IInv'
<1> SUFFICES ASSUME IInv, [Next]_vars PROVE IInv'
  OBVIOUS
<1>1. ASSUME NEW m \in Mutation, Mutate(m) PROVE IInv'
  BY <1>1, MutateIInv
<1>2. ASSUME NEW d \in Device, Coordinate(d) \/ Crash(d) PROVE IInv'
  BY <1>2, StartPushIInv, PushIInv, DownloadIInv, PullIInv, ApplyPageIInv, CrashIInv DEF Coordinate
<1>3. ASSUME NEW s \in Submission, Serve(s) \/ Drop(s) PROVE IInv'
  BY <1>3, ServeIInv, DropIInv
<1>4. CASE UNCHANGED vars
  <2>1. UNCHANGED <<device, server>> /\ net' \subseteq net /\ UNCHANGED <<phase, todo, page, crashes>>
    BY <1>4 DEF vars, device, server
  <2>2. TodoOpen' /\ PageFollowsCursor'
    BY <2>1 DEF IInv, TodoOpen, PageFollowsCursor, device
  <2> QED
    BY <2>1, <2>2, QuietIInv DEF IInv, Types
<1> QED
  BY <1>1, <1>2, <1>3, <1>4 DEF Next

(******************************** theorems *********************************)

\* The inductive invariant holds in every state of every behaviour of the
\* coordinators, their network and the server (src/sync/coordinator.ts).
THEOREM Invariance == Spec => []IInv
BY InitIInv, NextIInv, PTL DEF Spec

\* Every variable keeps the values the tables and the coordinator's locals have.
THEOREM TypeCorrect == Spec => []TypeOK
<1>1. IInv => TypeOK
  BY DEF IInv, Types, TypeOK, Conflict, FeedRow
<1> QED
  BY <1>1, Invariance, PTL

\* A verdict in the outbox is the server's verdict, an acceptance has its
\* receipt and a conflict its record, whatever was lost, late or interrupted.
THEOREM OutboxAgrees == Spec => []OutboxAgreesWithServer
<1>1. IInv => OutboxAgreesWithServer
  BY DEF IInv
<1> QED
  BY <1>1, Invariance, PTL

\* A device has applied exactly the changes up to its checkpoint: the page,
\* the applied changes and the cursor are one transaction (applyPulledPage).
THEOREM CursorIsTruthful == Spec => []CursorMatchesApplied
<1>1. IInv => CursorMatchesApplied
  BY DEF IInv
<1> QED
  BY <1>1, Invariance, PTL

\* ADR-008 on the device: neither a mutation nor a pulled page gives a roll a
\* second active PinState, so the unique index never fails a pull.
THEOREM OneActiveLocally == Spec => []OneActivePerRollLocally
<1>1. IInv => OneActivePerRollLocally
  BY DEF IInv
<1> QED
  BY <1>1, Invariance, PTL

(******************************* refinement ********************************)

LEMMA ServeIsAttempt ==
  ASSUME IInv, NEW s \in Submission, Serve(s)
  PROVE  Store!ANext
<1> PICK env : env = envelope[s]
  OBVIOUS
<1> DEFINE verdict == Judge(env)
           change == [entity |-> env.entity, version |-> env.expected + 1, sid |-> s]
           attempts == [sid: Submission, entity: Entity, expected: 0..Cardinality(Submission)]
           version == [e \in Entity |-> IF row[e] = NoRow THEN 0 ELSE row[e].version]
           result == [t \in Submission |-> IF outcome[t] \in {"CONFLICT", "REJECTED"}
                                           THEN "REFUSED" ELSE outcome[t]]
           history == {feed[n] : n \in DOMAIN feed}
<1>1. /\ env \in Envelope /\ outcome[s] = "NONE"
      /\ outcome' = [outcome EXCEPT ![s] = verdict] /\ verdict \in {"ACCEPTED", "CONFLICT", "REJECTED"}
      /\ verdict = "ACCEPTED" =>
           /\ env.expected = IF row[env.entity] = NoRow THEN 0 ELSE row[env.entity].version
           /\ feed' = Append(feed, change)
           /\ \E new \in Row : new.version = env.expected + 1 /\ row' = [row EXCEPT ![env.entity] = new]
      /\ verdict # "ACCEPTED" => UNCHANGED <<row, feed>>
  BY ServeFacts
<1>2. env.entity \in Entity /\ env.expected \in Nat /\ Types /\ VersionsCounted
  BY <1>1 DEF Envelope, IInv
<1> HIDE DEF verdict
<1>3. \A t \in Submission : outcome'[t] = IF t = s THEN verdict ELSE outcome[t]
  BY <1>1, <1>2 DEF Types
<1>4. result[s] = "NONE"
  BY <1>1
<1>5. result' = [result EXCEPT ![s] = IF verdict = "ACCEPTED" THEN "ACCEPTED" ELSE "REFUSED"]
  BY <1>1, <1>3
<1>6. CASE verdict = "ACCEPTED"
  <2> DEFINE a == [sid |-> s, entity |-> env.entity, expected |-> env.expected]
  <2>1. Cardinality(AcceptedSet) <= Cardinality(Submission) /\ Cardinality(Submission) \in Nat
        /\ Cardinality(AcceptedSet) \in Nat
    <3>1. AcceptedSet \in SUBSET Submission
      BY DEF AcceptedSet
    <3> QED
      BY <3>1, SubmissionAssumption, FS_Subset, FS_CardinalityType
  <2>2. env.expected <= Cardinality(AcceptedSet)
    <3>1. \A e \in Entity : row[e] # NoRow => row[e].version <= Cardinality(AcceptedSet)
      BY <1>2 DEF VersionsCounted, AcceptedSet
    <3> QED
      BY <1>1, <1>2, <1>6, <2>1, <3>1
  <2>3. a \in attempts
    BY <1>2, <2>1, <2>2
  <2>4. version[env.entity] = env.expected
    BY <1>1, <1>2, <1>6
  <2>5. PICK new \in Row : new.version = env.expected + 1 /\ row' = [row EXCEPT ![env.entity] = new]
    BY <1>1, <1>6
  <2>6. new # NoRow
    BY NullAssumption
  <2>7. \A e \in Entity : row'[e] = IF e = env.entity THEN new ELSE row[e]
    BY <1>2, <2>5 DEF Types
  <2>8. version' = [version EXCEPT ![env.entity] = env.expected + 1]
    <3>1. \A e \in Entity : (IF row'[e] = NoRow THEN 0 ELSE row'[e].version) =
            IF e = env.entity THEN env.expected + 1 ELSE version[e]
      BY <2>5, <2>6, <2>7
    <3>2. version' = [e \in Entity |-> IF e = env.entity THEN env.expected + 1 ELSE version[e]]
      BY <3>1
    <3>3. version = [e \in Entity |-> version[e]]
      OBVIOUS
    <3> HIDE DEF version
    <3> QED
      BY <1>2, <3>2, <3>3
  <2>9. history' = history \cup {change}
    <3>1. feed \in Seq(FeedRow) /\ change \in FeedRow
      BY <1>2 DEF Types, FeedRow
    <3> HIDE DEF change
    <3>2. feed' = Append(feed, change)
      BY <1>1, <1>6 DEF change
    <3>3. /\ DOMAIN feed' = 1..(Len(feed) + 1) /\ DOMAIN feed = 1..Len(feed) /\ Len(feed) \in Nat
          /\ feed'[Len(feed) + 1] = change /\ \A i \in 1..Len(feed) : feed'[i] = feed[i]
      BY <3>1, <3>2, AppendElements
    <3>4. \A i \in 1..(Len(feed) + 1) : i = Len(feed) + 1 \/ i \in 1..Len(feed)
      BY <3>3
    <3>5. 1..Len(feed) \subseteq 1..(Len(feed) + 1) /\ Len(feed) + 1 \in 1..(Len(feed) + 1)
      BY <3>3
    <3> QED
      BY <3>3, <3>4, <3>5
  <2>10. result' = [result EXCEPT ![s] = "ACCEPTED"]
    BY <1>5, <1>6
  <2>11. a.sid = s /\ a.entity = env.entity /\ a.expected = env.expected
    OBVIOUS
  <2> HIDE DEF a, version, result, history
  <2>12. Store!Accept(a)
    BY <1>4, <2>4, <2>8, <2>9, <2>10, <2>11 DEF Store!Accept, version, result, history
  <2> HIDE DEF attempts
  <2>13. \E b \in attempts : Store!Accept(b) \/ Store!Refuse(b)
    BY <2>3, <2>12
  <2> QED
    BY <2>13 DEF Store!ANext, attempts
<1>7. CASE verdict # "ACCEPTED"
  <2> DEFINE a == [sid |-> s, entity |-> env.entity, expected |-> 0]
  <2>1. Cardinality(Submission) \in Nat
    BY SubmissionAssumption, FS_CardinalityType
  <2>2. a \in attempts /\ a.sid = s
    BY <1>2, <2>1
  <2>3. result' = [result EXCEPT ![s] = "REFUSED"] /\ UNCHANGED <<version, history>>
    BY <1>1, <1>5, <1>7
  <2> HIDE DEF a, version, result, history
  <2>4. Store!Refuse(a)
    BY <1>4, <2>2, <2>3 DEF Store!Refuse, version, result, history
  <2> HIDE DEF attempts
  <2>5. \E b \in attempts : Store!Accept(b) \/ Store!Refuse(b)
    BY <2>2, <2>4
  <2> QED
    BY <2>5 DEF Store!ANext, attempts
<1> QED
  BY <1>6, <1>7

\* The server the devices see is the versioned store: whatever the devices do,
\* the network loses or a crash forgets, each submission is settled once, on
\* the version it expected.
THEOREM ServerImplementsStore == Spec => ServerIsStore
<1>1. Init => Store!AInit
  BY DEF Init, Store!AInit
<1>2. IInv /\ [Next]_vars => [Store!ANext]_(Store!avars)
  <2> SUFFICES ASSUME IInv, [Next]_vars PROVE [Store!ANext]_(Store!avars)
    OBVIOUS
  <2>1. CASE \E s \in Submission : Serve(s)
    BY <2>1, ServeIsAttempt
  <2>2. CASE UNCHANGED server
    BY <2>2 DEF server, Store!avars
  <2>3. ASSUME NEW m \in Mutation, Mutate(m) PROVE UNCHANGED server
    BY <2>3 DEF Mutate
  <2>4. ASSUME NEW d \in Device, Coordinate(d) \/ Crash(d) PROVE UNCHANGED server
    BY <2>4 DEF Coordinate, StartPush, Send, PushFails, PushAccepted, Confirm, PushRefused,
                StartPull, Download, PullFails, ApplyPage, EndPull, Crash
  <2>5. ASSUME NEW s \in Submission, Drop(s) PROVE UNCHANGED server
    BY <2>5 DEF Drop
  <2>6. CASE UNCHANGED vars
    BY <2>2, <2>6 DEF vars, server
  <2> QED
    BY <2>1, <2>2, <2>3, <2>4, <2>5, <2>6 DEF Next
<1> QED
  BY <1>1, <1>2, Invariance, PTL DEF Spec, ServerIsStore, Store!ASpec

(****************************** convergence ********************************)

(***************************************************************************)
(* Converged needs to know which row a version stands for.  The feed gives *)
(* each version of an entity the submission that made it, and the row at   *)
(* that version is archived when a deletion was accepted up to it.  What a *)
(* device holds is either such a recorded row or the one its own mutation  *)
(* wrote, and what its mutations were made on is known as far back.        *)
(***************************************************************************)

Gone(changes, env, e, v) ==
  \E n \in 1..Len(changes) :
    changes[n].entity = e /\ changes[n].version <= v /\ env[changes[n].sid].op = "DELETE"

\* r is the canonical row of e that the change of its version produced.
Recorded(changes, env, e, r) ==
  \E n \in 1..Len(changes) :
    /\ changes[n].entity = e /\ changes[n].version = r.version /\ changes[n].sid = r.by
    /\ r.archived <=> Gone(changes, env, e, r.version)

Mine(env, d, e, s) == env[s] # NoEnvelope /\ env[s].device = d /\ env[s].entity = e

\* r is the row a mutation of device d itself wrote.
OwnRow(env, d, e, r) ==
  \E s \in Submission :
    /\ Mine(env, d, e, s) /\ r.by = s /\ r.version = env[s].expected + 1
    /\ r.archived <=> env[s].op = "DELETE"

KnownRows(changes, env, d, rows) ==
  \A e \in Entity :
    rows[e] # NoRow => Recorded(changes, env, e, rows[e]) \/ OwnRow(env, d, e, rows[e])

\* The feed holds the versions of an entity in order, the last one being the row.
FeedChain ==
  /\ \A n \in 1..Len(feed) :
       envelope[feed[n].sid] # NoEnvelope /\ feed[n].version <= row[feed[n].entity].version
  /\ \A n, k \in 1..Len(feed) :
       n < k /\ feed[n].entity = feed[k].entity => feed[n].version < feed[k].version
  /\ \A e \in Entity : row[e] # NoRow => Recorded(feed, envelope, e, row[e])

AcceptedRecorded ==
  \A s \in Submission : outcome[s] = "ACCEPTED" =>
    \E n \in 1..Len(feed) : /\ feed[n].sid = s /\ feed[n].entity = envelope[s].entity
                            /\ feed[n].version = envelope[s].expected + 1

RowsKnown == \A d \in Device : KnownRows(feed, envelope, d, local[d])

\* An UPDATE or CORRECT was made on a row that was not deleted: a recorded one
\* or one of an earlier mutation of the device.
OwnBasis ==
  \A d \in Device, e \in Entity, s \in Submission :
    Mine(envelope, d, e, s) /\ envelope[s].op \in {"UPDATE", "CORRECT"} =>
      \/ /\ \E n \in 1..Len(feed) : feed[n].entity = e /\ feed[n].version = envelope[s].expected
         /\ ~Gone(feed, envelope, e, envelope[s].expected)
      \/ \E t \in Submission : /\ Mine(envelope, d, e, t) /\ envelope[t].op # "DELETE"
                               /\ envelope[t].expected + 1 = envelope[s].expected

\* A downloaded change is the one of the feed, with a recorded row that is at
\* least as new.
TrueChange(change, n) ==
  /\ n <= Len(feed) /\ change.entity = feed[n].entity /\ change.version = feed[n].version
  /\ Recorded(feed, envelope, change.entity, change.payload)
  /\ change.version <= change.payload.version

PageTrue ==
  \A d \in Device : \A i \in 1..Len(page[d].changes) :
    TrueChange(page[d].changes[i], cursor[d] + i)

\* A device is at least at the version of every change its cursor has passed,
\* unless that change is on record as a conflict.
CaughtUp(open, rows, n) ==
  \/ <<"pull", n>> \in open
  \/ rows[feed[n].entity] # NoRow /\ feed[n].version <= rows[feed[n].entity].version

Caught ==
  \A d \in Device :
    cursor[d] <= Len(feed) /\ \A n \in 1..cursor[d] : CaughtUp(conflicts[d], local[d], n)

RInv == FeedChain /\ AcceptedRecorded /\ RowsKnown /\ OwnBasis /\ PageTrue /\ Caught

LEMMA FeedRows ==
  ASSUME Types, NEW n \in 1..Len(feed)
  PROVE  /\ feed[n] \in FeedRow /\ feed[n].entity \in Entity /\ feed[n].sid \in Submission
         /\ feed[n].version \in Nat \ {0} /\ Len(feed) \in Nat
<1>1. feed[n] \in FeedRow /\ Len(feed) \in Nat
  BY DEF Types
<1> QED
  BY <1>1 DEF FeedRow

\* Envelopes that are queued later change nothing about what is recorded.
LEMMA SameRecord ==
  ASSUME NEW changes, NEW old, NEW new,
         \A n \in 1..Len(changes) : new[changes[n].sid] = old[changes[n].sid]
  PROVE  /\ \A e, v : Gone(changes, new, e, v) <=> Gone(changes, old, e, v)
         /\ \A e, r : Recorded(changes, new, e, r) <=> Recorded(changes, old, e, r)
<1>1. \A e, v : Gone(changes, new, e, v) <=> Gone(changes, old, e, v)
  BY DEF Gone
<1> QED
  BY <1>1 DEF Recorded

\* A change of a higher version changes nothing about the lower ones.
LEMMA GrowingRecord ==
  ASSUME NEW changes \in Seq(FeedRow), NEW change \in FeedRow, NEW env,
         \A n \in 1..Len(changes) :
           changes[n].entity = change.entity => changes[n].version < change.version
  PROVE  LET longer == Append(changes, change)
         IN  /\ \A e : \A v \in Nat : v < change.version \/ e # change.entity =>
                  (Gone(longer, env, e, v) <=> Gone(changes, env, e, v))
             /\ \A e, r : Recorded(changes, env, e, r) => Recorded(longer, env, e, r)
             /\ \A n \in 1..Len(changes) : n \in 1..Len(longer) /\ longer[n] = changes[n]
             /\ Len(longer) = Len(changes) + 1 /\ longer[Len(changes) + 1] = change
<1> DEFINE longer == Append(changes, change)
           N == Len(changes)
<1>1. /\ N \in Nat /\ Len(longer) = N + 1 /\ longer[N + 1] = change
      /\ \A n \in 1..N : longer[n] = changes[n]
  BY AppendElements
<1>2. /\ \A n \in 1..Len(longer) : n = N + 1 \/ n \in 1..N
      /\ N + 1 \in 1..Len(longer) /\ \A n \in 1..N : n \in 1..Len(longer)
  BY <1>1
<1>3. \A n \in 1..N : changes[n] \in FeedRow
  OBVIOUS
<1>4. change.version \in Nat /\ \A n \in 1..N : changes[n].version \in Nat
  BY <1>3 DEF FeedRow
<1> HIDE DEF longer
<1>5. ASSUME NEW e, NEW v \in Nat, v < change.version \/ e # change.entity
      PROVE  Gone(longer, env, e, v) <=> Gone(changes, env, e, v)
  <2>1. ASSUME Gone(changes, env, e, v) PROVE Gone(longer, env, e, v)
    BY <1>1, <1>2, <2>1 DEF Gone
  <2>2. ASSUME Gone(longer, env, e, v) PROVE Gone(changes, env, e, v)
    <3>1. PICK n \in 1..Len(longer) : /\ longer[n].entity = e /\ longer[n].version <= v
                                      /\ env[longer[n].sid].op = "DELETE"
      BY <2>2 DEF Gone
    <3>2. n # N + 1
      BY <1>1, <1>4, <1>5, <3>1
    <3>3. n \in 1..N /\ longer[n] = changes[n]
      BY <1>1, <1>2, <3>2
    <3> QED
      BY <3>1, <3>3 DEF Gone
  <2> QED
    BY <2>1, <2>2
<1>6. ASSUME NEW e, NEW r, Recorded(changes, env, e, r) PROVE Recorded(longer, env, e, r)
  <2>1. PICK n \in 1..N : /\ changes[n].entity = e /\ changes[n].version = r.version
                          /\ changes[n].sid = r.by
                          /\ r.archived <=> Gone(changes, env, e, r.version)
    BY <1>6 DEF Recorded
  <2>2. r.version \in Nat /\ (r.version < change.version \/ e # change.entity)
    BY <1>4, <2>1
  <2>3. r.archived <=> Gone(longer, env, e, r.version)
    BY <1>5, <2>1, <2>2
  <2>4. n \in 1..Len(longer) /\ longer[n] = changes[n]
    BY <1>1, <1>2
  <2> QED
    BY <2>1, <2>3, <2>4 DEF Recorded
<1> QED
  BY <1>1, <1>2, <1>5, <1>6 DEF longer

LEMMA InitRInv == Init => RInv
<1> SUFFICES ASSUME Init PROVE RInv
  OBVIOUS
<1>1. FeedChain /\ AcceptedRecorded
  BY DEF Init, FeedChain, AcceptedRecorded
<1>2. RowsKnown /\ OwnBasis
  BY DEF Init, RowsKnown, KnownRows, OwnBasis, Mine
<1>3. PageTrue /\ Caught
  BY DEF Init, PageTrue, Caught, NoPage
<1> QED
  BY <1>1, <1>2, <1>3 DEF RInv

LEMMA QuietRInv ==
  ASSUME RInv, UNCHANGED <<local, envelope, conflicts, cursor, server>>, PageTrue'
  PROVE  RInv'
<1> USE DEF RInv, server
<1>1. FeedChain' /\ AcceptedRecorded'
  BY DEF FeedChain, AcceptedRecorded
<1>2. RowsKnown' /\ OwnBasis'
  BY DEF RowsKnown, OwnBasis
<1>3. Caught'
  BY DEF Caught, CaughtUp
<1> QED
  BY <1>1, <1>2, <1>3

\* A page that is dropped or kept is as true as before.
LEMMA SamePageTrue ==
  ASSUME Types, PageTrue, UNCHANGED <<envelope, cursor, feed>>,
         page' = page \/ \E d \in Device : page' = [page EXCEPT ![d] = NoPage]
  PROVE  PageTrue'
<1>1. ASSUME NEW d \in Device, page' = [page EXCEPT ![d] = NoPage] PROVE PageTrue'
  <2>1. \A b \in Device : page'[b] = IF b = d THEN NoPage ELSE page[b]
    BY <1>1 DEF Types
  <2>2. Len(NoPage.changes) = 0
    BY DEF NoPage
  <2> QED
    BY <2>1, <2>2 DEF PageTrue, TrueChange
<1>2. CASE page' = page
  BY <1>2 DEF PageTrue, TrueChange
<1> QED
  BY <1>1, <1>2

\* The server reads a page: each change has its row of the feed and the row
\* its entity has now, which is the recorded one and not older.
LEMMA DownloadRInv ==
  ASSUME IInv, RInv, NEW d \in Device, Download(d)
  PROVE  RInv'
<1> USE DEF IInv, RInv
<1> DEFINE last == IF cursor[d] + PageLimit < Len(feed) THEN cursor[d] + PageLimit ELSE Len(feed)
           Row0(n) == [seq |-> n, entity |-> feed[n].entity, version |-> feed[n].version,
                       payload |-> row[feed[n].entity]]
           q == [i \in 1..(last - cursor[d]) |-> Row0(cursor[d] + i)]
<1>1. /\ cursor[d] \in Nat /\ Len(feed) \in Nat /\ last \in Nat /\ last <= Len(feed)
      /\ last - cursor[d] \in Nat
  BY PullAssumption DEF Types, Caught
<1>2. /\ page' = [page EXCEPT ![d] = [changes |-> q, more |-> last < Len(feed)]]
      /\ UNCHANGED <<local, envelope, conflicts, cursor, server>>
  BY DEF Download, device
<1> HIDE DEF last
<1>3. ASSUME NEW i \in 1..(last - cursor[d]) PROVE TrueChange(Row0(cursor[d] + i), cursor[d] + i)
  <2>1. cursor[d] + i \in 1..Len(feed)
    BY <1>1
  <2>2. feed[cursor[d] + i].entity \in Entity
    BY <2>1, FeedRows
  <2>3. row[feed[cursor[d] + i].entity] # NoRow
    BY <2>1 DEF FeedHasRow
  <2>4. /\ Recorded(feed, envelope, feed[cursor[d] + i].entity, row[feed[cursor[d] + i].entity])
        /\ feed[cursor[d] + i].version <= row[feed[cursor[d] + i].entity].version
    BY <2>1, <2>2, <2>3 DEF FeedChain
  <2> QED
    BY <2>1, <2>4 DEF TrueChange
<1> HIDE DEF Row0
<1>4. \A b \in Device :
        page'[b] = IF b = d THEN [changes |-> q, more |-> last < Len(feed)] ELSE page[b]
  BY <1>2 DEF Types
<1>5. Len(q) = last - cursor[d] /\ \A i \in 1..(last - cursor[d]) : q[i] = Row0(cursor[d] + i)
  BY <1>1
<1>6. ASSUME NEW b \in Device, NEW i \in 1..Len(page'[b].changes)
      PROVE  TrueChange(page'[b].changes[i], cursor[b] + i)
  <2>1. CASE b = d
    <3>1. page'[b] = [changes |-> q, more |-> last < Len(feed)]
      BY <1>4, <2>1
    <3>2. page'[b].changes = q
      BY <3>1
    <3> HIDE DEF q
    <3>3. i \in 1..Len(q)
      BY <3>2
    <3> QED
      BY <1>3, <1>5, <2>1, <3>2, <3>3
  <2>2. CASE b # d
    BY <1>4, <2>2 DEF PageTrue
  <2> QED
    BY <2>1, <2>2
<1>7. UNCHANGED <<cursor, feed, envelope>>
  BY <1>2 DEF server
<1>8. PageTrue'
  BY <1>6, <1>7 DEF PageTrue, TrueChange
<1> QED
  BY <1>2, <1>8, QuietRInv

\* Pushes, pulls that fail or end, crashes and lost requests.
LEMMA OtherRInv ==
  ASSUME IInv, RInv, UNCHANGED <<local, envelope, applied, cursor, server>>,
         page' = page \/ \E d \in Device : page' = [page EXCEPT ![d] = NoPage],
         \A d \in Device, n \in Nat : <<"pull", n>> \in conflicts'[d] <=> <<"pull", n>> \in conflicts[d]
  PROVE  RInv'
<1> USE DEF RInv, server
<1>1. FeedChain' /\ AcceptedRecorded'
  BY DEF FeedChain, AcceptedRecorded
<1>2. RowsKnown' /\ OwnBasis'
  BY DEF RowsKnown, OwnBasis
<1>3. Caught'
  <2>1. \A d \in Device : \A n \in 1..cursor[d] : n \in Nat
    BY DEF IInv, Types
  <2> QED
    BY <2>1 DEF Caught, CaughtUp
<1>4. PageTrue'
  BY SamePageTrue DEF IInv
<1> QED
  BY <1>1, <1>2, <1>3, <1>4

LEMMA PushRInv ==
  ASSUME IInv, RInv, NEW d \in Device,
         \/ StartPush(d) \/ Send(d) \/ PushFails(d) \/ PushAccepted(d) \/ Confirm(d)
         \/ PushRefused(d) \/ StartPull(d) \/ PullFails(d) \/ EndPull(d) \/ Crash(d)
  PROVE  RInv'
<1> USE DEF device, server
<1>1. CASE PushRefused(d)
  <2> DEFINE s == Head(todo[d])
  <2>1. /\ UNCHANGED <<local, envelope, applied, cursor, server, page>>
        /\ conflicts' = conflicts \/ conflicts' = [conflicts EXCEPT ![d] = @ \cup {<<"push", s>>}]
    BY <1>1 DEF PushRefused
  <2> HIDE DEF s
  <2>2. \A b \in Device, n \in Nat : <<"pull", n>> \in conflicts'[b] <=> <<"pull", n>> \in conflicts[b]
    <3>1. conflicts \in [Device -> SUBSET Conflict] /\ \A n : <<"pull", n>> # <<"push", s>>
      BY DEF IInv, Types
    <3> QED
      BY <2>1, <3>1
  <2> QED
    BY <2>1, <2>2, OtherRInv
<1>2. CASE ~PushRefused(d)
  <2>1. UNCHANGED <<local, envelope, conflicts, applied, cursor, server>>
    BY <1>2 DEF StartPush, Send, PushFails, PushAccepted, Confirm, StartPull, PullFails, EndPull, Crash
  <2>2. page' = page \/ page' = [page EXCEPT ![d] = NoPage]
    BY <1>2 DEF StartPush, Send, PushFails, PushAccepted, Confirm, StartPull, PullFails, EndPull, Crash
  <2> QED
    BY <2>1, <2>2, OtherRInv
<1> QED
  BY <1>1, <1>2

\* The transaction of a page after the changes up to c: what the device holds
\* is known, and it has caught up with every change that was not a conflict.
Holds(d, st, c) ==
  /\ st.rows \in [Entity -> Row \cup {NoRow}] /\ st.done = 1..c
  /\ KnownRows(feed, envelope, d, st.rows)
  /\ c <= Len(feed) /\ \A n \in 1..c : CaughtUp(st.open, st.rows, n)

LEMMA ApplyChangeHolds ==
  ASSUME Types, FeedChain, NEW d \in Device, NEW st, NEW c \in Nat, Holds(d, st, c),
         NEW change \in Change, change.seq = c + 1, TrueChange(change, c + 1)
  PROVE  Holds(d, ApplyChange(st, change), c + 1)
<1> DEFINE clash == AssociationConflict(st.rows, change)
           e == change.entity
           r == change.payload
           rows == IF clash THEN st.rows ELSE ApplyRemoteChange(st.rows, change)
           open == IF clash THEN st.open \cup {<<"pull", change.seq>>} ELSE st.open
<1>1. change.seq \notin st.done /\ st.done \cup {change.seq} = 1..(c + 1)
  BY DEF Holds
<1>2. ApplyChange(st, change) = [rows |-> rows, open |-> open, done |-> 1..(c + 1)]
  BY <1>1 DEF ApplyChange
<1>3. /\ e \in Entity /\ r \in Row /\ r # NoRow /\ r.version \in Nat /\ change.version \in Nat
      /\ st.rows \in [Entity -> Row \cup {NoRow}]
  BY NullAssumption DEF Change, Row, Holds
<1>4. /\ c + 1 \in 1..Len(feed) /\ e = feed[c + 1].entity /\ change.version = feed[c + 1].version
      /\ Recorded(feed, envelope, e, r) /\ change.version <= r.version
  BY DEF TrueChange, Types
<1>5. /\ rows = st.rows \/ rows = [st.rows EXCEPT ![e] = r]
      /\ ~clash => \/ rows = [st.rows EXCEPT ![e] = r]
                   \/ rows = st.rows /\ st.rows[e] # NoRow /\ change.version <= st.rows[e].version
  BY DEF ApplyRemoteChange, Found
<1>6. rows \in [Entity -> Row \cup {NoRow}]
  BY <1>3, <1>5
<1>7. \A f \in Entity : rows[f] = st.rows[f] \/ (f = e /\ rows[f] = r)
  BY <1>3, <1>5
<1>8. st.open \subseteq open /\ (clash => <<"pull", c + 1>> \in open)
  OBVIOUS
<1>9. \/ <<"pull", c + 1>> \in open
      \/ rows[e] # NoRow /\ change.version <= rows[e].version
  <2>1. CASE clash
    BY <1>8, <2>1
  <2>2. CASE ~clash
    <3>1. rows[e] = r \/ (rows[e] = st.rows[e] /\ st.rows[e] # NoRow /\ change.version <= st.rows[e].version)
      BY <1>3, <1>5, <2>2
    <3> QED
      BY <1>3, <1>4, <3>1
  <2> QED
    BY <2>1, <2>2
<1> HIDE DEF rows, open, clash
<1>10. KnownRows(feed, envelope, d, rows)
  BY <1>4, <1>7 DEF KnownRows, Holds
<1>11. ASSUME NEW n \in 1..c PROVE CaughtUp(open, rows, n)
  <2>1. n \in 1..Len(feed) /\ n < c + 1 /\ c + 1 \in 1..Len(feed)
    BY <1>4
  <2>2. feed[n].entity \in Entity /\ feed[n].version \in Nat
    BY <2>1, FeedRows
  <2>3. CaughtUp(st.open, st.rows, n)
    BY DEF Holds
  <2>4. CASE rows[feed[n].entity] = st.rows[feed[n].entity]
    BY <1>8, <2>3, <2>4 DEF CaughtUp
  <2>5. CASE feed[n].entity = e /\ rows[feed[n].entity] = r
    <3>1. feed[n].version < change.version
      BY <1>4, <2>1, <2>5 DEF FeedChain
    <3> QED
      BY <1>3, <1>4, <2>2, <2>5, <3>1 DEF CaughtUp
  <2> QED
    BY <1>7, <2>2, <2>4, <2>5
<1>12. CaughtUp(open, rows, c + 1)
  BY <1>4, <1>9 DEF CaughtUp
<1>13. \A n \in 1..(c + 1) : CaughtUp(open, rows, n)
  <2>1. \A n \in 1..(c + 1) : n \in 1..c \/ n = c + 1
    OBVIOUS
  <2> QED
    BY <1>11, <1>12, <2>1
<1>14. c + 1 <= Len(feed)
  BY <1>4
<1> HIDE DEF e, r
<1> QED
  BY <1>2, <1>6, <1>10, <1>13, <1>14 DEF Holds

LEMMA ApplyChangesHold ==
  ASSUME Types, FeedChain, NEW d \in Device, NEW start, NEW c \in Nat, Holds(d, start, c),
         NEW changes \in Seq(Change),
         \A i \in 1..Len(changes) : changes[i].seq = c + i /\ TrueChange(changes[i], c + i)
  PROVE  Holds(d, ApplyChanges(start, changes), c + Len(changes))
<1> DEFINE N == Len(changes)
<1>1. N \in Nat /\ \A i \in 1..N : changes[i] \in Change
  OBVIOUS
<1>2. PICK f : Applying(start, changes, N, f) /\ ApplyChanges(start, changes) = f[N]
  BY <1>1, ApplyChangesDef
<1> HIDE DEF N
<1>3. f[0] = start /\ \A i \in 0..(N - 1) : f[i + 1] = ApplyChange(f[i], changes[i + 1])
  BY <1>1, <1>2 DEF Applying
<1>4. ASSUME NEW i \in 0..(N - 1), Holds(d, f[i], c + i)
      PROVE  Holds(d, f[i + 1], c + (i + 1))
  <2>1. /\ i + 1 \in 1..N /\ changes[i + 1] \in Change /\ changes[i + 1].seq = (c + i) + 1
        /\ TrueChange(changes[i + 1], (c + i) + 1) /\ c + i \in Nat
    <3>1. i + 1 \in 1..N /\ c + (i + 1) = (c + i) + 1 /\ c + i \in Nat
      BY <1>1
    <3> QED
      BY <1>1, <3>1 DEF N
  <2>2. Holds(d, ApplyChange(f[i], changes[i + 1]), (c + i) + 1)
    BY <1>4, <2>1, ApplyChangeHolds
  <2>3. (c + i) + 1 = c + (i + 1)
    BY <1>1
  <2> QED
    BY <1>3, <2>2, <2>3
<1> DEFINE T == {i \in 0..N : Holds(d, f[i], c + i)}
<1>5. 0 \in T /\ \A i \in 0..(N - 1) : i \in T => i + 1 \in T
  <2>1. c + 0 = c
    OBVIOUS
  <2> QED
    BY <1>1, <1>3, <1>4, <2>1
<1> HIDE DEF T
<1>6. 0..N \subseteq T
  BY <1>1, <1>5, IntervalSetInduction
<1>7. Holds(d, f[N], c + N)
  BY <1>1, <1>6 DEF T
<1> QED
  BY <1>2, <1>7 DEF N

LEMMA ApplyPageRInv ==
  ASSUME IInv, RInv, NEW d \in Device, ApplyPage(d)
  PROVE  RInv'
<1> USE DEF IInv, RInv, server
<1> DEFINE start == [rows |-> local[d], open |-> conflicts[d], done |-> applied[d]]
           q == page[d].changes
           st == ApplyChanges(start, q)
           c == cursor[d]
<1>1. /\ c \in Nat /\ q \in Seq(Change) /\ q # <<>>
      /\ \A i \in 1..Len(q) : q[i].seq = c + i /\ TrueChange(q[i], c + i)
  BY DEF Types, PageOf, PageFollowsCursor, PageTrue, ApplyPage
<1>2. Holds(d, start, c)
  BY DEF Types, Holds, CursorMatchesApplied, RowsKnown, Caught
<1> HIDE DEF start, q, c
<1>3. Holds(d, st, c + Len(q))
  BY <1>1, <1>2, ApplyChangesHold
<1>4. NextCursor(d) = c + Len(q)
  <2>1. Len(q) \in 1..Len(q)
    BY <1>1
  <2> QED
    BY <1>1, <2>1 DEF NextCursor, q
<1>5. /\ local' = [local EXCEPT ![d] = st.rows] /\ conflicts' = [conflicts EXCEPT ![d] = st.open]
      /\ cursor' = [cursor EXCEPT ![d] = c + Len(q)] /\ page' = [page EXCEPT ![d] = NoPage]
      /\ UNCHANGED <<envelope, row, outcome, feed>>
  BY <1>4 DEF ApplyPage, start, q
<1> HIDE DEF st
<1>6. \A b \in Device : /\ local'[b] = IF b = d THEN st.rows ELSE local[b]
                        /\ conflicts'[b] = IF b = d THEN st.open ELSE conflicts[b]
                        /\ cursor'[b] = IF b = d THEN c + Len(q) ELSE cursor[b]
                        /\ page'[b] = IF b = d THEN NoPage ELSE page[b]
  BY <1>5 DEF Types
<1>7. FeedChain' /\ AcceptedRecorded' /\ OwnBasis'
  BY <1>5 DEF FeedChain, AcceptedRecorded, OwnBasis
<1>8. RowsKnown'
  BY <1>3, <1>5, <1>6 DEF RowsKnown, Holds
<1>9. PageTrue'
  <2>1. ASSUME NEW b \in Device, NEW i \in 1..Len(page'[b].changes)
        PROVE  TrueChange(page'[b].changes[i], cursor'[b] + i)
    <3>1. b # d
      BY <1>6, <2>1 DEF NoPage
    <3> QED
      BY <1>6, <3>1 DEF PageTrue
  <2> QED
    BY <1>5, <2>1 DEF PageTrue, TrueChange
<1>10. Caught'
  <2>1. ASSUME NEW b \in Device
        PROVE  cursor'[b] <= Len(feed) /\ \A n \in 1..cursor'[b] : CaughtUp(conflicts'[b], local'[b], n)
    <3>1. CASE b = d
      BY <1>3, <1>6, <3>1 DEF Holds
    <3>2. CASE b # d
      BY <1>6, <3>2 DEF Caught
    <3> QED
      BY <3>1, <3>2
  <2> QED
    BY <1>5, <2>1 DEF Caught, CaughtUp
<1> QED
  BY <1>7, <1>8, <1>9, <1>10

LEMMA MutateRInv ==
  ASSUME IInv, RInv, NEW m \in Mutation, Mutate(m)
  PROVE  RInv'
<1> USE DEF IInv, RInv, server, coordinator
<1> DEFINE d == m.device
           e == m.entity
           s == m.sid
           old == local[d][e]
           expected == IF m.op = "CREATE" THEN 0 ELSE old.version
           new == [version |-> expected + 1, archived |-> m.op = "DELETE", by |-> s]
           queued == [device |-> d, entity |-> e, expected |-> expected, op |-> m.op]
<1>1. d \in Device /\ e \in Entity /\ s \in Submission /\ m.op \in {"CREATE", "UPDATE", "CORRECT", "DELETE"}
  BY MutationAssumption
<1>2. /\ state[s] = "NONE" /\ (m.op = "CREATE" => old = NoRow) /\ (m.op # "CREATE" => Active(old))
      /\ local' = [local EXCEPT ![d][e] = new] /\ envelope' = [envelope EXCEPT ![s] = queued]
      /\ UNCHANGED <<conflicts, cursor, page, row, outcome, feed>>
  BY DEF Mutate
<1>3. envelope[s] = NoEnvelope /\ outcome[s] = "NONE"
  BY <1>1, <1>2 DEF OutboxRows, OutboxAgreesWithServer
<1>4. \A t \in Submission : envelope'[t] = IF t = s THEN queued ELSE envelope[t]
  BY <1>1, <1>2 DEF Types
<1>5. \A b \in Device, f \in Entity :
        local'[b][f] = IF b = d /\ f = e THEN new ELSE local[b][f]
  <2>1. local[d] \in [Entity -> Row \cup {NoRow}] /\ local \in [Device -> [Entity -> Row \cup {NoRow}]]
    BY <1>1 DEF Types
  <2> HIDE DEF new
  <2> QED
    BY <1>1, <1>2, <2>1
<1>6. /\ expected \in Nat /\ (m.op = "CREATE" => expected = 0)
      /\ m.op # "CREATE" => old # NoRow /\ old \in Row /\ ~old.archived /\ expected = old.version
  <2>1. old \in Row \cup {NoRow}
    BY <1>1 DEF Types
  <2> HIDE DEF old
  <2> QED
    BY <1>2, <2>1 DEF Active, Row
<1>7. queued \in Envelope /\ queued # NoEnvelope /\ new \in Row /\ new # NoRow
  <2> HIDE DEF expected
  <2>1. queued \in Envelope /\ new \in Row
    BY <1>1, <1>6 DEF Envelope, Row
  <2> QED
    BY <2>1, NullAssumption
<1>8. \A n \in 1..Len(feed) : feed[n].sid # s /\ envelope'[feed[n].sid] = envelope[feed[n].sid]
  <2>1. \A n \in 1..Len(feed) : feed[n].sid \in Submission /\ envelope[feed[n].sid] # NoEnvelope
    BY FeedRows DEF FeedChain
  <2> QED
    BY <1>3, <1>4, <2>1
<1>9. /\ \A f, v : Gone(feed, envelope', f, v) <=> Gone(feed, envelope, f, v)
      /\ \A f, r : Recorded(feed, envelope', f, r) <=> Recorded(feed, envelope, f, r)
  BY <1>8, SameRecord
<1>10. \A t \in Submission : envelope[t] # NoEnvelope => t # s /\ envelope'[t] = envelope[t]
  BY <1>3, <1>4
<1>11. \A b \in Device, f \in Entity, t \in Submission :
         Mine(envelope, b, f, t) => Mine(envelope', b, f, t) /\ t # s /\ envelope'[t] = envelope[t]
  BY <1>10 DEF Mine
<1>12. Mine(envelope', d, e, s) /\ envelope'[s] = queued
  BY <1>1, <1>4, <1>7 DEF Mine
<1>13. FeedChain'
  BY <1>2, <1>8, <1>9 DEF FeedChain
<1>14. AcceptedRecorded'
  <2>1. \A t \in Submission : outcome[t] = "ACCEPTED" => t # s /\ envelope'[t] = envelope[t]
    BY <1>3, <1>4
  <2> QED
    BY <1>2, <2>1 DEF AcceptedRecorded
<1>15. PageTrue'
  BY <1>2, <1>9 DEF PageTrue, TrueChange
<1>16. RowsKnown'
  <2> SUFFICES ASSUME NEW b \in Device, NEW f \in Entity, local'[b][f] # NoRow
               PROVE  Recorded(feed, envelope', f, local'[b][f]) \/ OwnRow(envelope', b, f, local'[b][f])
    BY <1>2 DEF RowsKnown, KnownRows
  <2>1. CASE b = d /\ f = e
    <3>1. local'[b][f] = new
      BY <1>5, <2>1
    <3>2. new.by = s /\ new.version = queued.expected + 1 /\ (new.archived <=> queued.op = "DELETE")
      OBVIOUS
    <3> HIDE DEF new, queued, s
    <3> QED
      BY <1>1, <1>12, <2>1, <3>1, <3>2 DEF OwnRow
  <2>2. CASE ~(b = d /\ f = e)
    <3>1. local'[b][f] = local[b][f]
      BY <1>5, <2>2
    <3>2. Recorded(feed, envelope, f, local[b][f]) \/ OwnRow(envelope, b, f, local[b][f])
      BY <3>1 DEF RowsKnown, KnownRows
    <3>3. OwnRow(envelope, b, f, local[b][f]) => OwnRow(envelope', b, f, local[b][f])
      BY <1>11 DEF OwnRow
    <3> QED
      BY <1>9, <3>1, <3>2, <3>3
  <2> QED
    BY <2>1, <2>2
<1>17. OwnBasis'
  <2> DEFINE Basis(env, b, f, t) ==
        \/ /\ \E n \in 1..Len(feed) : feed[n].entity = f /\ feed[n].version = env[t].expected
           /\ ~Gone(feed, env, f, env[t].expected)
        \/ \E u \in Submission : /\ Mine(env, b, f, u) /\ env[u].op # "DELETE"
                                 /\ env[u].expected + 1 = env[t].expected
  <2>1. ASSUME NEW b \in Device, NEW f \in Entity, NEW t \in Submission \ {s},
               Mine(envelope', b, f, t), envelope'[t].op \in {"UPDATE", "CORRECT"}
        PROVE  Basis(envelope', b, f, t)
    <3>1. envelope'[t] = envelope[t] /\ Mine(envelope, b, f, t)
      BY <1>4, <2>1 DEF Mine
    <3>2. Basis(envelope, b, f, t)
      BY <2>1, <3>1 DEF OwnBasis
    <3> QED
      BY <1>9, <1>11, <3>1, <3>2
  <2>2. ASSUME NEW b \in Device, NEW f \in Entity,
               Mine(envelope', b, f, s), envelope'[s].op \in {"UPDATE", "CORRECT"}
        PROVE  Basis(envelope', b, f, s)
    <3>1. b = d /\ f = e /\ m.op # "CREATE" /\ envelope'[s].expected = expected
      BY <1>12, <2>2 DEF Mine
    <3>2. old # NoRow /\ old \in Row /\ ~old.archived /\ expected = old.version
      BY <1>6, <3>1
    <3>3. Recorded(feed, envelope, e, old) \/ OwnRow(envelope, d, e, old)
      BY <1>1, <3>2 DEF RowsKnown, KnownRows
    <3> HIDE DEF old, expected
    <3>4. CASE Recorded(feed, envelope, e, old)
      <4>1. PICK n \in 1..Len(feed) : /\ feed[n].entity = e /\ feed[n].version = old.version
                                      /\ old.archived <=> Gone(feed, envelope, e, old.version)
        BY <3>4 DEF Recorded
      <4>2. ~Gone(feed, envelope', e, expected)
        BY <1>9, <3>2, <4>1
      <4> QED
        BY <3>1, <3>2, <4>1, <4>2
    <3>5. CASE OwnRow(envelope, d, e, old)
      <4>1. PICK u \in Submission : /\ Mine(envelope, d, e, u) /\ old.version = envelope[u].expected + 1
                                    /\ old.archived <=> envelope[u].op = "DELETE"
        BY <3>5 DEF OwnRow
      <4>2. Mine(envelope', d, e, u) /\ envelope'[u] = envelope[u]
        BY <1>1, <1>11, <4>1
      <4> QED
        BY <3>1, <3>2, <4>1, <4>2
    <3> QED
      BY <3>3, <3>4, <3>5
  <2>3. \A b \in Device, f \in Entity, t \in Submission :
          Mine(envelope', b, f, t) /\ envelope'[t].op \in {"UPDATE", "CORRECT"} => Basis(envelope', b, f, t)
    BY <2>1, <2>2
  <2> QED
    BY <1>2, <2>3 DEF OwnBasis
<1>18. Caught'
  <2>1. ASSUME NEW b \in Device, NEW n \in 1..cursor[b]
        PROVE  CaughtUp(conflicts[b], local'[b], n)
    <3>1. n \in 1..Len(feed)
      BY DEF Caught, Types
    <3>2. feed[n].entity \in Entity /\ feed[n].version \in Nat
      BY <3>1, FeedRows
    <3>3. CaughtUp(conflicts[b], local[b], n)
      BY DEF Caught
    <3>4. CASE b = d /\ feed[n].entity = e
      <4>1. local'[b][feed[n].entity] = new /\ new # NoRow
        BY <1>5, <1>7, <3>2, <3>4
      <4>2. CASE m.op = "CREATE"
        BY <1>2, <3>3, <3>4, <4>2 DEF CaughtUp
      <4>3. CASE m.op # "CREATE"
        <5>1. new.version = old.version + 1 /\ old.version \in Nat
          BY <1>6, <4>3 DEF Row
        <5>2. \/ <<"pull", n>> \in conflicts[b]
              \/ feed[n].version <= old.version
          BY <3>3, <3>4 DEF CaughtUp
        <5> HIDE DEF new, old
        <5> QED
          BY <3>2, <4>1, <5>1, <5>2 DEF CaughtUp
      <4> QED
        BY <4>2, <4>3
    <3>5. CASE ~(b = d /\ feed[n].entity = e)
      BY <1>5, <3>2, <3>3, <3>5 DEF CaughtUp
    <3> QED
      BY <3>4, <3>5
  <2> QED
    BY <1>2, <2>1 DEF Caught, CaughtUp
<1> QED
  BY <1>13, <1>14, <1>15, <1>16, <1>17, <1>18

LEMMA ServeRInv ==
  ASSUME IInv, RInv, NEW s \in Submission, Serve(s)
  PROVE  RInv'
<1> USE DEF IInv, RInv, device, coordinator
<1> DEFINE env == envelope[s]
           e == env.entity
           old == row[e]
           new == [version |-> env.expected + 1, by |-> s,
                   archived |-> IF env.op = "CREATE" THEN FALSE ELSE old.archived \/ env.op = "DELETE"]
           change == [entity |-> e, version |-> env.expected + 1, sid |-> s]
           N == Len(feed)
<1>1. /\ s \in net /\ outcome[s] = "NONE" /\ outcome' = [outcome EXCEPT ![s] = Judge(env)]
      /\ IF Judge(env) = "ACCEPTED"
         THEN row' = [row EXCEPT ![e] = new] /\ feed' = Append(feed, change)
         ELSE UNCHANGED <<row, feed>>
      /\ UNCHANGED <<local, envelope, conflicts, cursor, page>>
  BY DEF Serve
<1>2. \A t \in Submission : outcome'[t] = IF t = s THEN Judge(env) ELSE outcome[t]
  BY <1>1 DEF Types
<1>3. CASE Judge(env) # "ACCEPTED"
  <2>1. AcceptedRecorded'
    BY <1>1, <1>2, <1>3 DEF AcceptedRecorded
  <2>2. FeedChain' /\ RowsKnown' /\ OwnBasis'
    BY <1>1, <1>3 DEF FeedChain, RowsKnown, OwnBasis
  <2>3. PageTrue' /\ Caught'
    BY <1>1, <1>3 DEF PageTrue, TrueChange, Caught, CaughtUp
  <2> QED
    BY <2>1, <2>2, <2>3
<1>4. CASE Judge(env) = "ACCEPTED"
  <2>1. /\ env \in Envelope /\ env # NoEnvelope /\ e \in Entity /\ env.expected \in Nat
        /\ env.expected = IF old = NoRow THEN 0 ELSE old.version
    <3>1. env \in Envelope /\ env.expected = IF old = NoRow THEN 0 ELSE old.version
      BY <1>4, ServeFacts
    <3> QED
      BY <3>1, NullAssumption DEF Envelope
  <2>2. /\ env.op = "CREATE" => old = NoRow
        /\ env.op # "CREATE" => old # NoRow
    BY <1>4 DEF Judge
  <2>3. old \in Row \cup {NoRow} /\ feed \in Seq(FeedRow) /\ change \in FeedRow /\ N \in Nat
    BY <2>1 DEF Types, FeedRow
  <2>4. /\ new.version = env.expected + 1 /\ new.by = s
        /\ new.archived = IF env.op = "CREATE" THEN FALSE ELSE old.archived \/ env.op = "DELETE"
        /\ change.entity = e /\ change.version = env.expected + 1 /\ change.sid = s
    OBVIOUS
  <2>5. row' = [row EXCEPT ![e] = new] /\ feed' = Append(feed, change)
    BY <1>1, <1>4
  <2> HIDE DEF new, change
  <2>6. \A f \in Entity : row'[f] = IF f = e THEN new ELSE row[f]
    BY <2>1, <2>5 DEF Types
  <2> HIDE DEF env, e, old
  <2>7. \A n \in 1..N : feed[n].entity = e =>
          old # NoRow /\ feed[n].version \in Nat /\ feed[n].version <= env.expected
    BY <2>1, FeedRows DEF FeedHasRow, FeedChain, N, old
  <2>8. \A n \in 1..N : feed[n].entity = change.entity => feed[n].version < change.version
    BY <2>1, <2>4, <2>7
  <2>9. /\ \A f : \A v \in Nat : v <= env.expected \/ f # e =>
             (Gone(feed', envelope, f, v) <=> Gone(feed, envelope, f, v))
        /\ \A f, r : Recorded(feed, envelope, f, r) => Recorded(feed', envelope, f, r)
        /\ \A n \in 1..N : n \in 1..Len(feed') /\ feed'[n] = feed[n]
        /\ Len(feed') = N + 1 /\ feed'[N + 1] = change
    <3>1. \A v \in Nat : v <= env.expected => v < change.version
      BY <2>1, <2>4
    <3>2. /\ \A f : \A v \in Nat : v < change.version \/ f # change.entity =>
               (Gone(feed', envelope, f, v) <=> Gone(feed, envelope, f, v))
          /\ \A f, r : Recorded(feed, envelope, f, r) => Recorded(feed', envelope, f, r)
          /\ \A n \in 1..N : n \in 1..Len(feed') /\ feed'[n] = feed[n]
          /\ Len(feed') = N + 1 /\ feed'[N + 1] = change
      BY <2>3, <2>5, <2>8, GrowingRecord
    <3> QED
      BY <2>4, <3>1, <3>2
  <2>10. N + 1 \in 1..Len(feed') /\ \A n \in 1..Len(feed') : n = N + 1 \/ n \in 1..N
    BY <2>3, <2>9
  <2>11. new.archived <=> Gone(feed', envelope, e, env.expected + 1)
    <3>1. Gone(feed', envelope, e, env.expected + 1) <=>
            \/ \E n \in 1..N : feed[n].entity = e /\ envelope[feed[n].sid].op = "DELETE"
            \/ env.op = "DELETE"
      <4>1. ASSUME NEW n \in 1..N
            PROVE  /\ feed'[n].entity = e /\ feed'[n].version <= env.expected + 1
                        /\ envelope[feed'[n].sid].op = "DELETE"
                      <=> feed[n].entity = e /\ envelope[feed[n].sid].op = "DELETE"
        BY <2>1, <2>7, <2>9
      <4>2. /\ feed'[N + 1].entity = e /\ feed'[N + 1].version <= env.expected + 1
               /\ envelope[feed'[N + 1].sid].op = "DELETE"
            <=> env.op = "DELETE"
        BY <2>1, <2>4, <2>9 DEF env
      <4> QED
        BY <2>9, <2>10, <4>1, <4>2 DEF Gone
    <3>2. CASE env.op = "CREATE"
      BY <2>2, <2>4, <2>7, <3>1, <3>2
    <3>3. CASE env.op # "CREATE"
      <4>1. old # NoRow /\ old \in Row /\ old.version = env.expected /\ Recorded(feed, envelope, e, old)
        BY <2>1, <2>2, <2>3, <3>3 DEF FeedChain, old
      <4>2. old.archived <=> Gone(feed, envelope, e, env.expected)
        BY <4>1 DEF Recorded
      <4>3. Gone(feed, envelope, e, env.expected) <=>
              \E n \in 1..N : feed[n].entity = e /\ envelope[feed[n].sid].op = "DELETE"
        BY <2>7 DEF Gone, N
      <4> QED
        BY <2>4, <3>1, <3>3, <4>2, <4>3
    <3> QED
      BY <3>2, <3>3
  <2>12. Recorded(feed', envelope, e, new)
    BY <2>4, <2>9, <2>10, <2>11 DEF Recorded
  <2>13. FeedChain'
    <3>1. ASSUME NEW n \in 1..Len(feed')
          PROVE  envelope[feed'[n].sid] # NoEnvelope /\ feed'[n].version <= row'[feed'[n].entity].version
      <4>1. CASE n = N + 1
        BY <2>1, <2>4, <2>6, <2>9, <4>1 DEF env
      <4>2. CASE n \in 1..N
        <5>1. /\ feed[n].entity \in Entity /\ envelope[feed[n].sid] # NoEnvelope
              /\ feed[n].version <= row[feed[n].entity].version
          BY <4>2, FeedRows DEF FeedChain, N
        <5>2. feed[n].entity = e => feed[n].version <= new.version
          BY <2>1, <2>4, <2>7, <4>2
        <5> QED
          BY <2>6, <2>9, <4>2, <5>1, <5>2
      <4> QED
        BY <2>10, <4>1, <4>2
    <3>2. ASSUME NEW n \in 1..Len(feed'), NEW k \in 1..Len(feed'), n < k,
                 feed'[n].entity = feed'[k].entity
          PROVE  feed'[n].version < feed'[k].version
      <4>1. n \in 1..N
        BY <2>3, <2>9, <2>10, <3>2
      <4>2. CASE k = N + 1
        BY <2>4, <2>8, <2>9, <3>2, <4>1, <4>2
      <4>3. CASE k \in 1..N
        BY <2>9, <3>2, <4>1, <4>3 DEF FeedChain, N
      <4> QED
        BY <2>10, <4>2, <4>3
    <3>3. ASSUME NEW f \in Entity, row'[f] # NoRow PROVE Recorded(feed', envelope, f, row'[f])
      BY <2>6, <2>9, <2>12, <3>3 DEF FeedChain
    <3> QED
      BY <1>1, <3>1, <3>2, <3>3 DEF FeedChain
  <2>14. AcceptedRecorded'
    <3> SUFFICES ASSUME NEW t \in Submission, outcome'[t] = "ACCEPTED"
                 PROVE  \E n \in 1..Len(feed') :
                          /\ feed'[n].sid = t /\ feed'[n].entity = envelope[t].entity
                          /\ feed'[n].version = envelope[t].expected + 1
      BY <1>1 DEF AcceptedRecorded
    <3>1. CASE t = s
      BY <2>4, <2>9, <2>10, <3>1 DEF env, e
    <3>2. CASE t # s
      <4>1. PICK n \in 1..N : /\ feed[n].sid = t /\ feed[n].entity = envelope[t].entity
                              /\ feed[n].version = envelope[t].expected + 1
        BY <1>2, <3>2 DEF AcceptedRecorded, N
      <4> QED
        BY <2>9, <4>1
    <3> QED
      BY <3>1, <3>2
  <2>15. RowsKnown'
    BY <1>1, <2>9 DEF RowsKnown, KnownRows
  <2>16. OwnBasis'
    <3> SUFFICES ASSUME NEW b \in Device, NEW f \in Entity, NEW t \in Submission,
                        Mine(envelope, b, f, t), envelope[t].op \in {"UPDATE", "CORRECT"},
                        NEW n \in 1..N, feed[n].entity = f, feed[n].version = envelope[t].expected,
                        ~Gone(feed, envelope, f, envelope[t].expected)
                 PROVE  /\ \E k \in 1..Len(feed') :
                             feed'[k].entity = f /\ feed'[k].version = envelope[t].expected
                        /\ ~Gone(feed', envelope, f, envelope[t].expected)
      BY <1>1 DEF OwnBasis, N
    <3>1. feed[n].version \in Nat /\ (feed[n].version <= env.expected \/ f # e)
      BY <2>7, FeedRows DEF N
    <3>2. Gone(feed', envelope, f, feed[n].version) <=> Gone(feed, envelope, f, feed[n].version)
      BY <2>9, <3>1
    <3> QED
      BY <2>9, <3>2
  <2>17. PageTrue'
    <3>1. ASSUME NEW b \in Device, NEW i \in 1..Len(page[b].changes)
          PROVE  LET x == page[b].changes[i]
                     n == cursor[b] + i
                 IN  /\ n <= Len(feed') /\ x.entity = feed'[n].entity /\ x.version = feed'[n].version
                     /\ Recorded(feed', envelope, x.entity, x.payload)
                     /\ x.version <= x.payload.version
      <4> DEFINE x == page[b].changes[i]
                 n == cursor[b] + i
      <4>1. TrueChange(x, n)
        BY DEF PageTrue
      <4>2. n \in 1..N
        <5>1. page[b].changes \in Seq(Change) /\ cursor[b] \in Nat
          BY DEF Types, PageOf
        <5>2. n \in Nat \ {0}
          BY <5>1
        <5> QED
          BY <2>3, <4>1, <5>2 DEF TrueChange, N
      <4>3. n \in 1..Len(feed') /\ feed'[n] = feed[n]
        BY <2>9, <4>2
      <4> HIDE DEF x, n
      <4>4. n <= Len(feed')
        BY <2>9, <4>2, <4>3
      <4> QED
        BY <2>9, <4>1, <4>3, <4>4 DEF TrueChange, x, n
    <3> QED
      BY <1>1, <3>1 DEF PageTrue, TrueChange
  <2>18. Caught'
    <3>1. ASSUME NEW b \in Device
          PROVE  /\ cursor[b] <= Len(feed')
                 /\ \A n \in 1..cursor[b] :
                      \/ <<"pull", n>> \in conflicts[b]
                      \/ /\ local[b][feed'[n].entity] # NoRow
                         /\ feed'[n].version <= local[b][feed'[n].entity].version
      <4>1. cursor[b] \in Nat /\ cursor[b] <= N
        BY DEF Types, Caught, N
      <4>2. \A n \in 1..cursor[b] : n \in 1..N /\ CaughtUp(conflicts[b], local[b], n)
        BY <2>3, <4>1 DEF Caught
      <4> QED
        BY <2>3, <2>9, <4>1, <4>2 DEF CaughtUp
    <3> QED
      BY <1>1, <3>1 DEF Caught, CaughtUp
  <2> QED
    BY <2>13, <2>14, <2>15, <2>16, <2>17, <2>18
<1> QED
  BY <1>3, <1>4

LEMMA NextRInv == IInv /\ RInv /\ [Next]_vars => RInv'
<1> SUFFICES ASSUME IInv, RInv, [Next]_vars PROVE RInv'
  OBVIOUS
<1>1. ASSUME NEW m \in Mutation, Mutate(m) PROVE RInv'
  BY <1>1, MutateRInv
<1>2. ASSUME NEW d \in Device, Coordinate(d) \/ Crash(d) PROVE RInv'
  BY <1>2, PushRInv, DownloadRInv, ApplyPageRInv DEF Coordinate
<1>3. ASSUME NEW s \in Submission, Serve(s) PROVE RInv'
  BY <1>3, ServeRInv
<1>4. ASSUME NEW s \in Submission, Drop(s) PROVE RInv'
  BY <1>4, OtherRInv DEF Drop, device, coordinator
<1>5. CASE UNCHANGED vars
  BY <1>5, OtherRInv DEF vars, server
<1> QED
  BY <1>1, <1>2, <1>3, <1>4, <1>5 DEF Next

\* Where all of a device's mutations of an entity were accepted, what they made
\* of a row that was not deleted is not deleted on the server either: by
\* induction on the version.
LEMMA AcceptedOnLiveRows ==
  ASSUME IInv, RInv, NEW d \in Device, NEW e \in Entity,
         \A s \in Submission : Mine(envelope, d, e, s) => outcome[s] = "ACCEPTED",
         NEW s \in Submission, Mine(envelope, d, e, s), envelope[s].op # "DELETE"
  PROVE  ~Gone(feed, envelope, e, envelope[s].expected + 1)
<1> DEFINE Live(v) == \A t \in Submission :
             Mine(envelope, d, e, t) /\ envelope[t].op # "DELETE" /\ envelope[t].expected = v
               => ~Gone(feed, envelope, e, v + 1)
           T == {v \in Nat : \A u \in 0..v : Live(u)}
<1>1. \A t \in Submission : Mine(envelope, d, e, t) =>
        /\ envelope[t].op \in {"CREATE", "UPDATE", "CORRECT", "DELETE"} /\ envelope[t].expected \in Nat
        /\ envelope[t].op = "CREATE" => envelope[t].expected = 0
  BY DEF IInv, Types, OutboxRows, Mine, Envelope
<1>2. ASSUME NEW v \in Nat, \A u \in Nat : u < v => Live(u)
      PROVE  Live(v)
  <2> SUFFICES ASSUME NEW t \in Submission, Mine(envelope, d, e, t), envelope[t].op # "DELETE",
                      envelope[t].expected = v, Gone(feed, envelope, e, v + 1)
               PROVE  FALSE
    OBVIOUS
  <2>1. PICK n \in 1..Len(feed) : feed[n].sid = t /\ feed[n].entity = e /\ feed[n].version = v + 1
    <3>1. outcome[t] = "ACCEPTED" /\ envelope[t].entity = e
      BY DEF Mine
    <3> QED
      BY <3>1 DEF RInv, AcceptedRecorded
  <2>2. PICK k \in 1..Len(feed) : /\ feed[k].entity = e /\ feed[k].version <= v + 1
                                  /\ envelope[feed[k].sid].op = "DELETE"
    BY DEF Gone
  <2>3. feed[k].version \in Nat \ {0} /\ k # n
    BY <2>1, <2>2, FeedRows DEF IInv
  <2>4. feed[k].version # v + 1
    <3>1. k < n \/ n < k
      BY <2>3
    <3>2. feed[k].version < feed[n].version \/ feed[n].version < feed[k].version
      BY <2>1, <2>2, <3>1 DEF RInv, FeedChain
    <3> QED
      BY <2>1, <2>3, <3>2
  <2>5. feed[k].version <= v
    BY <2>2, <2>3, <2>4
  <2>6. Gone(feed, envelope, e, v) /\ v # 0
    BY <2>2, <2>3, <2>5 DEF Gone
  <2>7. envelope[t].op \in {"UPDATE", "CORRECT"}
    BY <1>1, <2>6
  <2>8. PICK u \in Submission : /\ Mine(envelope, d, e, u) /\ envelope[u].op # "DELETE"
                                /\ envelope[u].expected + 1 = v
    BY <2>6, <2>7 DEF RInv, OwnBasis
  <2>9. envelope[u].expected \in Nat /\ envelope[u].expected < v
    BY <1>1, <2>8
  <2>10. Live(envelope[u].expected)
    BY <1>2, <2>9
  <2> HIDE DEF T
  <2> QED
    BY <2>6, <2>8, <2>10
<1>3. 0 \in T
  BY <1>2
<1>4. ASSUME NEW v \in T PROVE v + 1 \in T
  <2>1. v \in Nat /\ \A u \in 0..v : Live(u)
    OBVIOUS
  <2> HIDE DEF Live
  <2>2. \A u \in Nat : u < v + 1 => Live(u)
    BY <2>1
  <2>3. Live(v + 1)
    BY <1>2, <2>1, <2>2
  <2> QED
    BY <2>1, <2>3
<1>5. T = Nat
  <2>1. T \in SUBSET Nat
    OBVIOUS
  <2> HIDE DEF T
  <2> QED
    BY <1>3, <1>4, <2>1, NatSetInduction
<1>6. envelope[s].expected \in Nat
  BY <1>1
<1>7. Live(envelope[s].expected)
  BY <1>5, <1>6
<1> QED
  BY <1>7

\* Devices converge (coordinator.ts, pull and applyRemoteChange): where all
\* mutations a device made of an entity are confirmed, its cursor is at the end
\* of the feed and no pulled change of the entity is in conflict, it holds the
\* server's row: the same version, content and deletion.
THEOREM DevicesConverge == Spec => []Converged
<1>1. Init => IInv /\ RInv
  BY InitIInv, InitRInv
<1>2. IInv /\ RInv /\ [Next]_vars => (IInv /\ RInv)'
  BY NextIInv, NextRInv
<1>3. IInv /\ RInv => Converged
  <2> SUFFICES ASSUME IInv, RInv, NEW d \in Device, NEW e \in Entity, cursor[d] = Len(feed),
                      \A s \in Submission : Made(d, s) /\ envelope[s].entity = e => state[s] = "CONFIRMED",
                      \A n \in 1..Len(feed) : feed[n].entity = e => <<"pull", n>> \notin conflicts[d]
               PROVE  local[d][e] = row[e]
    BY DEF Converged
  <2> USE DEF IInv, RInv
  <2> DEFINE mine == local[d][e]
             theirs == row[e]
  <2>1. \A s \in Submission : Mine(envelope, d, e, s) => outcome[s] = "ACCEPTED"
    BY DEF Mine, Made, OutboxAgreesWithServer
  <2>2. mine \in Row \cup {NoRow} /\ theirs \in Row \cup {NoRow}
    BY DEF Types
  <2>3. mine # NoRow => Recorded(feed, envelope, e, mine)
    <3> SUFFICES ASSUME mine # NoRow, OwnRow(envelope, d, e, mine)
                 PROVE  Recorded(feed, envelope, e, mine)
      BY DEF RowsKnown, KnownRows
    <3>1. PICK s \in Submission : /\ Mine(envelope, d, e, s) /\ mine.by = s
                                  /\ mine.version = envelope[s].expected + 1
                                  /\ mine.archived <=> envelope[s].op = "DELETE"
      BY DEF OwnRow
    <3>2. PICK n \in 1..Len(feed) : feed[n].sid = s /\ feed[n].entity = e /\ feed[n].version = mine.version
      <4>1. outcome[s] = "ACCEPTED" /\ envelope[s].entity = e
        BY <2>1, <3>1 DEF Mine
      <4> QED
        BY <3>1, <4>1 DEF AcceptedRecorded
    <3>3. mine.archived <=> Gone(feed, envelope, e, mine.version)
      <4>1. CASE envelope[s].op = "DELETE"
        <5>1. mine.version <= mine.version
          BY <2>2 DEF Row
        <5> QED
          BY <3>1, <3>2, <4>1, <5>1 DEF Gone
      <4>2. CASE envelope[s].op # "DELETE"
        BY <2>1, <3>1, <4>2, AcceptedOnLiveRows
      <4> QED
        BY <4>1, <4>2
    <3> QED
      BY <3>1, <3>2, <3>3 DEF Recorded
  <2>4. theirs # NoRow => Recorded(feed, envelope, e, theirs)
    BY DEF FeedChain
  <2> HIDE DEF mine, theirs
  <2>5. \A n \in 1..Len(feed) : feed[n].entity = e =>
          /\ feed[n].version \in Nat /\ theirs # NoRow /\ feed[n].version <= theirs.version
          /\ mine # NoRow /\ feed[n].version <= mine.version
    BY FeedRows DEF FeedHasRow, FeedChain, Caught, CaughtUp, mine, theirs
  <2>6. CASE mine = NoRow \/ theirs = NoRow
    BY <2>3, <2>4, <2>5, <2>6 DEF Recorded, mine, theirs
  <2>7. CASE mine # NoRow /\ theirs # NoRow
    <3>1. PICK n \in 1..Len(feed) : /\ feed[n].entity = e /\ feed[n].version = mine.version /\ feed[n].sid = mine.by
                                    /\ mine.archived <=> Gone(feed, envelope, e, mine.version)
      BY <2>3, <2>7 DEF Recorded
    <3>2. PICK k \in 1..Len(feed) : /\ feed[k].entity = e /\ feed[k].version = theirs.version /\ feed[k].sid = theirs.by
                                    /\ theirs.archived <=> Gone(feed, envelope, e, theirs.version)
      BY <2>4, <2>7 DEF Recorded
    <3>3. mine \in Row /\ theirs \in Row
      BY <2>2, <2>7
    <3>4. mine.version = theirs.version
      BY <2>5, <3>1, <3>2, <3>3 DEF Row
    <3>5. n = k
      <4>1. ~(n < k) /\ ~(k < n)
        BY <2>5, <3>1, <3>2, <3>4 DEF FeedChain
      <4> QED
        BY <4>1
    <3>6. mine.by = theirs.by /\ mine.archived = theirs.archived
      BY <3>1, <3>2, <3>3, <3>4, <3>5 DEF Row
    <3> QED
      BY <3>3, <3>4, <3>6 DEF Row, mine, theirs
  <2> QED
    BY <2>6, <2>7
<1> QED
  BY <1>1, <1>2, <1>3, PTL DEF Spec

=============================================================================

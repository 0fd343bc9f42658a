-------------------------- MODULE LifecycleProofs --------------------------
(***************************************************************************)
(* Proofs about Lifecycle and Startup for every number of schema versions, *)
(* every set of identities and rolls, and every bound on connections,      *)
(* faults, events and starts of the process.                               *)
(***************************************************************************)
EXTENDS Lifecycle, FiniteSetTheorems, TLAPS

(************************* the inductive invariant *************************)

File == [applied: SUBSET Version, device: DeviceId \cup {NoDevice}, active: [Roll -> 0..2]]
Boot == [step: {"off", "pragmas", "read", "prepare", "migrate", "identity", "restore", "ok", "failed"},
         status: Failures \cup {"none"}, native: BOOLEAN]
Pass == [at: {"close", "open", "probe", "recover", "reopen", "probeNew", "init", "abandon"},
         event: Event, ticket: Nat, driver: Handle \cup {NoHandle},
         reopened: BOOLEAN, initialized: BOOLEAN]

Shapes ==
  /\ file \in File /\ known \in Version /\ boot \in Boot
  /\ handle \in [Handle -> {"free", "open", "dead"}]
  /\ current \in Handle \cup {NoHandle}
  /\ latest \in Nat
  /\ pending \in (Event \ {"launch"}) \cup {NoEvent}
  /\ pass = Idle \/ pass \in Pass
  /\ armed \in BOOLEAN
  /\ screen \in {"loading", "ready", "failed"}
  /\ faults \in Nat

\* The applied versions are the first ones, without a hole.
NoHole == \E n \in 0..MaxVersion : file.applied = 1..n

\* What the steps of a start have established so far.
BootProgress ==
  /\ boot.step \in {"prepare", "migrate", "identity", "restore", "ok"} => file.applied \subseteq 1..known
  /\ boot.step \in {"identity", "restore", "ok"} => file.applied = 1..known
  /\ boot.step \in {"restore", "ok"} => file.device \in DeviceId

\* Initialization runs inside a pass, at its "init" and nowhere else.
BootInsidePass == boot.step # "off" <=> pass.at = "init"

\* The connection a pass holds: closed where it is about to open one, not
\* closed where it is about to use or to close one.
PassHoldsDriver ==
  Running =>
    /\ pass.at = "close" => pass.driver = current
    /\ pass.at = "open" => pass.driver = NoHandle \/ handle[pass.driver] = "free"
    /\ pass.at = "reopen" => pass.driver # NoHandle /\ handle[pass.driver] = "free"
    /\ pass.at \in {"probe", "recover", "probeNew", "init", "abandon"} =>
         pass.driver # NoHandle /\ handle[pass.driver] # "free"

\* A pass is superseded only by an event that is kept for later.
TicketIsLatest ==
  /\ Running => pass.ticket \in 1..latest
  /\ Running /\ pending = NoEvent => pass.ticket = latest
  /\ ~Running => pending = NoEvent

IInv ==
  /\ Shapes /\ NoHole /\ IndexMeansUnique /\ BootProgress /\ BootInsidePass
  /\ PassHoldsDriver /\ TicketIsLatest /\ ReadyIsUsable

(***************************** the operators *******************************)

\* readSchemaVersion of a file whose versions have no hole is the newest one.
LEMMA SchemaVersionOfPrefix ==
  ASSUME NEW f, NEW n \in 0..MaxVersion, f.applied = 1..n
  PROVE  SchemaVersion(f) = n
<1>1. {v \in Version : \E w \in f.applied : v <= w} = 1..n
  BY StartupAssumption DEF Version
<1>2. Cardinality(1..n) = n
  BY FS_Interval
<1> QED
  BY <1>1, <1>2 DEF SchemaVersion

\* The next version to apply follows the last one applied.
LEMMA NextMissing ==
  ASSUME NEW n \in 0..MaxVersion, file.applied = 1..n, known \in Version,
         file.applied \subseteq 1..known, MissingVersions # {}
  PROVE  /\ n + 1 \in 1..known
         /\ (CHOOSE v \in MissingVersions : \A w \in MissingVersions : v <= w) = n + 1
<1>1. known \in Nat
  BY StartupAssumption DEF Version
<1>2. n <= known
  <2>1. CASE n = 0
    BY <2>1, <1>1
  <2>2. CASE n # 0
    BY <2>2, <1>1
  <2> QED
    BY <2>1, <2>2
<1>3. MissingVersions = (n + 1)..known
  BY <1>1, <1>2 DEF MissingVersions
<1>4. n + 1 \in MissingVersions /\ \A w \in MissingVersions : n + 1 <= w
  BY <1>1, <1>2, <1>3
<1>5. \A v \in MissingVersions : (\A w \in MissingVersions : v <= w) => v = n + 1
  BY <1>1, <1>3, <1>4
<1> QED
  BY <1>1, <1>3, <1>4, <1>5

LEMMA CloseEffect ==
  ASSUME Shapes, NEW h \in Handle \cup {NoHandle}, NEW o, Close(h, o)
  PROVE  /\ handle' \in [Handle -> {"free", "open", "dead"}] /\ faults' \in Nat
         /\ o # "refused" /\ h # NoHandle => handle'[h] = "free"
         /\ \A g \in Handle : g # h => handle'[g] = handle[g]
BY DEF Shapes, Close

LEMMA OpenEffect ==
  ASSUME Shapes, NEW h \in Handle \cup {NoHandle}, Open(h)
  PROVE  /\ handle' \in [Handle -> {"free", "open", "dead"}] /\ faults' \in Nat
         /\ h # NoHandle => handle[h] = "free" /\ handle'[h] = "open"
         /\ \A g \in Handle : g # h => handle'[g] = handle[g]
BY LifecycleAssumption DEF Shapes, Open, Handle

\* The files of two states that agree on the file satisfy the same.
LEMMA FileStable ==
  ASSUME NoHole, IndexMeansUnique, UNCHANGED <<file, known>>
  PROVE  NoHole' /\ IndexMeansUnique'
BY DEF NoHole, IndexMeansUnique

(********************** the invariant, step by step ************************)

LEMMA InitIInv == Init => IInv
<1> SUFFICES ASSUME Init PROVE IInv
  OBVIOUS
<1> USE DEF Init, StartupInit
<1>1. PICK n \in 0..(IndexVersion - 1) : file.applied = 1..n
  OBVIOUS
<1>2. n \in 0..MaxVersion /\ IndexVersion \notin 1..n
  BY <1>1, StartupAssumption
<1>3. NoHole /\ IndexMeansUnique
  BY <1>1, <1>2 DEF NoHole, IndexMeansUnique
<1>4. Shapes
  <2>1. file.applied \subseteq Version
    BY <1>1, <1>2, StartupAssumption DEF Version
  <2>2. file \in File
    BY <2>1 DEF File
  <2> QED
    BY <2>2 DEF Shapes, Boot, Off, Step, Idle
<1>5. BootProgress /\ BootInsidePass /\ PassHoldsDriver /\ TicketIsLatest /\ ReadyIsUsable
  BY DEF BootProgress, BootInsidePass, PassHoldsDriver, TicketIsLatest, ReadyIsUsable, Off, Step,
         Idle, Running
<1> QED
  BY <1>3, <1>4, <1>5 DEF IInv

\* A pass ends: with a connection to a prepared file, or with none.
LEMMA FinishIInv ==
  ASSUME IInv, Running, NEW ok \in BOOLEAN, Finish(ok),
         UNCHANGED <<file, known>>, boot' \in Boot, boot'.step = "off", armed' \in BOOLEAN, faults' \in Nat,
         handle' \in [Handle -> {"free", "open", "dead"}],
         ok => pass.driver # NoHandle /\ handle'[pass.driver] # "free" /\ Prepared
  PROVE  IInv'
<1> USE DEF IInv
<1>1. pass \in Pass
  BY DEF Shapes, Running
<1>2. NoHole' /\ IndexMeansUnique'
  BY FileStable
<1>3. current' \in Handle \cup {NoHandle}
  BY <1>1 DEF Finish, Pass
<1>4. boot' \in Boot /\ boot'.step = "off"
  OBVIOUS
<1>5. BootProgress'
  BY <1>4 DEF BootProgress
<1>6. CASE pending = NoEvent
  <2>1. pass' = Idle /\ latest' = latest /\ pending' = NoEvent
    BY <1>6 DEF Finish
  <2>2. pass.ticket = latest
    BY <1>6 DEF TicketIsLatest
  <2>3. screen' = IF ok THEN "ready" ELSE "failed"
    BY <1>6, <2>2 DEF Finish
  <2>4. Shapes'
    BY <1>3, <1>4, <2>1, <2>3 DEF Shapes
  <2>5. BootInsidePass' /\ PassHoldsDriver' /\ TicketIsLatest'
    BY <1>4, <2>1 DEF BootInsidePass, PassHoldsDriver, TicketIsLatest, Running, Idle
  <2>6. ReadyIsUsable'
    BY <2>3, <2>1 DEF ReadyIsUsable, Finish, Prepared
  <2> QED
    BY <1>2, <1>5, <2>4, <2>5, <2>6
<1>7. CASE pending # NoEvent
  <2>1. /\ pending \in Event /\ pending' = NoEvent /\ latest' = latest + 1
        /\ Begin(pending, latest + 1, current') /\ screen' = screen
    BY <1>7 DEF Finish, Shapes
  <2>2. /\ pass' \in Pass /\ pass'.ticket = latest + 1 /\ pass'.driver = current'
        /\ pass'.at \in {"close", "open", "probe"}
        /\ pass'.at = "open" => current' = NoHandle
        /\ pass'.at = "probe" => current' # NoHandle
    BY <1>3, <2>1 DEF Begin, Pass, Shapes
  <2>3. Running'
    BY <2>2 DEF Running, Idle
  <2>4. Shapes'
    BY <1>3, <1>4, <2>1, <2>2 DEF Shapes
  <2>5. BootInsidePass' /\ TicketIsLatest'
    BY <1>4, <2>1, <2>2, <2>3 DEF BootInsidePass, TicketIsLatest, Shapes
  <2>6. PassHoldsDriver'
    BY <2>2, <2>3 DEF PassHoldsDriver, Finish
  <2>7. ReadyIsUsable'
    BY <2>3 DEF ReadyIsUsable
  <2> QED
    BY <1>2, <1>5, <2>4, <2>5, <2>6, <2>7
<1> QED
  BY <1>6, <1>7

\* A pass goes on from one call to the next outside of initialization.
LEMMA OnwardIInv ==
  ASSUME IInv, Running, Stay, UNCHANGED <<file, known>>,
         boot' \in Boot, boot'.step \in {"off", "pragmas", "failed"},
         boot'.step # "off" <=> pass'.at = "init",
         armed' \in BOOLEAN, faults' \in Nat,
         handle' \in [Handle -> {"free", "open", "dead"}],
         pass' \in Pass, pass'.at # "close", pass'.ticket = pass.ticket,
         pass'.at = "open" => pass'.driver = NoHandle \/ handle'[pass'.driver] = "free",
         pass'.at = "reopen" => pass'.driver # NoHandle /\ handle'[pass'.driver] = "free",
         pass'.at \in {"probe", "recover", "probeNew", "init", "abandon"} =>
           pass'.driver # NoHandle /\ handle'[pass'.driver] # "free"
  PROVE  IInv'
<1> USE DEF IInv, Stay
<1>1. Running'
  BY DEF Running, Idle, Pass
<1>2. Shapes'
  BY DEF Shapes
<1>3. NoHole' /\ IndexMeansUnique'
  BY FileStable
<1>4. BootProgress' /\ BootInsidePass' /\ PassHoldsDriver'
  BY DEF BootProgress, BootInsidePass, PassHoldsDriver
<1>5. TicketIsLatest'
  BY <1>1 DEF TicketIsLatest
<1>6. ReadyIsUsable'
  BY <1>1 DEF ReadyIsUsable
<1> QED
  BY <1>2, <1>3, <1>4, <1>5, <1>6

\* A record of the pass with its next call, and with another connection.
LEMMA PassAt ==
  ASSUME NEW p \in Pass, NEW q,
         NEW at \in {"close", "open", "probe", "recover", "reopen", "probeNew", "init", "abandon"},
         q = [p EXCEPT !.at = at]
  PROVE  q \in Pass /\ q.at = at /\ q.driver = p.driver /\ q.ticket = p.ticket
BY DEF Pass

LEMMA PassOnDriver ==
  ASSUME NEW p \in Pass, NEW q, NEW h \in Handle \cup {NoHandle},
         NEW at \in {"close", "open", "probe", "recover", "reopen", "probeNew", "init", "abandon"},
         q = [p EXCEPT !.at = at, !.driver = h]
  PROVE  q \in Pass /\ q.at = at /\ q.driver = h /\ q.ticket = p.ticket
BY DEF Pass

LEMMA PassReopening ==
  ASSUME NEW p \in Pass, NEW q, q = [p EXCEPT !.at = "reopen", !.reopened = TRUE]
  PROVE  q \in Pass /\ q.at = "reopen" /\ q.driver = p.driver /\ q.ticket = p.ticket
BY DEF Pass

LEMMA PassInitialized ==
  ASSUME NEW p \in Pass, NEW q, NEW at \in {"recover", "abandon"},
         q = [p EXCEPT !.initialized = TRUE, !.at = at]
  PROVE  q \in Pass /\ q.at = at /\ q.driver = p.driver /\ q.ticket = p.ticket
BY DEF Pass

\* initializeForEvent begins, on a connection that is not closed.
LEMMA EnterEffect ==
  ASSUME Shapes, Enter
  PROVE  boot' \in Boot /\ boot'.step \in {"pragmas", "failed"} /\ armed' \in BOOLEAN
BY DEF Shapes, Enter, Boot, Step, Failed, Failures

LEMMA OutcomeEffect ==
  ASSUME Shapes, NEW h, NEW o \in Outcome(h), h \in Handle, faults' = IF o = "other" THEN faults + 1 ELSE faults
  PROVE  faults' \in Nat /\ o \in {"ok", "native", "other"}
BY DEF Shapes, Outcome

\* A step of a pass on the connection: the pass ends, or goes on.
LEMMA CallIInv ==
  ASSUME IInv, DetachOld \/ OpenSame \/ Probe \/ Recover \/ OpenFresh \/ ProbeNew \/ Abandon
  PROVE  IInv'
<1> USE DEF IInv
<1>1. /\ Running /\ pass \in Pass /\ Shapes /\ PassHoldsDriver
      /\ boot \in Boot /\ boot.step = "off" /\ armed \in BOOLEAN /\ faults \in Nat
      /\ handle \in [Handle -> {"free", "open", "dead"}] /\ UNCHANGED <<file, known>>
  <2>1. pass.at \in {"close", "open", "probe", "recover", "reopen", "probeNew", "abandon"}
    BY DEF DetachOld, OpenSame, Probe, Recover, OpenFresh, ProbeNew, Abandon
  <2>2. pass # Idle
    BY <2>1 DEF Idle
  <2>3. UNCHANGED <<file, known>>
    BY DEF Database, DetachOld, OpenSame, Probe, Recover, OpenFresh, ProbeNew, Abandon
  <2> QED
    BY <2>1, <2>2, <2>3 DEF Running, Shapes, BootInsidePass
<1>2. CASE DetachOld
  <2>1. PICK o \in CloseOutcome(current) :
          /\ Close(current, o)
          /\ IF o = "proceed" THEN GoTo("open") /\ Stay ELSE Finish(FALSE)
    BY <1>2 DEF DetachOld
  <2>2. current \in Handle \cup {NoHandle} /\ pass.driver = current
    BY <1>1, <1>2 DEF Shapes, PassHoldsDriver, DetachOld
  <2>3. /\ handle' \in [Handle -> {"free", "open", "dead"}] /\ faults' \in Nat
        /\ o # "refused" /\ current # NoHandle => handle'[current] = "free"
    BY <1>1, <2>1, <2>2, CloseEffect
  <2>4. boot' = boot /\ armed' = armed
    BY <1>2 DEF DetachOld
  <2>5. CASE o = "proceed"
    <3>1. pass' \in Pass /\ pass'.at = "open" /\ pass'.driver = current /\ pass'.ticket = pass.ticket
      BY <1>1, <2>1, <2>2, <2>5, PassAt DEF GoTo
    <3> QED
      BY <1>1, <2>1, <2>3, <2>4, <2>5, <3>1, OnwardIInv
  <2>6. CASE o # "proceed"
    BY <1>1, <2>1, <2>3, <2>4, <2>6, FinishIInv
  <2> QED
    BY <2>5, <2>6
<1>3. CASE OpenSame
  <2>1. PICK h \in Handle \cup {NoHandle} :
          /\ Open(h)
          /\ IF h = NoHandle THEN Finish(FALSE)
             ELSE /\ pass' = [pass EXCEPT !.at = IF FreshOpen(pass.event) THEN "init" ELSE "probeNew",
                                          !.driver = h]
                  /\ Stay
          /\ IF h # NoHandle /\ FreshOpen(pass.event) THEN Enter ELSE UNCHANGED <<boot, armed>>
    BY <1>3 DEF OpenSame
  <2>2. /\ handle' \in [Handle -> {"free", "open", "dead"}] /\ faults' \in Nat
        /\ h # NoHandle => handle'[h] = "open"
    BY <1>1, <2>1, OpenEffect
  <2>3. CASE h = NoHandle
    BY <1>1, <2>1, <2>2, <2>3, FinishIInv
  <2>4. CASE h # NoHandle /\ FreshOpen(pass.event)
    <3>1. pass' \in Pass /\ pass'.at = "init" /\ pass'.driver = h /\ pass'.ticket = pass.ticket
      BY <1>1, <2>1, <2>4, PassOnDriver
    <3> QED
      BY <1>1, <2>1, <2>2, <2>4, <3>1, EnterEffect, OnwardIInv
  <2>5. CASE h # NoHandle /\ ~FreshOpen(pass.event)
    <3>1. pass' \in Pass /\ pass'.at = "probeNew" /\ pass'.driver = h /\ pass'.ticket = pass.ticket
      BY <1>1, <2>1, <2>5, PassOnDriver
    <3> QED
      BY <1>1, <2>1, <2>2, <2>5, <3>1, OnwardIInv
  <2> QED
    BY <2>3, <2>4, <2>5
<1>4. CASE Probe
  <2>1. PICK o \in Outcome(pass.driver) :
          /\ faults' = IF o = "other" THEN faults + 1 ELSE faults
          /\ GoTo(IF o = "ok" THEN "init" ELSE IF o = "native" THEN "recover" ELSE "abandon")
          /\ IF o = "ok" THEN Enter ELSE UNCHANGED <<boot, armed>>
    BY <1>4 DEF Probe
  <2>2. /\ pass.driver \in Handle /\ pass.driver # NoHandle /\ handle[pass.driver] # "free"
        /\ Stay /\ handle' = handle
    BY <1>1, <1>4 DEF PassHoldsDriver, Pass, Probe
  <2>3. faults' \in Nat
    BY <1>1, <2>1, <2>2, OutcomeEffect
  <2>4. CASE o = "ok"
    <3>1. pass' \in Pass /\ pass'.at = "init" /\ pass'.driver = pass.driver /\ pass'.ticket = pass.ticket
      BY <1>1, <2>1, <2>4, PassAt DEF GoTo
    <3> QED
      BY <1>1, <2>1, <2>2, <2>3, <2>4, <3>1, EnterEffect, OnwardIInv
  <2>5. CASE o # "ok"
    <3>1. /\ pass' \in Pass /\ pass'.at \in {"recover", "abandon"}
          /\ pass'.driver = pass.driver /\ pass'.ticket = pass.ticket
      BY <1>1, <2>1, <2>5, PassAt DEF GoTo
    <3> QED
      BY <1>1, <2>1, <2>2, <2>3, <2>5, <3>1, OnwardIInv
  <2> QED
    BY <2>4, <2>5
<1>5. CASE Recover
  <2>1. PICK o \in CloseOutcome(pass.driver) :
          /\ Close(pass.driver, o)
          /\ IF o = "proceed"
             THEN pass' = [pass EXCEPT !.at = "reopen", !.reopened = TRUE] /\ Stay
             ELSE Finish(FALSE)
    BY <1>5 DEF Recover
  <2>2. pass.driver \in Handle /\ pass.driver # NoHandle
    BY <1>1, <1>5 DEF PassHoldsDriver, Pass, Recover
  <2>3. /\ handle' \in [Handle -> {"free", "open", "dead"}] /\ faults' \in Nat
        /\ o # "refused" => handle'[pass.driver] = "free"
    BY <1>1, <2>1, <2>2, CloseEffect
  <2>4. boot' = boot /\ armed' = armed
    BY <1>5 DEF Recover
  <2>5. CASE o = "proceed"
    <3>1. pass' \in Pass /\ pass'.at = "reopen" /\ pass'.driver = pass.driver /\ pass'.ticket = pass.ticket
      BY <1>1, <2>1, <2>5, PassReopening
    <3> QED
      BY <1>1, <2>1, <2>2, <2>3, <2>4, <2>5, <3>1, OnwardIInv
  <2>6. CASE o # "proceed"
    BY <1>1, <2>1, <2>3, <2>4, <2>6, FinishIInv
  <2> QED
    BY <2>5, <2>6
<1>6. CASE OpenFresh
  <2>1. PICK h \in Handle \cup {NoHandle} :
          /\ Open(h)
          /\ IF h = NoHandle THEN Finish(FALSE)
             ELSE pass' = [pass EXCEPT !.at = "probeNew", !.driver = h] /\ Stay
    BY <1>6 DEF OpenFresh
  <2>2. /\ handle' \in [Handle -> {"free", "open", "dead"}] /\ faults' \in Nat
        /\ h # NoHandle => handle'[h] = "open"
        /\ boot' = boot /\ armed' = armed
    BY <1>1, <1>6, <2>1, OpenEffect DEF OpenFresh
  <2>3. CASE h = NoHandle
    BY <1>1, <2>1, <2>2, <2>3, FinishIInv
  <2>4. CASE h # NoHandle
    <3>1. pass' \in Pass /\ pass'.at = "probeNew" /\ pass'.driver = h /\ pass'.ticket = pass.ticket
      BY <1>1, <2>1, <2>4, PassOnDriver
    <3> QED
      BY <1>1, <2>1, <2>2, <2>4, <3>1, OnwardIInv
  <2> QED
    BY <2>3, <2>4
<1>7. CASE ProbeNew
  <2>1. PICK o \in Outcome(pass.driver) :
          /\ faults' = IF o = "other" THEN faults + 1 ELSE faults
          /\ GoTo(IF o = "ok" THEN "init" ELSE "abandon")
          /\ IF o = "ok" THEN Enter ELSE UNCHANGED <<boot, armed>>
    BY <1>7 DEF ProbeNew
  <2>2. /\ pass.driver \in Handle /\ pass.driver # NoHandle /\ handle[pass.driver] # "free"
        /\ Stay /\ handle' = handle
    BY <1>1, <1>7 DEF PassHoldsDriver, Pass, ProbeNew
  <2>3. faults' \in Nat
    BY <1>1, <2>1, <2>2, OutcomeEffect
  <2>4. CASE o = "ok"
    <3>1. pass' \in Pass /\ pass'.at = "init" /\ pass'.driver = pass.driver /\ pass'.ticket = pass.ticket
      BY <1>1, <2>1, <2>4, PassAt DEF GoTo
    <3> QED
      BY <1>1, <2>1, <2>2, <2>3, <2>4, <3>1, EnterEffect, OnwardIInv
  <2>5. CASE o # "ok"
    <3>1. /\ pass' \in Pass /\ pass'.at = "abandon"
          /\ pass'.driver = pass.driver /\ pass'.ticket = pass.ticket
      BY <1>1, <2>1, <2>5, PassAt DEF GoTo
    <3> QED
      BY <1>1, <2>1, <2>2, <2>3, <2>5, <3>1, OnwardIInv
  <2> QED
    BY <2>4, <2>5
<1>8. CASE Abandon
  <2>1. PICK o \in CloseOutcome(pass.driver) : Close(pass.driver, o)
    BY <1>8 DEF Abandon
  <2>2. handle' \in [Handle -> {"free", "open", "dead"}] /\ faults' \in Nat
    BY <1>1, <2>1, CloseEffect DEF Pass
  <2> QED
    BY <1>1, <1>8, <2>2, FinishIInv DEF Abandon
<1> QED
  BY <1>2, <1>3, <1>4, <1>5, <1>6, <1>7, <1>8

\* What initializeApplication is at, as a value.
LEMMA BootValues ==
  /\ \A status \in Failures : \A o : Failed(status, o) \in Boot /\ Failed(status, o).step = "failed"
  /\ \A name \in {"off", "pragmas", "read", "prepare", "migrate", "identity", "restore", "ok"} :
       Step(name) \in Boot /\ Step(name).step = name
BY DEF Failed, Step, Boot

\* One step of a start: what it leaves in the file and has established.
LEMMA InitializeEffect ==
  ASSUME Shapes, NoHole, IndexMeansUnique, BootProgress, NEW o, Initialize(o)
  PROVE  /\ file' \in File /\ known' = known /\ boot' \in Boot /\ boot'.step # "off"
         /\ NoHole' /\ IndexMeansUnique' /\ BootProgress'
<1> USE DEF Shapes, BootProgress
<1> USE BootValues DEF Failures
<1>1. CASE Pragmas(o)
  BY <1>1, FileStable DEF Pragmas
<1>2. CASE ReadVersions(o)
  <2>1. PICK n \in 0..MaxVersion : file.applied = 1..n
    BY DEF NoHole
  <2>2. SchemaVersion(file) = n
    BY <2>1, SchemaVersionOfPrefix
  <2>3. /\ boot' \in Boot /\ boot'.step \in {"prepare", "failed"} /\ UNCHANGED <<file, known>>
        /\ boot'.step = "prepare" => ~(SchemaVersion(file) > known)
    BY <1>2 DEF ReadVersions
  <2>4. boot'.step = "prepare" => file.applied \subseteq 1..known
    BY <2>1, <2>2, <2>3, StartupAssumption DEF Version
  <2> QED
    BY <2>3, <2>4, FileStable
<1>3. CASE PrepareInsert(o)
  BY <1>3, FileStable DEF PrepareInsert
<1>4. CASE Migrate(o)
  <2>1. PICK n \in 0..MaxVersion : file.applied = 1..n
    BY DEF NoHole
  <2>2. file.applied \subseteq 1..known /\ known' = known /\ boot.step = "migrate"
    BY <1>4 DEF Migrate
  <2>3. CASE MissingVersions = {}
    <3>1. boot' \in Boot /\ boot'.step = "identity" /\ UNCHANGED <<file, known>>
      BY <1>4, <2>3 DEF Migrate
    <3>2. file.applied = 1..known
      BY <2>2, <2>3 DEF MissingVersions
    <3> QED
      BY <3>1, <3>2, FileStable
  <2>4. CASE MissingVersions # {}
    <3>1. /\ n + 1 \in 1..known
          /\ (CHOOSE v \in MissingVersions : \A w \in MissingVersions : v <= w) = n + 1
      BY <2>1, <2>2, <2>4, NextMissing
    <3>2. IF o = "ok" /\ PrecheckPasses(n + 1)
          THEN file' = [file EXCEPT !.applied = @ \cup {n + 1}] /\ UNCHANGED boot
          ELSE boot' = Failed("DATABASE_MIGRATION_FAILED", o) /\ UNCHANGED file
      BY <1>4, <2>4, <3>1 DEF Migrate
    <3>3. CASE o = "ok" /\ PrecheckPasses(n + 1)
      <4>1. n + 1 \in 1..MaxVersion /\ n \in Nat /\ known \in Nat
        BY <3>1, StartupAssumption DEF Version
      <4>2. 1..n \cup {n + 1} = 1..(n + 1)
        BY <4>1
      <4>3. file' = [applied |-> file.applied \cup {n + 1}, device |-> file.device, active |-> file.active]
        BY <3>2, <3>3 DEF File
      <4>4. /\ file' \in File /\ file'.applied = 1..(n + 1) /\ file'.active = file.active
            /\ boot' = boot
        BY <2>1, <3>2, <3>3, <4>1, <4>2, <4>3 DEF File, Version
      <4>5. NoHole'
        BY <4>1, <4>4 DEF NoHole
      <4>6. IndexMeansUnique'
        BY <2>1, <3>3, <4>1, <4>4, StartupAssumption DEF IndexMeansUnique, PrecheckPasses
      <4>7. file'.applied \subseteq 1..known
        BY <3>1, <4>1, <4>4
      <4> QED
        BY <2>2, <4>4, <4>5, <4>6, <4>7
    <3>4. CASE ~(o = "ok" /\ PrecheckPasses(n + 1))
      <4>1. UNCHANGED <<file, known>> /\ boot' \in Boot /\ boot'.step = "failed"
        BY <2>2, <3>2, <3>4
      <4> QED
        BY <4>1, FileStable
    <3> QED
      BY <3>3, <3>4
  <2> QED
    BY <2>3, <2>4
<1>5. CASE LoadIdentity(o)
  <2>1. CASE UNCHANGED file /\ boot' = Failed("DATABASE_OPEN_FAILED", o)
    BY <1>5, <2>1, FileStable DEF LoadIdentity
  <2>2. CASE UNCHANGED file /\ file.device # NoDevice /\ boot' = Step("restore")
    BY <1>5, <2>2, FileStable DEF LoadIdentity, File
  <2>3. ASSUME NEW id \in DeviceId, file' = [file EXCEPT !.device = id], boot' = Step("restore")
        PROVE  /\ file' \in File /\ known' = known /\ boot' \in Boot /\ boot'.step # "off"
               /\ NoHole' /\ IndexMeansUnique' /\ BootProgress'
    <3>1. file' = [applied |-> file.applied, device |-> id, active |-> file.active]
      BY <2>3 DEF File
    <3> QED
      BY <1>5, <2>3, <3>1 DEF LoadIdentity, File, NoHole, IndexMeansUnique
  <2> QED
    BY <1>5, <2>1, <2>2, <2>3 DEF LoadIdentity
<1>6. CASE Restore(o)
  BY <1>6, FileStable DEF Restore
<1> QED
  BY <1>1, <1>2, <1>3, <1>4, <1>5, <1>6 DEF Initialize

LEMMA InitializeStepIInv ==
  ASSUME IInv, InitializeStep
  PROVE  IInv'
<1> USE DEF IInv
<1>1. PICK o \in Outcome(pass.driver) :
        Initialize(o) /\ faults' = IF o = "other" THEN faults + 1 ELSE faults
  BY DEF InitializeStep
<1>2. /\ UNCHANGED <<current, latest, pending, screen, handle, pass, armed, starts>>
      /\ pass.at = "init" /\ pass \in Pass
  BY DEF InitializeStep, Stay, Shapes, Idle
<1>3. /\ file' \in File /\ known' = known /\ boot' \in Boot /\ boot'.step # "off"
      /\ NoHole' /\ IndexMeansUnique' /\ BootProgress'
  BY <1>1, InitializeEffect
<1>4. Shapes'
  BY <1>1, <1>2, <1>3 DEF Shapes
<1>5. BootInsidePass' /\ PassHoldsDriver' /\ TicketIsLatest'
  BY <1>2, <1>3 DEF BootInsidePass, PassHoldsDriver, TicketIsLatest, Running
<1>6. ReadyIsUsable'
  BY <1>2 DEF ReadyIsUsable, Running, Idle
<1> QED
  BY <1>3, <1>4, <1>5, <1>6

LEMMA InitializeDoneIInv ==
  ASSUME IInv, InitializeDone
  PROVE  IInv'
<1> USE DEF IInv
<1>1. /\ pass.at = "init" /\ pass \in Pass /\ Running /\ pass.driver # NoHandle
      /\ handle[pass.driver] # "free" /\ handle \in [Handle -> {"free", "open", "dead"}]
  BY DEF InitializeDone, Shapes, Idle, Running, PassHoldsDriver
<1>2. /\ UNCHANGED <<file, known>> /\ handle' = handle
      /\ armed' \in BOOLEAN /\ faults' \in Nat /\ boot' \in Boot /\ boot'.step = "off"
  BY DEF InitializeDone, Database, Shapes, Boot, Off, Step
<1>3. CASE boot.step = "ok" \/ FreshOpen(pass.event)
  <2>1. Finish(boot.step = "ok")
    BY <1>3 DEF InitializeDone
  <2>2. boot.step = "ok" => Prepared
    BY DEF BootProgress, Prepared
  <2> QED
    BY <1>1, <1>2, <2>1, <2>2, FinishIInv
<1>4. CASE ~(boot.step = "ok" \/ FreshOpen(pass.event))
  <2>1. PICK at \in {"recover", "abandon"} :
          pass' = [pass EXCEPT !.initialized = TRUE, !.at = at]
    BY <1>4 DEF InitializeDone
  <2>2. Stay
    BY <1>4 DEF InitializeDone
  <2>3. pass' \in Pass /\ pass'.at = at /\ pass'.driver = pass.driver /\ pass'.ticket = pass.ticket
    BY <1>1, <2>1, PassInitialized
  <2> QED
    BY <1>1, <1>2, <2>2, <2>3, OnwardIInv
<1> QED
  BY <1>3, <1>4

LEMMA RunIInv ==
  ASSUME IInv, NEW event \in Event, Run(event)
  PROVE  IInv'
<1> USE DEF IInv
<1>1. /\ ~Running /\ pending = NoEvent /\ pass = Idle
      /\ UNCHANGED <<file, known, boot, handle, current, pending, armed, faults, starts>>
  BY DEF Run, TicketIsLatest, Running
<1>2. /\ latest' = latest + 1 /\ latest' \in Nat /\ latest' > 0
      /\ screen' \in {"loading", "ready", "failed"}
  BY DEF Run, Raise, Shapes
<1>3. /\ pass' \in Pass /\ pass'.ticket = latest' /\ pass'.driver = current
      /\ pass'.at \in {"close", "open", "probe"}
      /\ pass'.at = "open" => current = NoHandle
      /\ pass'.at = "probe" => current # NoHandle
  BY <1>2 DEF Run, Begin, Pass, Shapes
<1>4. Running'
  BY <1>3 DEF Running, Idle
<1>5. current # NoHandle => handle[current] # "free"
  BY <1>1 DEF ReadyIsUsable
<1>6. Shapes'
  BY <1>1, <1>2, <1>3 DEF Shapes
<1>7. NoHole' /\ IndexMeansUnique'
  BY <1>1, FileStable
<1>8. BootProgress' /\ BootInsidePass'
  BY <1>1, <1>3 DEF BootProgress, BootInsidePass, Idle
<1>9. PassHoldsDriver' /\ TicketIsLatest' /\ ReadyIsUsable'
  BY <1>1, <1>2, <1>3, <1>4, <1>5 DEF PassHoldsDriver, TicketIsLatest, ReadyIsUsable
<1> QED
  BY <1>6, <1>7, <1>8, <1>9

LEMMA RunSkippedIInv ==
  ASSUME IInv, NEW event \in Event, RunSkipped(event)
  PROVE  IInv'
<1> USE DEF IInv
<1>1. /\ Running /\ pass.ticket \in 1..latest
      /\ UNCHANGED <<file, known, boot, handle, current, pass, armed, faults, starts>>
  BY DEF RunSkipped, TicketIsLatest
<1>2. latest' = latest + 1 /\ latest' \in Nat /\ screen' \in {"loading", "ready", "failed"}
  BY DEF RunSkipped, Raise, Shapes
<1>3. pending' = event /\ event # "launch" /\ event # NoEvent
  BY <1>1, LifecycleAssumption DEF RunSkipped, Raise, Event, Shapes
<1>4. Shapes'
  BY <1>1, <1>2, <1>3 DEF Shapes
<1>5. NoHole' /\ IndexMeansUnique'
  BY <1>1, FileStable
<1>6. BootProgress' /\ BootInsidePass' /\ PassHoldsDriver'
  BY <1>1 DEF BootProgress, BootInsidePass, PassHoldsDriver, Running
<1>7. TicketIsLatest' /\ ReadyIsUsable'
  BY <1>1, <1>2, <1>3 DEF TicketIsLatest, ReadyIsUsable, Running, Shapes
<1> QED
  BY <1>4, <1>5, <1>6, <1>7

\* The operating system and the Advanced screen touch no file and no pass.
LEMMA DisturbIInv ==
  ASSUME IInv, SetArmed \/ \E h \in Handle : Invalidate(h)
  PROVE  IInv'
<1> USE DEF IInv
<1>1. /\ UNCHANGED <<file, known, boot, current, latest, pending, pass, screen>>
      /\ armed' \in BOOLEAN /\ faults' \in Nat
      /\ handle' \in [Handle -> {"free", "open", "dead"}]
      /\ \A g \in Handle : handle'[g] = "free" <=> handle[g] = "free"
  <2>1. CASE SetArmed
    BY <2>1 DEF SetArmed, Database, Shapes
  <2>2. ASSUME NEW h \in Handle, Invalidate(h)
        PROVE  /\ handle' = [handle EXCEPT ![h] = "dead"] /\ handle[h] = "open"
               /\ faults' = faults + 1 /\ armed' = armed
               /\ UNCHANGED <<file, known, boot, current, latest, pending, pass, screen>>
    BY <2>2 DEF Invalidate, Database
  <2> QED
    BY <2>1, <2>2 DEF Shapes
<1>2. Shapes'
  BY <1>1 DEF Shapes
<1>3. NoHole' /\ IndexMeansUnique'
  BY <1>1, FileStable
<1>4. BootProgress' /\ BootInsidePass' /\ TicketIsLatest'
  BY <1>1 DEF BootProgress, BootInsidePass, TicketIsLatest, Running
<1>5. PassHoldsDriver'
  BY <1>1 DEF PassHoldsDriver, Running, Shapes, Pass
<1>6. ReadyIsUsable'
  BY <1>1 DEF ReadyIsUsable, Running, Shapes, Prepared
<1> QED
  BY <1>2, <1>3, <1>4, <1>5, <1>6

\* Where the application saves, the file is prepared: what it writes keeps the
\* promise of the index.
LEMMA SaveIInv ==
  ASSUME IInv, NEW r \in Roll, Save(r)
  PROVE  IInv' /\ Prepared
<1> USE DEF IInv
<1>1. /\ ~Running /\ screen = "ready" /\ Prepared /\ pass = Idle
      /\ UNCHANGED <<known, boot, handle, current, latest, pending, pass, armed, screen, faults, starts>>
  BY DEF Save, SavePinState, ReadyIsUsable, Running
<1>2. file \in File /\ file.active \in [Roll -> 0..2]
  BY DEF Shapes, File
<1>3. /\ file.active[r] < IF IndexVersion \in file.applied THEN 1 ELSE 2
      /\ file' = [file EXCEPT !.active[r] = @ + 1]
  BY DEF Save, SavePinState
<1>4. file' = [applied |-> file.applied, device |-> file.device,
               active |-> [file.active EXCEPT ![r] = @ + 1]]
  BY <1>2, <1>3 DEF File
<1>5. file' \in File /\ file'.applied = file.applied /\ file'.device = file.device
  BY <1>2, <1>3, <1>4 DEF File
<1>6. file'.active = [file.active EXCEPT ![r] = @ + 1]
  BY <1>4
<1>7. Shapes'
  BY <1>1, <1>5 DEF Shapes
<1>8. NoHole'
  BY <1>5 DEF NoHole
<1>9. IndexMeansUnique'
  BY <1>2, <1>3, <1>5, <1>6 DEF IndexMeansUnique
<1>10. BootProgress' /\ BootInsidePass' /\ PassHoldsDriver' /\ TicketIsLatest'
  BY <1>1, <1>5 DEF BootProgress, BootInsidePass, PassHoldsDriver, TicketIsLatest, Running, Idle
<1>11. ReadyIsUsable'
  BY <1>1, <1>5 DEF ReadyIsUsable, Prepared, Running
<1> QED
  BY <1>1, <1>7, <1>8, <1>9, <1>10, <1>11

LEMMA DieIInv ==
  ASSUME IInv, Die
  PROVE  IInv'
<1> USE DEF IInv
<1>1. /\ known' \in Version /\ boot' = Off /\ handle' = [h \in Handle |-> "free"]
      /\ current' = NoHandle /\ latest' = 0 /\ pending' = NoEvent /\ pass' = Idle
      /\ armed' = FALSE /\ screen' = "loading" /\ UNCHANGED <<file, faults>>
  BY DEF Die
<1>2. boot' \in Boot /\ boot'.step = "off"
  BY <1>1, BootValues DEF Off
<1>3. Shapes'
  BY <1>1, <1>2 DEF Shapes
<1>4. NoHole' /\ IndexMeansUnique'
  BY <1>1 DEF NoHole, IndexMeansUnique
<1>5. BootProgress' /\ BootInsidePass' /\ PassHoldsDriver' /\ TicketIsLatest' /\ ReadyIsUsable'
  BY <1>1, <1>2 DEF BootProgress, BootInsidePass, PassHoldsDriver, TicketIsLatest, ReadyIsUsable,
                    Running, Idle
<1> QED
  BY <1>3, <1>4, <1>5

LEMMA NextIInv == IInv /\ [Next]_vars => IInv'
<1> SUFFICES ASSUME IInv, [Next]_vars PROVE IInv'
  OBVIOUS
<1>1. CASE \E event \in Event : Run(event) \/ RunSkipped(event)
  BY <1>1, RunIInv, RunSkippedIInv
<1>2. CASE PassStep
  BY <1>2, CallIInv, InitializeStepIInv, InitializeDoneIInv DEF PassStep
<1>3. CASE SetArmed \/ \E h \in Handle : Invalidate(h)
  BY <1>3, DisturbIInv
<1>4. CASE \E r \in Roll : Save(r)
  BY <1>4, SaveIInv
<1>5. CASE Die
  BY <1>5, DieIInv
<1>6. CASE UNCHANGED vars
  BY <1>6 DEF vars, IInv, Shapes, NoHole, IndexMeansUnique, BootProgress, BootInsidePass,
              PassHoldsDriver, TicketIsLatest, ReadyIsUsable, Running, Prepared
<1> QED
  BY <1>1, <1>2, <1>3, <1>4, <1>5, <1>6 DEF Next

\* What a step that writes the file finds there and leaves there.
LEMMA FileStep ==
  ASSUME IInv, Next, file' # file
  PROVE  /\ file.applied \subseteq 1..known
         /\ file.applied \subseteq file'.applied
         /\ file.device # NoDevice => file'.device = file.device
         /\ \A r \in Roll : file.active[r] <= file'.active[r]
<1> USE DEF IInv
<1>1. file \in File /\ known \in Version
  BY DEF Shapes
<1>2. (\E r \in Roll : Save(r)) \/ InitializeStep
  <2>1. \A event \in Event : ~Run(event) /\ ~RunSkipped(event)
    BY DEF Run, RunSkipped
  <2>2. ~(DetachOld \/ OpenSame \/ Probe \/ Recover \/ OpenFresh \/ ProbeNew \/ InitializeDone \/ Abandon)
    BY DEF DetachOld, OpenSame, Probe, Recover, OpenFresh, ProbeNew, InitializeDone, Abandon, Database
  <2>3. ~SetArmed /\ ~Die /\ \A h \in Handle : ~Invalidate(h)
    BY DEF SetArmed, Die, Invalidate, Database
  <2> QED
    BY <2>1, <2>2, <2>3 DEF Next, PassStep
<1>3. ASSUME NEW r \in Roll, Save(r)
      PROVE  /\ file.applied \subseteq 1..known
             /\ file'.applied = file.applied /\ file'.device = file.device
             /\ \A q \in Roll : file.active[q] <= file'.active[q]
  <2>1. Prepared
    BY <1>3, SaveIInv
  <2>2. file' = [applied |-> file.applied, device |-> file.device,
                 active |-> [file.active EXCEPT ![r] = @ + 1]]
    BY <1>1, <1>3 DEF Save, SavePinState, File
  <2>3. file.active \in [Roll -> 0..2]
    BY <1>1 DEF File
  <2> QED
    BY <2>1, <2>2, <2>3 DEF Prepared
<1>4. ASSUME NEW o, Migrate(o)
      PROVE  /\ file.applied \subseteq 1..known
             /\ file.applied \subseteq file'.applied /\ file'.device = file.device
             /\ file'.active = file.active
  <2>1. boot.step = "migrate" /\ \E v : file' = [file EXCEPT !.applied = @ \cup {v}]
    BY <1>4 DEF Migrate
  <2>2. PICK v : file' = [applied |-> file.applied \cup {v}, device |-> file.device, active |-> file.active]
    BY <1>1, <2>1 DEF File
  <2> QED
    BY <2>1, <2>2 DEF BootProgress
<1>5. ASSUME NEW o, LoadIdentity(o)
      PROVE  /\ file.applied \subseteq 1..known
             /\ file'.applied = file.applied /\ file.device = NoDevice
             /\ file'.active = file.active
  <2>1. boot.step = "identity" /\ file.device = NoDevice /\ \E id : file' = [file EXCEPT !.device = id]
    BY <1>5 DEF LoadIdentity
  <2>2. PICK id : file' = [applied |-> file.applied, device |-> id, active |-> file.active]
    BY <1>1, <2>1 DEF File
  <2> QED
    BY <2>1, <2>2 DEF BootProgress
<1>6. \A o : ~Pragmas(o) /\ ~ReadVersions(o) /\ ~PrepareInsert(o) /\ ~Restore(o)
  BY DEF Pragmas, ReadVersions, PrepareInsert, Restore
<1>7. InitializeStep => \E o : Migrate(o) \/ LoadIdentity(o)
  BY <1>6 DEF InitializeStep, Initialize
<1>8. \A r \in Roll : file.active[r] <= file.active[r]
  BY <1>1 DEF File
<1> QED
  BY <1>2, <1>3, <1>4, <1>5, <1>7, <1>8

(******************************** theorems *********************************)

\* Every reachable state satisfies the invariant.
THEOREM Invariance == Spec => []IInv
BY InitIInv, NextIInv, PTL DEF Spec

\* The state of the controller, of the pass and of the file has its shape, and
\* a pass that is about to use or to close a connection holds one that is not
\* closed.
THEOREM TypeCorrect == Spec => []TypeOK
<1>1. IInv => TypeOK
  <2> SUFFICES ASSUME IInv PROVE TypeOK
    OBVIOUS
  <2>1. boot.step \in {"off", "pragmas", "read", "prepare", "migrate", "identity", "restore", "ok",
                       "failed"} /\ boot.status \in Failures \cup {"none"}
    BY DEF IInv, Shapes, Boot
  <2>2. Running => pass.driver \in Handle \cup {NoHandle}
    BY DEF IInv, Shapes, Pass, Running
  <2> QED
    BY <2>1, <2>2 DEF IInv, Shapes, File, TypeOK, PassHoldsDriver, TicketIsLatest
<1> QED
  BY <1>1, Invariance, PTL

\* The precheck of the migrations and the index keep each other's promise:
\* wherever the unique index stands, no roll has two active PinStates.
THEOREM UniqueWhereIndexed == Spec => []IndexMeansUnique
<1>1. IInv => IndexMeansUnique
  BY DEF IInv
<1> QED
  BY <1>1, Invariance, PTL

\* Whatever was superseded, refused or reopened, a ready screen stands on a
\* connection to a file this build has prepared, and any other on none.
THEOREM ScreenTellsTheTruth == Spec => []ReadyIsUsable
<1>1. IInv => ReadyIsUsable
  BY DEF IInv
<1> QED
  BY <1>1, Invariance, PTL

\* A pass never opens a connection over one it failed to close.
THEOREM OneConnectionPerPass == Spec => NoSecondConnection
<1>1. ASSUME IInv, [Next]_vars, NEW h \in Handle, handle[h] = "free", handle'[h] = "open"
      PROVE  pass.driver = NoHandle \/ handle[pass.driver] = "free"
  <2>1. handle \in [Handle -> {"free", "open", "dead"}]
    BY <1>1 DEF IInv, Shapes
  <2>2. \A g, o : Close(g, o) => handle'[h] = "free" \/ handle'[h] = handle[h]
    BY <2>1 DEF Close
  <2>3. ~DetachOld /\ ~Recover /\ ~Abandon
    BY <1>1, <2>2 DEF DetachOld, Recover, Abandon
  <2>4. ~Probe /\ ~ProbeNew /\ ~InitializeStep /\ ~InitializeDone
    BY <1>1 DEF Probe, ProbeNew, InitializeStep, InitializeDone
  <2>5. \A event \in Event : ~Run(event) /\ ~RunSkipped(event)
    BY <1>1 DEF Run, RunSkipped
  <2>6. ~SetArmed /\ ~Die /\ \A r \in Roll : ~Save(r)
    BY <1>1 DEF SetArmed, Die, Save
  <2>7. \A g \in Handle : ~Invalidate(g)
    BY <1>1, <2>1 DEF Invalidate
  <2>8. OpenSame \/ OpenFresh
    BY <1>1, <2>3, <2>4, <2>5, <2>6, <2>7 DEF Next, PassStep, vars
  <2>9. pass.at = "open" \/ pass.at = "reopen"
    BY <2>8 DEF OpenSame, OpenFresh
  <2>10. Running
    BY <2>9 DEF Running, Idle
  <2> QED
    BY <1>1, <2>9, <2>10 DEF IInv, PassHoldsDriver
<1>2. IInv /\ [Next]_vars =>
        [\A h \in Handle : handle[h] = "free" /\ handle'[h] = "open" =>
           pass.driver = NoHandle \/ handle[pass.driver] = "free"]_vars
  BY <1>1
<1> QED
  BY <1>2, Invariance, PTL DEF Spec, NoSecondConnection

\* No failure, death or change of build takes anything durable back: applied
\* versions stay, without a hole, and so do the identity and the PinStates.
THEOREM DurableKept == Spec => NothingTakenBack
<1>1. ASSUME IInv, IInv', Next, file' # file
      PROVE  /\ file.applied \subseteq file'.applied
             /\ file'.applied = 1..Cardinality(file'.applied)
             /\ file.device # NoDevice => file'.device = file.device
             /\ \A r \in Roll : file.active[r] <= file'.active[r]
  <2>1. PICK n \in 0..MaxVersion : file'.applied = 1..n
    BY <1>1 DEF IInv, NoHole
  <2>2. Cardinality(1..n) = n
    BY FS_Interval
  <2> QED
    BY <1>1, <2>1, <2>2, FileStep
<1>2. IInv /\ IInv' /\ [Next]_vars =>
        [ /\ file.applied \subseteq file'.applied
          /\ file'.applied = 1..Cardinality(file'.applied)
          /\ file.device # NoDevice => file'.device = file.device
          /\ \A r \in Roll : file.active[r] <= file'.active[r] ]_file
  BY <1>1 DEF vars
<1> QED
  BY <1>2, Invariance, PTL DEF Spec, NothingTakenBack

\* A build never writes a file that a newer build has migrated, neither while
\* it starts nor while the application saves.
THEOREM OlderBuildKeepsOff == Spec => NewerFileUntouched
<1>1. ASSUME IInv, Next, file' # file
      PROVE  SchemaVersion(file) <= known
  <2>1. PICK n \in 0..MaxVersion : file.applied = 1..n
    BY <1>1 DEF IInv, NoHole
  <2>2. SchemaVersion(file) = n
    BY <2>1, SchemaVersionOfPrefix
  <2>3. file.applied \subseteq 1..known /\ known \in 1..MaxVersion
    BY <1>1, FileStep DEF IInv, Shapes, Version
  <2>4. n = 0 \/ n \in 1..known
    BY <2>1, <2>3
  <2> QED
    BY <2>2, <2>3, <2>4, StartupAssumption
<1>2. IInv /\ [Next]_vars => [SchemaVersion(file) <= known]_file
  BY <1>1 DEF vars
<1> QED
  BY <1>2, Invariance, PTL DEF Spec, NewerFileUntouched

=============================================================================

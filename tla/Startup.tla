------------------------------ MODULE Startup -------------------------------
(***************************************************************************)
(* The database file of a device and initializeApplication                 *)
(* (src/persistence/startup.ts): pragmas, the migrations this build knows, *)
(* the device identity, and what is read back.  A step is one statement or *)
(* one committed transaction; the process may die between any two.         *)
(*                                                                         *)
(* A step that uses the connection has an outcome: "ok", "native" (an      *)
(* error isRecoverableNativeSqliteFailure knows, the handle is dead) or    *)
(* "other".  The connection itself belongs to Lifecycle.                   *)
(*                                                                         *)
(* A definition named X_Fault is X with a plausible bug; it is used by no  *)
(* specification and records what the properties are able to detect.       *)
(***************************************************************************)
EXTENDS Integers, FiniteSets

CONSTANTS
  MaxVersion,    \* the newest schema version any build knows
  IndexVersion,  \* the version that adds ux_pinstate_active_roll (the code's 3)
  DeviceId,      \* identities createDeviceIdentity may draw
  NoDevice,      \* no device_identity row yet
  Roll           \* rolls that PinStates point at

ASSUME StartupAssumption ==
  MaxVersion \in Nat \ {0} /\ IndexVersion \in 1..MaxVersion /\ NoDevice \notin DeviceId

VARIABLES
  file,   \* the durable file: [applied, device, active]
  known,  \* CURRENT_SCHEMA_VERSION of the running build
  boot    \* initializeApplication: [step, status, native]

Version == 1..MaxVersion
Step(name) == [step |-> name, status |-> "none", native |-> FALSE]
Off == Step("off")
Failed(status, o) == [step |-> "failed", status |-> status, native |-> o = "native"]
Failures == {"DATABASE_OPEN_FAILED", "DATABASE_MIGRATION_FAILED", "UNSUPPORTED_SCHEMA"}

\* readSchemaVersion
SchemaVersion(f) == Cardinality({v \in Version : \E w \in f.applied : v <= w})

\* An empty file, or the file an older build left: before IndexVersion a pull
\* could give a roll two active PinStates.
StartupInit ==
  /\ file \in [applied: {1..n : n \in 0..(IndexVersion - 1)}, device: DeviceId \cup {NoDevice},
               active: [Roll -> 0..2]]
  /\ file.applied = {} => file.device = NoDevice /\ \A r \in Roll : file.active[r] = 0
  /\ known \in Version
  /\ boot = Off

\* initializePragmas
Pragmas(o) ==
  /\ boot.step = "pragmas"
  /\ boot' = IF o = "ok" THEN Step("read") ELSE Failed("DATABASE_OPEN_FAILED", o)
  /\ UNCHANGED <<file, known>>

\* readAppliedVersions and the refusal of a file from a newer build.
ReadVersions_Fault(o) ==
  /\ boot.step = "read"
  /\ boot' = IF o # "ok" THEN Failed("DATABASE_MIGRATION_FAILED", o) ELSE Step("prepare")
  /\ UNCHANGED <<file, known>>

ReadVersions(o) ==
  /\ boot.step = "read"
  /\ boot' = IF o # "ok" THEN Failed("DATABASE_MIGRATION_FAILED", o)
             ELSE IF SchemaVersion(file) > known THEN Failed("UNSUPPORTED_SCHEMA", o)
             ELSE Step("prepare")
  /\ UNCHANGED <<file, known>>

\* The INSERT that records versions is prepared outside of any try, so that
\* its failure is one of opening, which a recovery pass may repair.
PrepareInsert(o) ==
  /\ boot.step = "prepare"
  /\ boot' = IF o = "ok" THEN Step("migrate") ELSE Failed("DATABASE_OPEN_FAILED", o)
  /\ UNCHANGED <<file, known>>

\* assertActivePinStatesIndexable, before the index is created.
PrecheckPasses_Fault(v) == v = IndexVersion => \A r \in Roll : file.active[r] <= 2
PrecheckPasses(v) == v = IndexVersion => \A r \in Roll : file.active[r] <= 1

\* One round of applyMigrations: the next version in a transaction of its
\* own, or the end of the list.  A failure leaves what was applied before.
MissingVersions_Fault == IF file.applied = {} THEN {} ELSE (1..known) \ file.applied
MissingVersions == (1..known) \ file.applied

Migrate(o) ==
  /\ boot.step = "migrate"
  /\ IF MissingVersions = {}
     THEN boot' = Step("identity") /\ UNCHANGED file
     ELSE LET v == CHOOSE v \in MissingVersions : \A w \in MissingVersions : v <= w
          IN  IF o = "ok" /\ PrecheckPasses(v)
              THEN file' = [file EXCEPT !.applied = @ \cup {v}] /\ UNCHANGED boot
              ELSE boot' = Failed("DATABASE_MIGRATION_FAILED", o) /\ UNCHANGED file
  /\ UNCHANGED known

\* deviceStore.getOrCreate
LoadIdentity_Fault(o) ==
  /\ boot.step = "identity"
  /\ IF o = "ok"
     THEN /\ boot' = Step("restore")
          /\ \E id \in DeviceId : file' = [file EXCEPT !.device = id]
     ELSE boot' = Failed("DATABASE_OPEN_FAILED", o) /\ UNCHANGED file
  /\ UNCHANGED known

LoadIdentity(o) ==
  /\ boot.step = "identity"
  /\ IF o = "ok"
     THEN /\ boot' = Step("restore")
          /\ IF file.device # NoDevice THEN UNCHANGED file
             ELSE \E id \in DeviceId : file' = [file EXCEPT !.device = id]
     ELSE boot' = Failed("DATABASE_OPEN_FAILED", o) /\ UNCHANGED file
  /\ UNCHANGED known

\* The outbox, the checkpoints and the session are read; nothing is written.
Restore(o) ==
  /\ boot.step = "restore"
  /\ boot' = IF o = "ok" THEN Step("ok") ELSE Failed("DATABASE_OPEN_FAILED", o)
  /\ UNCHANGED <<file, known>>

Initialize(o) ==
  Pragmas(o) \/ ReadVersions(o) \/ PrepareInsert(o) \/ Migrate(o) \/ LoadIdentity(o) \/ Restore(o)

\* The running application saves a PinState of a roll; where the unique index
\* exists a second active one is refused.
SavePinState(r) ==
  /\ file.active[r] < IF IndexVersion \in file.applied THEN 1 ELSE 2
  /\ file' = [file EXCEPT !.active[r] = @ + 1]
  /\ UNCHANGED <<known, boot>>

(******************************* properties ********************************)

\* What a start needs to have done for the screen to be ready: every version
\* this build knows and no other, in order, and a device identity.
Prepared == file.applied = 1..known /\ file.device \in DeviceId

\* The unique index never stands over data that breaks it: where its version
\* is recorded as applied, a roll has at most one active PinState.
IndexMeansUnique ==
  IndexVersion \in file.applied => \A r \in Roll : file.active[r] <= 1

\* Whatever fails or dies, and whichever build comes next, nothing durable is
\* taken back: versions stay applied without a hole, the device keeps its
\* identity, and no PinState disappears.
NothingTakenBack ==
  [][ /\ file.applied \subseteq file'.applied
      /\ file'.applied = 1..Cardinality(file'.applied)
      /\ file.device # NoDevice => file'.device = file.device
      /\ \A r \in Roll : file.active[r] <= file'.active[r] ]_file

\* A file that a newer build has migrated is not written by an older one.
NewerFileUntouched == [][SchemaVersion(file) <= known]_file

=============================================================================

----------------------------- MODULE Lifecycle ------------------------------
(***************************************************************************)
(* The owner of the one SQLite connection of the app                       *)
(* (src/persistence/lifecycle.ts, sqliteHandle.ts) and the screen of       *)
(* apps/mobile/App.tsx that it feeds.  An event of the operating system    *)
(* starts a recovery pass; an event raised by a callback of the opener     *)
(* during a pass is kept and served after it, the last one only.  A step   *)
(* is one call of the native library.                                      *)
(***************************************************************************)
EXTENDS Startup

CONSTANTS
  NoHandle,   \* null
  NoEvent,    \* null
  MaxHandles, \* bound: connections that exist at once
  MaxFaults,  \* bound: native failures
  MaxEvents,  \* bound: events of one process
  MaxStarts   \* bound: starts of the process

ASSUME LifecycleAssumption ==
  /\ MaxHandles \in Nat /\ MaxFaults \in Nat /\ MaxEvents \in Nat /\ MaxStarts \in Nat
  /\ NoHandle \notin 1..MaxHandles
  /\ NoEvent \notin {"launch", "foreground", "lock_resume", "process_restart"}

VARIABLES
  handle,   \* connection -> "free", "open" or "dead" (its native object is gone)
  current,  \* the controller's driver
  latest,   \* the gate's last ticket: the number of events of this process
  pending,  \* the event kept for later
  pass,     \* the recovery pass under way
  armed,    \* the one-shot fault of the Advanced screen
  screen,   \* "loading", "ready" or "failed"
  faults,   \* native failures so far
  starts    \* starts of the process so far

vars == <<file, known, boot, handle, current, latest, pending, pass, armed, screen, faults, starts>>

Handle == 1..MaxHandles
Event == {"launch", "foreground", "lock_resume", "process_restart"}
FreshOpen(event) == event \in {"launch", "process_restart"}  \* requiresFreshOpen
Idle == [at |-> "idle"]
Running == pass # Idle

Init ==
  /\ StartupInit
  /\ handle = [h \in Handle |-> "free"]
  /\ current = NoHandle
  /\ latest = 0 /\ pending = NoEvent /\ pass = Idle
  /\ armed = FALSE /\ screen = "loading"
  /\ faults = 0 /\ starts = 1

(****************************** native calls *******************************)

\* What a statement on a connection can end with.
Outcome(h) ==
  IF handle[h] # "open" THEN {"native"}
  ELSE {"ok"} \cup (IF faults < MaxFaults THEN {"other"} ELSE {})

\* closeSqliteDriver and canProceedAfterCloseFailure: closing a dead handle
\* throws an error that lets the pass go on; any other error does not, and
\* the connection stays open.
CloseOutcome(h) ==
  {"proceed"} \cup (IF h # NoHandle /\ handle[h] = "open" /\ faults < MaxFaults
                    THEN {"refused"} ELSE {})

Close(h, o) ==
  /\ handle' = IF h = NoHandle \/ o = "refused" THEN handle ELSE [handle EXCEPT ![h] = "free"]
  /\ faults' = IF o = "refused" THEN faults + 1 ELSE faults

\* Open the file again; h is NoHandle when the opener throws.
Open(h) ==
  \/ /\ h \in Handle /\ handle[h] = "free" /\ \A i \in 1..(h - 1) : handle[i] # "free"
     /\ handle' = [handle EXCEPT ![h] = "open"]
     /\ UNCHANGED faults
  \/ /\ h = NoHandle /\ faults < MaxFaults
     /\ faults' = faults + 1
     /\ UNCHANGED handle

(****************************** the controller *****************************)

\* createSqliteLifecycleController.run and createLifecycleInitGate.  latest
\* has just become ticket.
Begin_Fault(event, ticket, driver) ==
  pass' = [at |-> IF FreshOpen(event) THEN "close" ELSE "probe",
           event |-> event, ticket |-> ticket, driver |-> driver,
           reopened |-> FALSE, initialized |-> FALSE]

Begin(event, ticket, driver) ==
  pass' = [at |-> IF FreshOpen(event) THEN "close" ELSE IF driver = NoHandle THEN "open" ELSE "probe",
           event |-> event, ticket |-> ticket, driver |-> driver,
           reopened |-> FALSE, initialized |-> FALSE]

\* runOne after the pass, and the rest of the loop: a kept event is served
\* next; else run returns and runInit shows the last result, if published.
Finish_Fault(ok) ==
  /\ current' = IF ok THEN pass.driver ELSE NoHandle
  /\ pass' = Idle /\ pending' = NoEvent
  /\ screen' = IF pass.ticket = latest THEN IF ok THEN "ready" ELSE "failed" ELSE screen
  /\ UNCHANGED latest

Finish(ok) ==
  /\ current' = IF ok THEN pass.driver ELSE NoHandle
  /\ IF pending = NoEvent
     THEN /\ pass' = Idle
          /\ screen' = IF pass.ticket = latest THEN IF ok THEN "ready" ELSE "failed" ELSE screen
          /\ UNCHANGED <<latest, pending>>
     ELSE /\ latest' = latest + 1
          /\ Begin(pending, latest + 1, current')
          /\ pending' = NoEvent
          /\ UNCHANGED screen

GoTo(at) == pass' = [pass EXCEPT !.at = at]
Stay == UNCHANGED <<current, latest, pending, screen>>

\* runInit(event) of App.tsx, to the point where the pass starts.  The first
\* event of a process is its launch, when the effect of the component runs.
Raise(event) ==
  /\ event = "launch" <=> latest = 0
  /\ latest < MaxEvents
  /\ latest' = latest + 1
  /\ screen' = IF FreshOpen(event) THEN "loading" ELSE screen

Run(event) ==
  /\ ~Running
  /\ Cardinality({h \in Handle : handle[h] = "free"}) >= 2  \* bound
  /\ Raise(event)
  /\ Begin(event, latest + 1, current)
  /\ UNCHANGED <<file, known, boot, handle, current, pending, armed, faults, starts>>

\* The same while the opener runs: the event is skipped and kept.
RunSkipped(event) ==
  /\ Running /\ pass.at \in {"open", "reopen"}
  /\ Raise(event)
  /\ pending' = event
  /\ UNCHANGED <<file, known, boot, handle, current, pass, armed, faults, starts>>

(******************** runLifecycleRecoveryPass, by calls *******************)

Database == <<file, known>>

\* Launch and restart drop the old connection first.
DetachOld ==
  /\ pass.at = "close"
  /\ \E o \in CloseOutcome(current) :
       /\ Close(current, o)
       /\ IF o = "proceed" THEN GoTo("open") /\ Stay ELSE Finish(FALSE)
  /\ UNCHANGED <<Database, boot, armed, starts>>

\* initializeForEvent begins; an armed diagnostic fault strikes at its first
\* pragma, once.
Enter ==
  LET injected == armed /\ ~FreshOpen(pass.event) /\ ~pass.initialized
  IN  /\ boot' = IF injected THEN Failed("DATABASE_OPEN_FAILED", "native") ELSE Step("pragmas")
      /\ armed' = (armed /\ ~injected)

OpenSame ==
  /\ pass.at = "open"
  /\ \E h \in Handle \cup {NoHandle} :
       /\ Open(h)
       /\ IF h = NoHandle THEN Finish(FALSE)
          ELSE /\ pass' = [pass EXCEPT !.at = IF FreshOpen(pass.event) THEN "init" ELSE "probeNew",
                                       !.driver = h]
               /\ Stay
       /\ IF h # NoHandle /\ FreshOpen(pass.event) THEN Enter ELSE UNCHANGED <<boot, armed>>
  /\ UNCHANGED <<Database, starts>>

\* A connection that was live before is asked for SELECT 1.
Probe ==
  /\ pass.at = "probe"
  /\ \E o \in Outcome(pass.driver) :
       /\ faults' = IF o = "other" THEN faults + 1 ELSE faults
       /\ GoTo(IF o = "ok" THEN "init" ELSE IF o = "native" THEN "recover" ELSE "abandon")
       /\ IF o = "ok" THEN Enter ELSE UNCHANGED <<boot, armed>>
  /\ Stay
  /\ UNCHANGED <<Database, handle, starts>>

\* The one native reopen of the pass: close, then open a fresh connection.
Recover_Fault ==
  /\ pass.at = "recover"
  /\ \E o \in CloseOutcome(pass.driver) : Close(pass.driver, o)
  /\ pass' = [pass EXCEPT !.at = "reopen", !.reopened = TRUE]
  /\ Stay
  /\ UNCHANGED <<Database, boot, armed, starts>>

Recover ==
  /\ pass.at = "recover"
  /\ \E o \in CloseOutcome(pass.driver) :
       /\ Close(pass.driver, o)
       /\ IF o = "proceed"
          THEN pass' = [pass EXCEPT !.at = "reopen", !.reopened = TRUE] /\ Stay
          ELSE Finish(FALSE)
  /\ UNCHANGED <<Database, boot, armed, starts>>

OpenFresh ==
  /\ pass.at = "reopen"
  /\ \E h \in Handle \cup {NoHandle} :
       /\ Open(h)
       /\ IF h = NoHandle THEN Finish(FALSE)
          ELSE pass' = [pass EXCEPT !.at = "probeNew", !.driver = h] /\ Stay
  /\ UNCHANGED <<Database, boot, armed, starts>>

ProbeNew ==
  /\ pass.at = "probeNew"
  /\ \E o \in Outcome(pass.driver) :
       /\ faults' = IF o = "other" THEN faults + 1 ELSE faults
       /\ GoTo(IF o = "ok" THEN "init" ELSE "abandon")
       /\ IF o = "ok" THEN Enter ELSE UNCHANGED <<boot, armed>>
  /\ Stay
  /\ UNCHANGED <<Database, handle, starts>>

InitializeStep ==
  /\ pass.at = "init"
  /\ \E o \in Outcome(pass.driver) :
       /\ Initialize(o)
       /\ faults' = IF o = "other" THEN faults + 1 ELSE faults
  /\ Stay
  /\ UNCHANGED <<handle, pass, armed, starts>>

\* What follows initialization.  A launch or restart that fails here leaves
\* its connection open and drops it.
InitializeDone ==
  /\ pass.at = "init" /\ boot.step \in {"ok", "failed"}
  /\ boot' = Off
  /\ IF boot.step = "ok" \/ FreshOpen(pass.event)
     THEN Finish(boot.step = "ok")
     ELSE /\ pass' = [pass EXCEPT !.initialized = TRUE,
                        !.at = IF /\ boot.status = "DATABASE_OPEN_FAILED"
                                  /\ boot.native /\ ~pass.reopened
                               THEN "recover" ELSE "abandon"]
          /\ Stay
  /\ UNCHANGED <<Database, handle, armed, faults, starts>>

Abandon ==
  /\ pass.at = "abandon"
  /\ \E o \in CloseOutcome(pass.driver) : Close(pass.driver, o)
  /\ Finish(FALSE)
  /\ UNCHANGED <<Database, boot, armed, starts>>

PassStep ==
  \/ DetachOld \/ OpenSame \/ Probe \/ Recover \/ OpenFresh \/ ProbeNew
  \/ InitializeStep \/ InitializeDone \/ Abandon

(******************************* around it *********************************)

\* The operating system takes the native object of a connection away.
Invalidate(h) ==
  /\ handle[h] = "open" /\ h \in {current} \cup (IF Running THEN {pass.driver} ELSE {})
  /\ faults < MaxFaults
  /\ faults' = faults + 1
  /\ handle' = [handle EXCEPT ![h] = "dead"]
  /\ UNCHANGED <<Database, boot, current, latest, pending, pass, armed, screen, starts>>

\* armPostProbeFaultOnce and disarmPostProbeFault, from the Advanced screen.
SetArmed ==
  /\ ~Running /\ faults < MaxFaults
  /\ armed' = ~armed
  /\ faults' = IF armed THEN faults ELSE faults + 1
  /\ UNCHANGED <<Database, boot, handle, current, latest, pending, pass, screen, starts>>

\* The panel writes through the driver it was given.
Save(r) ==
  /\ ~Running /\ screen = "ready"
  /\ current # NoHandle /\ handle[current] = "open"
  /\ SavePinState(r)
  /\ UNCHANGED <<handle, current, latest, pending, pass, armed, screen, faults, starts>>

\* The process dies; the next one may be of another build.
Die ==
  /\ starts < MaxStarts
  /\ starts' = starts + 1
  /\ known' \in Version
  /\ boot' = Off
  /\ handle' = [h \in Handle |-> "free"]
  /\ current' = NoHandle /\ latest' = 0 /\ pending' = NoEvent /\ pass' = Idle
  /\ armed' = FALSE /\ screen' = "loading"
  /\ UNCHANGED <<file, faults>>

Next ==
  \/ \E event \in Event : Run(event) \/ RunSkipped(event)
  \/ PassStep
  \/ \E h \in Handle : Invalidate(h)
  \/ SetArmed
  \/ \E r \in Roll : Save(r)
  \/ Die

\* A pass is synchronous code: once begun it goes on to its end.  A process
\* that has started runs its launch effect.
Spec == Init /\ [][Next]_vars /\ WF_vars(PassStep) /\ WF_vars(Run("launch"))

(******************************* properties ********************************)

\* The shape of the controller's and the file's state.
TypeOK ==
  /\ file \in [applied: SUBSET Version, device: DeviceId \cup {NoDevice}, active: [Roll -> 0..2]]
  /\ known \in Version
  /\ boot.step \in {"off", "pragmas", "read", "prepare", "migrate", "identity", "restore", "ok", "failed"}
  /\ boot.status \in Failures \cup {"none"}
  /\ handle \in [Handle -> {"free", "open", "dead"}]
  /\ current \in Handle \cup {NoHandle}
  /\ pending \in (Event \ {"launch"}) \cup {NoEvent}
  /\ Running => pass.ticket \in 1..latest /\ pass.driver \in Handle \cup {NoHandle}
  /\ Running /\ pass.at \in {"probe", "recover", "probeNew", "init", "abandon"} =>
       pass.driver # NoHandle /\ handle[pass.driver] # "free"

\* What the screen tells is what the controller holds: whenever no pass runs,
\* a ready screen stands on a connection that was not closed, to a file that
\* this build has prepared; any other screen stands on none, whatever was
\* superseded, refused or reopened on the way.
ReadyIsUsable ==
  ~Running => /\ screen = "ready" <=> current # NoHandle
              /\ screen = "ready" => handle[current] # "free" /\ Prepared
              /\ latest > 0 => screen # "loading"

\* A pass opens a connection only when the one it was using is closed: after
\* a close that failed for another reason than a dead handle there is no
\* second connection in that pass.
NoSecondConnection ==
  [][\A h \in Handle : handle[h] = "free" /\ handle'[h] = "open" =>
       pass.driver = NoHandle \/ handle[pass.driver] = "free"]_vars

\* No event sequence leaves the user before the loading screen: the last
\* event of every burst is served and its result shown.
EventuallyShown == (screen = "loading") ~> (screen # "loading")

=============================================================================

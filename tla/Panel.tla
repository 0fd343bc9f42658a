------------------------------- MODULE Panel --------------------------------
(***************************************************************************)
(* The scoring panel of the app (apps/mobile/src/scoringPanel.tsx) over    *)
(* ScoringSession: which game it shows, which ball a tap writes, what it   *)
(* tells the bowler.  A handler is synchronous code: nothing but the death *)
(* of the process comes between its write and the reading after it, but    *)
(* either may fail, and a failed reading keeps what was shown before.  The *)
(* app starts no sync, so only the panel writes here.                      *)
(***************************************************************************)
EXTENDS ScoringSession

CONSTANTS
  MaxRows,   \* bound: games and balls together
  MaxFixes,  \* bound: corrections
  MaxFaults, \* bound: failed readings, failed writes and restarts together
  MaxTotal   \* bound: games, balls and faults together

ASSUME PanelAssumption ==
  MaxRows \in Nat /\ MaxFixes \in Nat /\ MaxFaults \in Nat /\ MaxTotal \in Nat

VARIABLES
  view,      \* what is shown: [game, rolls, next], game 0 for none
  listed,    \* the games of the history list
  selected,  \* selectedGameId, 0 for null
  asked,     \* the game the bowler last opened or started, 0 for none
  home,      \* homeOpen
  target,    \* 0: the next ball; Null: choosing a ball to fix; else its roll id
  ready,     \* sessionReady
  due,       \* the reload effect has to run
  ui,        \* the handler between its write and its reading
  reported,  \* game -> pinfalls the bowler was told are saved
  unread,    \* balls recorded without a word to the bowler
  faults     \* failed readings and writes so far

shown == <<view, listed, selected, asked, home, target, ready>>
told == <<reported, unread>>
pvars == <<vars, shown, due, ui, told, faults>>

NoView == [game |-> 0, rolls |-> {}, next |-> NoSlot]
Waiting == [at |-> "idle"]

Quiet == ui = Waiting /\ busy = Idle /\ ~due    \* the bowler can tap

RowCount == Cardinality(rolls) + Cardinality({g \in Game : games[g] # "none"})
MoreFaults == faults < MaxFaults /\ RowCount + faults < MaxTotal
MoreRows == RowCount < MaxRows /\ RowCount + faults < MaxTotal

\* What a reading may end with; "list" and "load" name the call that throws.
Reading == {"ok"} \cup (IF MoreFaults THEN {"list", "load"} ELSE {})
Count(o) == faults' = IF o = "ok" THEN faults ELSE faults + 1

(******************************* reading ***********************************)

Live == {g \in Game : games[g] = "live"}

\* loadScoringView: no game stands for the latest one, a game that is not
\* there is not replaced by another.
Load_Fault(g) ==
  LET h == IF g \in Live \/ Live = {} THEN g ELSE CHOOSE h \in Live : \A i \in Live : i <= h
  IN  IF h \notin Live THEN NoView
      ELSE [game |-> h, rolls |-> Views(h), next |-> NextLegalSlot(Facts(h))]

Load(g) ==
  LET h == IF g # 0 \/ Live = {} THEN g ELSE CHOOSE h \in Live : \A i \in Live : i <= h
  IN  IF h \notin Live THEN [NoView EXCEPT !.game = h]
      ELSE [game |-> h, rolls |-> Views(h), next |-> NextLegalSlot(Facts(h))]

\* The two calls at the end of most handlers: the game, then the list.
Show(g, o) ==
  /\ view' = IF o = "load" THEN view ELSE Load(g)
  /\ listed' = IF o = "ok" THEN Live ELSE listed
  /\ Count(o)

\* The reload effect depends on the selection and on home, among others.
Depends == due' = (selected' # selected \/ home' # home)

PInit ==
  /\ Init
  /\ view = NoView /\ listed = {} /\ selected = 0 /\ asked = 0
  /\ home = TRUE /\ target = 0 /\ ready = FALSE
  /\ due = TRUE /\ ui = Waiting
  /\ reported = [g \in Game |-> <<>>] /\ unread = 0
  /\ faults = 0

\* The effect: the list, then the selected game unless home is shown.  Its
\* first success only readies an empty panel.
Effect(o) ==
  /\ due /\ ui = Waiting
  /\ o = "load" => ready /\ ~home
  /\ listed' = IF o = "list" THEN listed ELSE Live
  /\ IF o = "list" THEN UNCHANGED <<view, selected, home, ready>>
     ELSE IF ~ready
     THEN view' = NoView /\ selected' = 0 /\ home' = TRUE /\ ready' = TRUE
     ELSE /\ view' = IF home \/ o = "load" THEN view ELSE Load(selected)
          /\ UNCHANGED <<selected, home, ready>>
  /\ due' = (o # "list" /\ ~ready)
  /\ Count(o)
  /\ UNCHANGED <<vars, asked, target, ui, told>>

\* A recovery pass publishes a driver again (App.tsx).
Republish ==
  /\ Quiet
  /\ due' = TRUE
  /\ UNCHANGED <<vars, shown, ui, told, faults>>

(****************************** moving around ******************************)

\* onOpenGame
OpenGame(g, o) ==
  /\ Quiet /\ g \in listed
  /\ selected' = g /\ asked' = g /\ home' = FALSE /\ target' = 0
  /\ Show(g, o)
  /\ UNCHANGED <<vars, ready, ui, told>>
  /\ Depends

\* onGoHome
GoHome(o) ==
  /\ Quiet
  /\ home' = TRUE /\ target' = 0
  /\ listed' = IF o = "ok" THEN Live ELSE listed
  /\ Count(o)
  /\ UNCHANGED <<vars, view, selected, asked, ready, ui, told>>
  /\ Depends

\* onResumeGame
ResumeGame ==
  /\ Quiet /\ (view.game # 0 \/ selected # 0)
  /\ home' = FALSE /\ target' = 0
  /\ UNCHANGED <<vars, view, listed, selected, asked, ready, ui, told, faults>>
  /\ Depends

\* onSaveGame of a finished game writes nothing.
Finished == Status(view.rolls) = "COMPLETED"

SaveGame(o) ==
  /\ Quiet /\ ~home /\ Finished
  /\ Show(view.game, o)
  /\ UNCHANGED <<vars, selected, asked, home, target, ready, due, ui, told>>

(************************* new and discarded games *************************)

\* startFreshGame, up to its first transaction.
NewGame(g) ==
  /\ Quiet
  /\ StartGame(g)
  /\ ui' = [at |-> "start", game |-> g]
  /\ UNCHANGED <<shown, due, told, faults>>

CreateFrame ==
  /\ StartFrame
  /\ UNCHANGED <<shown, due, ui, told, faults>>

\* The rest of startFreshGame, with refresh.
AfterStart(o) ==
  /\ ui.at = "start" /\ busy = Idle
  /\ selected' = ui.game /\ asked' = ui.game
  /\ home' = FALSE /\ target' = 0 /\ ready' = TRUE
  /\ view' = IF o = "ok" THEN Load(ui.game) ELSE view
  /\ listed' = IF o = "list" THEN listed ELSE Live
  /\ Count(o)
  /\ ui' = Waiting
  /\ UNCHANGED <<vars, told>>
  /\ due' = (~ready \/ selected' # selected \/ home' # home)

\* onConfirmDiscard
DiscardTap(g) ==
  /\ Quiet /\ g \in listed
  /\ Discard(g)
  /\ ui' = [at |-> "discard", game |-> g]
  /\ UNCHANGED <<shown, due, told, faults>>

AfterDiscard(o) ==
  /\ ui.at = "discard"
  /\ IF selected = ui.game
     THEN selected' = 0 /\ asked' = 0 /\ view' = NoView /\ home' = TRUE
     ELSE UNCHANGED <<selected, asked, view, home>>
  /\ listed' = IF o = "ok" THEN Live ELSE listed
  /\ Count(o)
  /\ ui' = Waiting
  /\ UNCHANGED <<vars, target, ready, told>>
  /\ Depends

(******************************* the pad ***********************************)

Target == CHOOSE v \in view.rolls : v.id = target

ActiveSlot ==
  IF target = 0 THEN view.next
  ELSE IF \E v \in view.rolls : v.id = target
       THEN [frame |-> Target.frame, roll |-> Target.roll] ELSE NoSlot

\* The pad that enters or corrects a ball, and the pins it offers.
PadShown == ~home /\ ActiveSlot # NoSlot /\ ~Finished
OfferedRack == CaptureRack(view.rolls, ActiveSlot.frame, ActiveSlot.roll)

\* onEnterFixMode
EnterFix ==
  /\ Quiet /\ ~home /\ target = 0 /\ view.rolls # {} /\ ~Finished
  /\ target' = Null
  /\ UNCHANGED <<vars, view, listed, selected, asked, home, ready, due, ui, told, faults>>

\* onFrameTap opens the first ball of a frame (defaultFixRollId); in fix mode
\* any ball can be picked from the chooser, or another ball of the frame.
PickBall(v) ==
  /\ Quiet /\ ~home
  /\ \/ target = Null
     \/ \A w \in InFrame(view.rolls, v.frame) : v.roll <= w.roll
     \/ PadShown /\ target \in {w.id : w \in InFrame(view.rolls, v.frame)}
  /\ target' = v.id
  /\ UNCHANGED <<vars, view, listed, selected, asked, home, ready, due, ui, told, faults>>

\* onCancelFix; opening the history and tapping the empty frame to come also
\* leave fix mode.
CancelFix ==
  /\ Quiet /\ ~home /\ target # 0
  /\ target' = 0
  /\ UNCHANGED <<vars, view, listed, selected, asked, home, ready, due, ui, told, faults>>

\* The game a save goes to.
GameShown_Fault == selected
GameShown == view.game

\* recordRoll, called by saveDelivery and by onSaveCountOnly: the panel
\* checks the ball on its view, the store on its own next slot.  frameIdFor
\* throws for a frame that is missing, and nothing is read then.
Record(pins, standing) ==
  LET g == GameShown
      slot == NextLegalSlot(Facts(g))
      recorded == RecordRoll(g, slot, pins, standing)
  IN  /\ view.next # NoSlot
      /\ RollLegal(view.rolls, view.next, pins)
      /\ \/ /\ recorded
            /\ ui' = [at |-> "record", game |-> g, ok |-> TRUE, pins |-> pins]
            /\ unread' = unread + 1
            /\ UNCHANGED faults
         \/ /\ Accepts(g, slot, pins, standing) => MoreFaults
            /\ faults' = IF Accepts(g, slot, pins, standing) THEN faults + 1 ELSE faults
            /\ UNCHANGED <<vars, unread>>
            /\ ui' = IF slot # NoSlot /\ slot.frame \notin frames[g]
                     THEN Waiting
                     ELSE [at |-> "record", game |-> g, ok |-> FALSE, pins |-> pins]
      /\ UNCHANGED <<shown, due, reported>>

\* The strike, gutter and spare buttons, and the confirmed standing pins.
BallTap(standing) ==
  /\ Quiet /\ PadShown /\ target = 0
  /\ OfferedRack # NoSet /\ standing \subseteq OfferedRack
  /\ Record(Cardinality(OfferedRack) - Cardinality(standing), standing)

\* Where the rack is unknown the pins are counted.  This pad records the next
\* ball also while a ball is being corrected.
CountTap(pins) ==
  /\ Quiet /\ PadShown
  /\ OfferedRack = NoSet
  /\ Record(pins, NoSet)

\* The ball is reported only when it was recorded and everything was read.
AfterRecord_Fault(o) ==
  /\ ui.at = "record"
  /\ Show(ui.game, o)
  /\ IF o = "ok"
     THEN /\ reported' = [reported EXCEPT ![ui.game] = Append(@, ui.pins)]
          /\ unread' = IF ui.ok THEN unread - 1 ELSE unread
     ELSE UNCHANGED told
  /\ ui' = Waiting
  /\ UNCHANGED <<vars, selected, asked, home, target, ready, due>>

AfterRecord(o) ==
  /\ ui.at = "record"
  /\ Show(ui.game, o)
  /\ IF o = "ok" /\ ui.ok
     THEN /\ reported' = [reported EXCEPT ![ui.game] = Append(@, ui.pins)]
          /\ unread' = unread - 1
     ELSE UNCHANGED told
  /\ ui' = Waiting
  /\ UNCHANGED <<vars, selected, asked, home, target, ready, due>>

\* saveDelivery in fix mode.  A standing that does not fit is refused by the
\* second transaction of correctRollWithStanding, after the first.
FixTap(standing) ==
  /\ Quiet /\ PadShown /\ target > 0
  /\ OfferedRack # NoSet /\ standing \subseteq OfferedRack
  /\ LET x == CHOOSE y \in rolls : y.id = target
         pins == Cardinality(OfferedRack) - Cardinality(standing)
         fits == Fits(Facts(x.game), x.frame, x.roll, pins, standing)
     IN  \/ /\ IF fits THEN CorrectRollWithStanding(x, pins, standing)
                       ELSE CorrectRoll(x, pins, Idle)
            /\ ui' = [at |-> "fix", game |-> view.game, ok |-> fits]
            /\ UNCHANGED faults
         \/ /\ MoreFaults
            /\ faults' = faults + 1
            /\ ui' = [at |-> "fix", game |-> view.game, ok |-> FALSE]
            /\ UNCHANGED vars
  /\ UNCHANGED <<shown, due, told>>

FixStanding ==
  /\ SaveStanding
  /\ UNCHANGED <<shown, due, ui, told, faults>>

AfterFix(o) ==
  /\ ui.at = "fix" /\ busy = Idle
  /\ Show(ui.game, o)
  /\ target' = IF o = "ok" /\ ui.ok THEN 0 ELSE target
  /\ ui' = Waiting
  /\ UNCHANGED <<vars, selected, asked, home, ready, due, told>>

(******************************* failures **********************************)

\* A transaction in the middle of a handler fails: startGame throws, the
\* correction returns an error.
WriteFails ==
  /\ MoreFaults
  /\ Interrupt
  /\ ui' = IF ui.at = "fix" THEN [ui EXCEPT !.ok = FALSE] ELSE Waiting
  /\ faults' = faults + 1
  /\ UNCHANGED <<shown, due, told>>

\* The process dies, or the Advanced screen simulates it: a new panel.
Restart ==
  /\ MoreFaults
  /\ faults' = faults + 1
  /\ busy' = Idle
  /\ view' = NoView /\ listed' = {} /\ selected' = 0 /\ asked' = 0
  /\ home' = TRUE /\ target' = 0 /\ ready' = FALSE
  /\ due' = TRUE /\ ui' = Waiting
  /\ UNCHANGED <<store, told>>

MoreFixes == Cardinality({c \in corrections : c.key[1] = "Roll"}) < MaxFixes

PNext ==
  \/ \E o \in Reading :
       \/ Effect(o) \/ SaveGame(o)
       \/ \E g \in Game : OpenGame(g, o)
       \/ o # "load" /\ (GoHome(o) \/ AfterDiscard(o))
       \/ AfterStart(o) \/ AfterRecord(o) \/ AfterFix(o)
  \/ Republish \/ ResumeGame
  \/ \E g \in Game : (MoreRows /\ NewGame(g)) \/ DiscardTap(g)
  \/ CreateFrame
  \/ EnterFix \/ CancelFix
  \/ \E v \in view.rolls : PickBall(v)
  \/ MoreRows /\ \E standing \in SUBSET Rack : BallTap(standing)
  \/ MoreRows /\ \E pins \in 0..Pins : CountTap(pins)
  \/ MoreFixes /\ \E standing \in SUBSET Rack : FixTap(standing)
  \/ FixStanding \/ WriteFails \/ Restart

PSpec == PInit /\ [][PNext]_pvars

(******************************* properties ********************************)

\* The pad promises only what the store keeps: while it is up to date, just
\* one of the strike and spare buttons is enabled for the next ball and it
\* and the gutter button are accepted; a count that is offered is accepted;
\* and any standing offered for a correction fits.
ControlsAreHonest ==
  LET g == view.game
      slot == ActiveSlot
      rack == OfferedRack
      size == Cardinality(rack)
      b1 == Ball(view.rolls, FrameCount, 1)
      b2 == Ball(view.rolls, FrameCount, 2)
  IN  /\ PadShown /\ view = Load(g) /\ Started(g) /\ ui = Waiting
      /\ ~AfterInvalid(g, slot.frame, slot.roll)
      => IF target # 0
         THEN rack # NoSet => \A standing \in SUBSET rack :
                Fits(Facts(g), slot.frame, slot.roll, size - Cardinality(standing), standing)
         ELSE IF rack = NoSet
         THEN \E pins \in 0..Pins : Accepts(g, slot, pins, NoSet)
         ELSE /\ StrikeControl(size, slot, b1, b2) # SpareControl(size, slot, b1, b2)
              /\ Accepts(g, slot, size, {}) /\ Accepts(g, slot, 0, rack)

\* The panel never turns to a game the bowler did not open or start, whatever
\* was discarded, failed to load or was reloaded after a recovery
\* (scoringPanel.tsx:245, session.ts:690).
NoSilentSwitch ==
  [][ /\ view'.game # view.game => view'.game \in {0, asked'}
      /\ selected' # selected => selected' \in {0, asked'} ]_pvars

\* A tap writes what it shows: a new or changed ball belongs to the game on
\* the screen; with a ball picked for correction and its rack known, only that
\* ball changes; otherwise no recorded ball changes.
TapsWriteWhatTheyShow ==
  [][ \A x \in rolls' \ rolls :
        /\ x.game = view.game
        /\ IF target > 0 /\ OfferedRack # NoSet
           THEN x.id = target ELSE \A y \in rolls : y.id # x.id ]_pvars

\* The bowler is told the truth: the balls reported as saved are, in order,
\* the balls of the game, unless one was recorded and the word of it lost or
\* one was corrected; and none is reported that was not recorded.
ReportsAreTrue ==
  /\ \A g \in Game :
       (unread = 0 /\ corrections = {}) => FlattenSeq(Lines(Facts(g))) = reported[g]
  /\ LET count(g) == Len(reported[g])
     IN  Cardinality(rolls) = Sum(Game, count) + unread

=============================================================================

---------------------------- MODULE PanelProofs -----------------------------
(***************************************************************************)
(* Proofs about the scoring panel, for every number of games, frames and   *)
(* pins and every bound on what the bowler does and on what fails.         *)
(***************************************************************************)
EXTENDS Panel, ScoringSessionProofs

(************************** the inductive invariant ************************)

\* The app starts no sync, so every ball was recorded here.
AllOwn == \A x \in rolls : x.own

BallsOf(R, g, f) == {x \in R : x.game = g /\ x.frame = f}

\* The balls of a frame are numbered without a gap, whatever was corrected.
InOrder(R) ==
  \A g \in Game, f \in Frames :
    /\ {x.roll : x \in BallsOf(R, g, f)} = 1..Cardinality(BallsOf(R, g, f))
    /\ Cardinality(BallsOf(R, g, f)) <= 3

\* What is shown are balls of the game that is shown.
Known(v, R) ==
  /\ v.game \in {0} \cup Game
  /\ v.game = 0 => v.rolls = {} /\ v.next = NoSlot
  /\ \A w \in v.rolls :
       /\ w.standing \in (SUBSET Rack) \cup {NoSet}
       /\ \E x \in R : x.id = w.id /\ x.game = v.game

\* Without a selected game no game is shown, and home is.
Navigation ==
  /\ listed \subseteq Game
  /\ selected \in {0, asked} /\ asked \in {0} \cup Game
  /\ selected = 0 => view.game = 0 /\ home

\* What the handler between its write and its reading remembers.
Handler ==
  /\ ui \in {Waiting} \cup [at: {"start", "discard"}, game: Game]
            \cup [at: {"record"}, game: Game, ok: BOOLEAN, pins: 0..Pins]
            \cup [at: {"fix"}, game: Game, ok: BOOLEAN]
  /\ ui.at \in {"record", "fix"} => ui.game = view.game

PIInv ==
  /\ IInv
  /\ AllOwn
  /\ InOrder(rolls)
  /\ Known(view, rolls)
  /\ Navigation
  /\ Handler

(****************************** what is shown ******************************)

LEMMA GamesAreNumbers ==
  ASSUME NEW g \in Game
  PROVE  g \in Nat /\ g # 0
BY SessionAssumption DEF Game

LEMMA LoadKnown ==
  ASSUME IInv, NEW g \in Game
  PROVE  Known(Load(g), rolls) /\ Load(g).game = g
<1>1. g # 0
  BY GamesAreNumbers
<1>2. CASE g \notin Live
  <2>1. Load(g) = [NoView EXCEPT !.game = g]
    BY <1>1, <1>2 DEF Load
  <2>2. Load(g).game = g /\ Load(g).rolls = {} /\ Load(g).next = NoSlot
    BY <2>1 DEF NoView
  <2> QED
    BY <2>2 DEF Known
<1>3. CASE g \in Live
  <2>1. Load(g) = [game |-> g, rolls |-> Views(g), next |-> NextLegalSlot(Facts(g))]
    BY <1>1, <1>3 DEF Load
  <2>2. Load(g).game = g /\ Load(g).rolls = Views(g)
    BY <2>1
  <2>3. ASSUME NEW w \in Views(g)
        PROVE  /\ w.standing \in (SUBSET Rack) \cup {NoSet}
               /\ \E x \in rolls : x.id = w.id /\ x.game = g
    <3>1. PICK x \in Facts(g) :
            /\ w.id = x.id
            /\ w.standing = IF ActiveDetails(x) = {} THEN NoSet ELSE Detail(x).standing
      BY DEF Views
    <3>2. x \in rolls /\ x.game = g
      BY DEF Facts
    <3>3. ActiveDetails(x) # {} => Detail(x).standing \in SUBSET Rack
      BY <3>2, StatusMeans
    <3> QED
      BY <3>1, <3>2, <3>3
  <2> QED
    BY <1>1, <2>2, <2>3 DEF Known
<1> QED
  BY <1>2, <1>3

\* A handler that only reads.
LEMMA StoreStays ==
  ASSUME PIInv, UNCHANGED vars
  PROVE  IInv' /\ AllOwn' /\ InOrder(rolls') /\ rolls' = rolls
<1>1. IInv'
  BY StutterStep DEF PIInv
<1>2. rolls' = rolls
  BY DEF vars
<1> QED
  BY <1>1, <1>2 DEF PIInv, AllOwn

LEMMA ShowStep ==
  ASSUME PIInv, UNCHANGED vars, NEW g \in Game, NEW o, Show(g, o)
  PROVE  /\ Known(view', rolls') /\ view'.game \in {view.game, g}
         /\ listed' \subseteq Game
<1>1. view' = view \/ view' = Load(g)
  BY DEF Show
<1>2. Known(view, rolls) /\ Known(Load(g), rolls) /\ Load(g).game = g
  BY LoadKnown DEF PIInv
<1>3. rolls' = rolls
  BY DEF vars
<1>4. listed' \subseteq Game
  BY DEF Show, Live, PIInv, Navigation
<1> QED
  BY <1>1, <1>2, <1>3, <1>4

\* What a step may do to the game on the screen.
Switch ==
  /\ view'.game # view.game => view'.game \in {0, asked'}
  /\ selected' # selected => selected' \in {0, asked'}

(***************************** handlers that read **************************)

LEMMA HandlerRests ==
  ASSUME ui' = Waiting
  PROVE  Handler'
BY DEF Handler, Waiting

LEMMA EffectStep ==
  ASSUME PIInv, NEW o, Effect(o)
  PROVE  PIInv' /\ Switch
<1>1. /\ ui = Waiting /\ UNCHANGED <<vars, asked, ui>>
  BY DEF Effect
<1>2. IInv' /\ AllOwn' /\ InOrder(rolls') /\ rolls' = rolls
  BY <1>1, StoreStays
<1>3. listed' \subseteq Game
  BY DEF Effect, Live, PIInv, Navigation
<1>4. Handler'
  BY <1>1, HandlerRests
<1>5. CASE o = "list"
  <2>1. UNCHANGED <<view, selected, home>>
    BY <1>5 DEF Effect
  <2> QED
    BY <1>1, <1>2, <1>3, <1>4, <2>1 DEF PIInv, Navigation, Switch
<1>6. CASE o # "list" /\ ~ready
  <2>1. view' = NoView /\ selected' = 0 /\ home' = TRUE
    BY <1>6 DEF Effect
  <2>2. Known(view', rolls') /\ view'.game = 0
    BY <2>1 DEF Known, NoView
  <2> QED
    BY <1>1, <1>2, <1>3, <1>4, <2>1, <2>2 DEF PIInv, Navigation, Switch
<1>7. CASE o # "list" /\ ready
  <2>1. /\ view' = IF home \/ o = "load" THEN view ELSE Load(selected)
        /\ UNCHANGED <<selected, home>>
    BY <1>7 DEF Effect
  <2>2. CASE home \/ o = "load"
    <3>1. view' = view
      BY <2>1, <2>2
    <3> QED
      BY <1>1, <1>2, <1>3, <1>4, <2>1, <3>1 DEF PIInv, Navigation, Switch
  <2>3. CASE ~home /\ o # "load"
    <3>1. view' = Load(selected)
      BY <2>1, <2>3
    <3>2. selected \in Game /\ selected = asked
      BY <2>3 DEF PIInv, Navigation
    <3>3. Known(view', rolls') /\ view'.game = selected /\ selected # 0
      BY <1>2, <3>1, <3>2, LoadKnown, GamesAreNumbers DEF PIInv
    <3> QED
      BY <1>1, <1>2, <1>3, <1>4, <2>1, <3>2, <3>3 DEF PIInv, Navigation, Switch
  <2> QED
    BY <2>2, <2>3
<1> QED
  BY <1>5, <1>6, <1>7

LEMMA OpenGameStep ==
  ASSUME PIInv, NEW g \in Game, NEW o, OpenGame(g, o)
  PROVE  PIInv' /\ Switch
<1>1. /\ ui = Waiting /\ UNCHANGED <<vars, ui>> /\ Show(g, o)
      /\ selected' = g /\ asked' = g /\ home' = FALSE
  BY DEF OpenGame, Quiet
<1>2. IInv' /\ AllOwn' /\ InOrder(rolls') /\ rolls' = rolls
  BY <1>1, StoreStays
<1>3. /\ Known(view', rolls') /\ view'.game \in {view.game, g}
      /\ listed' \subseteq Game
  BY <1>1, ShowStep
<1>4. Handler'
  BY <1>1, HandlerRests
<1>5. g # 0
  BY GamesAreNumbers
<1> QED
  BY <1>1, <1>2, <1>3, <1>4, <1>5 DEF PIInv, Navigation, Switch

LEMMA GoHomeStep ==
  ASSUME PIInv, NEW o, GoHome(o)
  PROVE  PIInv' /\ Switch
<1>1. /\ ui = Waiting /\ UNCHANGED <<vars, view, selected, asked, ui>> /\ home' = TRUE
  BY DEF GoHome, Quiet
<1>2. IInv' /\ AllOwn' /\ InOrder(rolls') /\ rolls' = rolls
  BY <1>1, StoreStays
<1>3. listed' \subseteq Game
  BY DEF GoHome, Live, PIInv, Navigation
<1>4. Handler'
  BY <1>1, HandlerRests
<1> QED
  BY <1>1, <1>2, <1>3, <1>4 DEF PIInv, Navigation, Switch

\* A handler that turns to no game.
LEMMA NoTurn ==
  ASSUME PIInv, UNCHANGED <<vars, view, listed, selected, asked, ui>>,
         home' = home \/ selected # 0
  PROVE  PIInv' /\ Switch
<1>1. IInv' /\ AllOwn' /\ InOrder(rolls') /\ rolls' = rolls
  BY StoreStays
<1>2. Handler' /\ Known(view', rolls')
  BY <1>1 DEF PIInv, Handler
<1>3. Navigation'
  BY DEF PIInv, Navigation
<1> QED
  BY <1>1, <1>2, <1>3 DEF PIInv, Switch

LEMMA ResumeGameStep ==
  ASSUME PIInv, ResumeGame
  PROVE  PIInv' /\ Switch
<1>1. UNCHANGED <<vars, view, listed, selected, asked, ui>>
  BY DEF ResumeGame
<1>2. selected # 0
  BY DEF ResumeGame, PIInv, Navigation
<1> QED
  BY <1>1, <1>2, NoTurn

\* A game without balls is not finished.
LEMMA FinishedIsShown ==
  ASSUME PIInv, Finished
  PROVE  view.game \in Game
<1>1. Status({}) = "NOT_STARTED"
  BY DEF Status, StatusOf
<1> QED
  BY <1>1 DEF Finished, PIInv, Known

LEMMA SaveGameStep ==
  ASSUME PIInv, NEW o, SaveGame(o)
  PROVE  PIInv' /\ Switch
<1>1. /\ Finished /\ UNCHANGED <<vars, selected, asked, home, ui>> /\ Show(view.game, o)
  BY DEF SaveGame
<1>2. view.game \in Game
  BY <1>1, FinishedIsShown
<1>3. IInv' /\ AllOwn' /\ InOrder(rolls') /\ rolls' = rolls
  BY <1>1, StoreStays
<1>4. /\ Known(view', rolls') /\ view'.game = view.game
      /\ listed' \subseteq Game
  BY <1>1, <1>2, ShowStep
<1>5. Handler'
  BY <1>1, <1>4 DEF PIInv, Handler
<1> QED
  BY <1>1, <1>3, <1>4, <1>5 DEF PIInv, Navigation, Switch

(**************************** handlers that write **************************)

\* A transaction that changes no ball.
LEMMA BallsStay ==
  ASSUME PIInv, IInv', rolls' = rolls, UNCHANGED <<view, listed, selected, asked, home>>,
         Handler'
  PROVE  PIInv' /\ Switch
<1>1. AllOwn' /\ InOrder(rolls') /\ Known(view', rolls')
  BY DEF PIInv, AllOwn
<1>2. Navigation'
  BY DEF PIInv, Navigation
<1> QED
  BY <1>1, <1>2 DEF PIInv, Switch

LEMMA NewGameStep ==
  ASSUME PIInv, NEW g \in Game, NewGame(g)
  PROVE  PIInv' /\ Switch
<1>1. /\ StartGame(g) /\ ui' = [at |-> "start", game |-> g]
      /\ UNCHANGED <<view, listed, selected, asked, home>>
  BY DEF NewGame, shown
<1>2. IInv' /\ rolls' = rolls
  BY <1>1, StartGameStep DEF PIInv, StartGame
<1>3. Handler'
  BY <1>1 DEF Handler
<1> QED
  BY <1>1, <1>2, <1>3, BallsStay

LEMMA DiscardTapStep ==
  ASSUME PIInv, NEW g \in Game, DiscardTap(g)
  PROVE  PIInv' /\ Switch
<1>1. /\ Discard(g) /\ ui' = [at |-> "discard", game |-> g]
      /\ UNCHANGED <<view, listed, selected, asked, home>>
  BY DEF DiscardTap, shown
<1>2. IInv' /\ rolls' = rolls
  BY <1>1, DiscardStep DEF PIInv, Discard
<1>3. Handler'
  BY <1>1 DEF Handler
<1> QED
  BY <1>1, <1>2, <1>3, BallsStay

LEMMA CreateFrameStep ==
  ASSUME PIInv, CreateFrame
  PROVE  PIInv' /\ Switch
<1>1. /\ StartFrame /\ UNCHANGED ui
      /\ UNCHANGED <<view, listed, selected, asked, home>>
  BY DEF CreateFrame, shown
<1>2. IInv' /\ rolls' = rolls
  BY <1>1, StartFrameStep DEF PIInv, StartFrame
<1>3. Handler'
  BY <1>1 DEF PIInv, Handler
<1> QED
  BY <1>1, <1>2, <1>3, BallsStay

LEMMA FixStandingStep ==
  ASSUME PIInv, FixStanding
  PROVE  PIInv' /\ Switch
<1>1. /\ SaveStanding /\ UNCHANGED ui
      /\ UNCHANGED <<view, listed, selected, asked, home>>
  BY DEF FixStanding, shown
<1>2. IInv' /\ rolls' = rolls
  BY <1>1, SaveStandingStep DEF PIInv, SaveStanding, AddPinDetail, CorrectPinDetail
<1>3. Handler'
  BY <1>1 DEF PIInv, Handler
<1> QED
  BY <1>1, <1>2, <1>3, BallsStay

LEMMA WriteFailsStep ==
  ASSUME PIInv, WriteFails
  PROVE  PIInv' /\ Switch
<1>1. /\ busy' = Idle /\ UNCHANGED store
      /\ ui' = IF ui.at = "fix" THEN [ui EXCEPT !.ok = FALSE] ELSE Waiting
      /\ UNCHANGED <<view, listed, selected, asked, home>>
  BY DEF WriteFails, Interrupt, shown
<1>2. IInv' /\ rolls' = rolls
  BY <1>1, InterruptedStep DEF PIInv, store
<1>3. Handler'
  <2>1. CASE ui.at = "fix"
    <3>1. ui \in [at: {"fix"}, game: Game, ok: BOOLEAN] /\ ui.game = view.game
      BY <2>1 DEF PIInv, Handler, Waiting
    <3>2. /\ ui' \in [at: {"fix"}, game: Game, ok: BOOLEAN] /\ ui'.game = view.game
      BY <1>1, <2>1, <3>1
    <3> QED
      BY <1>1, <3>2 DEF Handler
  <2>2. CASE ui.at # "fix"
    BY <1>1, <2>2, HandlerRests
  <2> QED
    BY <2>1, <2>2
<1> QED
  BY <1>1, <1>2, <1>3, BallsStay

LEMMA RestartStep ==
  ASSUME PIInv, Restart
  PROVE  PIInv' /\ Switch
<1>1. /\ busy' = Idle /\ UNCHANGED store /\ ui' = Waiting
      /\ view' = NoView /\ listed' = {} /\ selected' = 0 /\ asked' = 0 /\ home' = TRUE
  BY DEF Restart
<1>2. IInv' /\ rolls' = rolls
  BY <1>1, InterruptedStep DEF PIInv, store
<1>3. Handler'
  BY <1>1, HandlerRests
<1>4. AllOwn' /\ InOrder(rolls')
  BY <1>2 DEF PIInv, AllOwn
<1>5. Known(view', rolls') /\ view'.game = 0
  BY <1>1 DEF Known, NoView
<1> QED
  BY <1>1, <1>2, <1>3, <1>4, <1>5 DEF PIInv, Navigation, Switch

LEMMA AfterStartStep ==
  ASSUME PIInv, NEW o, AfterStart(o)
  PROVE  PIInv' /\ Switch
<1> DEFINE g == ui.game
<1>1. /\ ui.at = "start" /\ selected' = g /\ asked' = g /\ home' = FALSE
      /\ view' = IF o = "ok" THEN Load(g) ELSE view
      /\ ui' = Waiting /\ UNCHANGED vars
  BY DEF AfterStart
<1>2. g \in Game /\ g # 0
  BY <1>1, GamesAreNumbers DEF PIInv, Handler, Waiting
<1>3. IInv' /\ AllOwn' /\ InOrder(rolls') /\ rolls' = rolls
  BY <1>1, StoreStays
<1>4. listed' \subseteq Game
  BY DEF AfterStart, Live, PIInv, Navigation
<1>5. Handler'
  BY <1>1, HandlerRests
<1>6. Known(view', rolls') /\ view'.game \in {view.game, g}
  BY <1>1, <1>2, <1>3, LoadKnown DEF PIInv
<1> QED
  BY <1>1, <1>2, <1>3, <1>4, <1>5, <1>6 DEF PIInv, Navigation, Switch

LEMMA AfterDiscardStep ==
  ASSUME PIInv, NEW o, AfterDiscard(o)
  PROVE  PIInv' /\ Switch
<1>1. ui' = Waiting /\ UNCHANGED vars
  BY DEF AfterDiscard
<1>2. IInv' /\ AllOwn' /\ InOrder(rolls') /\ rolls' = rolls
  BY <1>1, StoreStays
<1>3. listed' \subseteq Game
  BY DEF AfterDiscard, Live, PIInv, Navigation
<1>4. Handler'
  BY <1>1, HandlerRests
<1>5. CASE selected = ui.game
  <2>1. selected' = 0 /\ asked' = 0 /\ view' = NoView /\ home' = TRUE
    BY <1>5 DEF AfterDiscard
  <2>2. Known(view', rolls') /\ view'.game = 0
    BY <2>1 DEF Known, NoView
  <2> QED
    BY <1>1, <1>2, <1>3, <1>4, <2>1, <2>2 DEF PIInv, Navigation, Switch
<1>6. CASE selected # ui.game
  <2>1. UNCHANGED <<selected, asked, view, home>>
    BY <1>6 DEF AfterDiscard
  <2> QED
    BY <1>1, <1>2, <1>3, <1>4, <2>1 DEF PIInv, Navigation, Switch
<1> QED
  BY <1>5, <1>6

\* A handler reads the game it wrote to, which is the one on the screen.
LEMMA AfterWriteStep ==
  ASSUME PIInv, NEW o, ui.at \in {"record", "fix"}, Show(ui.game, o), ui' = Waiting,
         UNCHANGED <<vars, selected, asked, home>>
  PROVE  PIInv' /\ Switch
<1>1. ui.game = view.game /\ ui.game \in Game
  BY DEF PIInv, Handler, Waiting
<1>2. IInv' /\ AllOwn' /\ InOrder(rolls') /\ rolls' = rolls
  BY StoreStays
<1>3. /\ Known(view', rolls') /\ view'.game = view.game
      /\ listed' \subseteq Game
  BY <1>1, ShowStep
<1>4. Handler'
  BY HandlerRests
<1> QED
  BY <1>2, <1>3, <1>4 DEF PIInv, Navigation, Switch

(******************************* balls in order ****************************)

LEMMA BallsOfFrame ==
  ASSUME IInv, AllOwn, NEW g \in Game, NEW f \in Frames
  PROVE  /\ InFrame(Facts(g), f) = BallsOf(rolls, g, f)
         /\ IsFiniteSet(BallsOf(rolls, g, f))
         /\ Cardinality(BallsOf(rolls, g, f)) \in Nat
<1>1. \A x \in rolls : x.frame \in frames[x.game]
  BY DEF IInv, OwnBallsLive, AllOwn
<1>2. InFrame(Facts(g), f) = BallsOf(rolls, g, f)
  BY <1>1 DEF InFrame, Facts, BallsOf
<1>3. IsFiniteSet(rolls) /\ BallsOf(rolls, g, f) \subseteq rolls
  BY DEF IInv, BooksKept, Books, Numbered, BallsOf
<1>4. IsFiniteSet(BallsOf(rolls, g, f))
  BY <1>3, FS_Subset
<1> QED
  BY <1>2, <1>4, FS_CardinalityType

\* A recorded ball comes next in its frame.
LEMMA RecordedInOrder ==
  ASSUME PIInv, NEW g \in Game, NEW slot, NEW pins, NEW standing,
         RecordRoll(g, slot, pins, standing)
  PROVE  /\ AllOwn' /\ InOrder(rolls')
         /\ \E x : /\ rolls' = rolls \cup {x} /\ x.game = g
                   /\ \A y \in rolls : y.id # x.id
<1> DEFINE m == Cardinality(rolls)
           x == [id |-> m + 1, game |-> g, frame |-> slot.frame,
                 roll |-> slot.roll, pins |-> pins, version |-> 1, own |-> TRUE]
           f == slot.frame
           S == BallsOf(rolls, g, f)
           n == Cardinality(S)
<1>1. rolls' = rolls \cup {x} /\ RollLegal(Facts(g), slot, pins)
  BY DEF RecordRoll, Accepts
<1>2. x.id = m + 1 /\ x.game = g /\ x.frame = f /\ x.roll = slot.roll /\ x.own
  OBVIOUS
<1>3. f \in Frames
  BY <1>1 DEF RollLegal
<1>4. m \in Nat /\ \A y \in rolls : y.id \in 1..m
  BY FS_CardinalityType DEF PIInv, IInv, BooksKept, Books, Numbered
<1> HIDE DEF x, m
<1>5. \A y \in rolls : y.id # x.id
  BY <1>2, <1>4
<1>6. AllOwn'
  BY <1>1, <1>2 DEF AllOwn, PIInv
<1>7. /\ InFrame(Facts(g), f) = S /\ IsFiniteSet(S) /\ n \in Nat
      /\ {y.roll : y \in S} = 1..n
  BY <1>3, BallsOfFrame DEF PIInv, InOrder
<1>8. slot.roll = n + 1 /\ n + 1 <= 3
  <2> DEFINE T == {y.roll : y \in S}
             last == CHOOSE r \in T : \A s \in T : s <= r
             expected == IF T = {} THEN 1 ELSE 1 + last
  <2>1. slot.roll = expected /\ expected <= 3
    BY <1>1, <1>7 DEF RollLegal
  <2>2. CASE n = 0
    <3>1. T = 1..0
      BY <1>7, <2>2
    <3>2. T = {}
      BY ONLY <3>1
    <3>3. slot.roll = 1 /\ 1 <= 3
      BY <2>1, <3>2
    <3> QED
      BY <2>2, <3>3
  <2>3. CASE n # 0
    <3>1. n \in T /\ \A s \in T : s <= n
      BY <1>7, <2>3
    <3>2. \A r \in T : (\A s \in T : s <= r) => r = n
      BY <1>7, <3>1
    <3> HIDE DEF T
    <3>3. last = n
      BY <3>1, <3>2
    <3>4. T # {}
      BY <3>1
    <3> HIDE DEF last
    <3>5. expected = 1 + n
      BY <3>3, <3>4
    <3> HIDE DEF expected
    <3> QED
      BY <1>7, <2>1, <3>5
  <2> QED
    BY <2>2, <2>3
<1>9. BallsOf(rolls', g, f) = S \cup {x}
  BY <1>1, <1>2 DEF BallsOf
<1>10. x \notin S
  BY <1>5 DEF BallsOf
<1> HIDE DEF S
<1>11. Cardinality(S \cup {x}) = n + 1
  BY <1>7, <1>10, FS_AddElement
<1>12. {y.roll : y \in S \cup {x}} = 1..(n + 1)
  <2>1. \A k : k \in {y.roll : y \in S \cup {x}} <=> k \in {y.roll : y \in S} \/ k = n + 1
    BY <1>2, <1>8
  <2>2. \A k : k \in 1..(n + 1) <=> k \in 1..n \/ k = n + 1
    BY <1>7
  <2> QED
    BY <1>7, <2>1, <2>2
<1>13. ASSUME NEW h \in Game, NEW e \in Frames
       PROVE  /\ {y.roll : y \in BallsOf(rolls', h, e)} = 1..Cardinality(BallsOf(rolls', h, e))
              /\ Cardinality(BallsOf(rolls', h, e)) <= 3
  <2>1. CASE h = g /\ e = f
    BY <1>8, <1>9, <1>11, <1>12, <2>1
  <2>2. CASE ~(h = g /\ e = f)
    <3>1. BallsOf(rolls', h, e) = BallsOf(rolls, h, e)
      BY <1>1, <1>2, <2>2 DEF BallsOf
    <3> QED
      BY <3>1 DEF PIInv, InOrder
  <2> QED
    BY <2>1, <2>2
<1>14. InOrder(rolls')
  BY <1>13 DEF InOrder
<1> QED
  BY <1>1, <1>2, <1>5, <1>6, <1>14

\* A corrected ball keeps its place.
LEMMA CorrectedInOrder ==
  ASSUME PIInv, NEW x \in rolls, NEW pins \in 0..Pins, NEW then, CorrectRoll(x, pins, then)
  PROVE  /\ AllOwn' /\ InOrder(rolls')
         /\ \E r : /\ rolls' = (rolls \ {x}) \cup {r} /\ r.id = x.id /\ r.game = x.game
<1> DEFINE r == RollWith(x, pins)
<1>1. rolls' = (rolls \ {x}) \cup {r}
  BY DEF CorrectRoll, RollWith
<1>2. x \in RollRow
  BY DEF PIInv, IInv, BooksKept, Books
<1>3. /\ r.id = x.id /\ r.game = x.game /\ r.frame = x.frame /\ r.roll = x.roll
      /\ r.own = x.own
  BY <1>2, CorrectedRollIs
<1> HIDE DEF r
<1>4. AllOwn'
  BY <1>1, <1>3 DEF AllOwn, PIInv
<1>5. r \notin rolls \ {x}
  BY <1>3 DEF PIInv, IInv, BooksKept, Books, Numbered
<1>6. ASSUME NEW h \in Game, NEW e \in Frames
      PROVE  /\ {y.roll : y \in BallsOf(rolls', h, e)} = 1..Cardinality(BallsOf(rolls', h, e))
             /\ Cardinality(BallsOf(rolls', h, e)) <= 3
  <2> DEFINE S == BallsOf(rolls, h, e)
  <2>0. /\ {y.roll : y \in S} = 1..Cardinality(S) /\ Cardinality(S) <= 3
        /\ IsFiniteSet(S) /\ Cardinality(S) \in Nat
    BY BallsOfFrame DEF PIInv, InOrder
  <2>1. CASE x.game = h /\ x.frame = e
    <3>1. x \in S
      BY <2>1 DEF BallsOf
    <3>2. BallsOf(rolls', h, e) = (S \ {x}) \cup {r}
      BY <1>1, <1>3, <2>1 DEF BallsOf
    <3>3. r \notin S \ {x}
      BY <1>5 DEF BallsOf
    <3> HIDE DEF S
    <3>4. IsFiniteSet(S \ {x}) /\ Cardinality(S \ {x}) = Cardinality(S) - 1
      BY <2>0, <3>1, FS_RemoveElement
    <3> DEFINE Q == S \ {x}
    <3>5. Cardinality(Q \cup {r}) = Cardinality(Q) + 1
      <4> HIDE DEF Q
      <4>1. IsFiniteSet(Q) /\ r \notin Q
        BY <3>3, <3>4 DEF Q
      <4> QED
        BY <4>1, FS_AddElement
    <3>6. Cardinality(BallsOf(rolls', h, e)) = Cardinality(S)
      BY <2>0, <3>2, <3>4, <3>5
    <3>7. {y.roll : y \in (S \ {x}) \cup {r}} = {y.roll : y \in S}
      BY <1>3, <3>1
    <3> QED
      BY <2>0, <3>2, <3>6, <3>7
  <2>2. CASE ~(x.game = h /\ x.frame = e)
    <3>1. BallsOf(rolls', h, e) = S
      BY <1>1, <1>3, <2>2 DEF BallsOf
    <3> QED
      BY <2>0, <3>1
  <2> QED
    BY <2>1, <2>2
<1>7. InOrder(rolls')
  BY <1>6 DEF InOrder
<1> QED
  BY <1>1, <1>3, <1>4, <1>7

(********************************** the pad ********************************)

\* A ball that is kept or corrected is still one of the game on the screen.
LEMMA ViewStays ==
  ASSUME PIInv, NEW R, \A y \in rolls : \E z \in R : z.id = y.id /\ z.game = y.game
  PROVE  Known(view, R)
BY DEF PIInv, Known

LEMMA OfferedIsRack ==
  ASSUME PIInv, OfferedRack # NoSet
  PROVE  /\ OfferedRack \in SUBSET Rack /\ IsFiniteSet(OfferedRack)
         /\ Cardinality(OfferedRack) \in 0..Pins
<1> DEFINE slot == ActiveSlot
           previous == {v \in view.rolls : v.frame = slot.frame /\ v.roll = slot.roll - 1}
           v == CHOOSE x \in previous : TRUE
<1>1. OfferedRack = CaptureRack(view.rolls, slot.frame, slot.roll)
  BY DEF OfferedRack
<1> HIDE DEF slot
<1>2. OfferedRack = Rack \/ (previous # {} /\ OfferedRack = v.standing)
  BY <1>1 DEF CaptureRack
<1>3. OfferedRack \in SUBSET Rack
  <2>1. CASE OfferedRack = Rack
    BY <2>1
  <2>2. CASE previous # {} /\ OfferedRack = v.standing
    <3>1. v \in view.rolls
      BY <2>2
    <3> HIDE DEF v
    <3> QED
      BY <2>2, <3>1 DEF PIInv, Known
  <2> QED
    BY <1>2, <2>1, <2>2
<1>4. IsFiniteSet(Rack) /\ Cardinality(Rack) = Pins
  BY ScoringAssumption, FS_Interval DEF Rack
<1>5. /\ IsFiniteSet(OfferedRack) /\ Cardinality(OfferedRack) <= Pins
      /\ Cardinality(OfferedRack) \in Nat
  BY <1>3, <1>4, FS_Subset, FS_CardinalityType
<1> QED
  BY <1>3, <1>5, ScoringAssumption

LEMMA RecordStep ==
  ASSUME PIInv, Quiet, NEW pins, NEW standing \in (SUBSET Rack) \cup {NoSet},
         Record(pins, standing)
  PROVE  /\ PIInv' /\ Switch
         /\ \/ rolls' = rolls
            \/ \E x : /\ rolls' = rolls \cup {x} /\ x.game = view.game
                      /\ \A y \in rolls : y.id # x.id
<1> DEFINE g == view.game
           slot == NextLegalSlot(Facts(g))
<1>1. /\ view.next # NoSlot /\ pins \in 0..Pins
      /\ UNCHANGED <<view, listed, selected, asked, home>>
  BY DEF Record, RollLegal, shown
<1>2. g \in Game
  BY <1>1 DEF PIInv, Known
<1>3. CASE RecordRoll(g, slot, pins, standing)
             /\ ui' = [at |-> "record", game |-> g, ok |-> TRUE, pins |-> pins]
  <2>1. PICK s : RecordRoll(g, s, pins, standing)
    BY <1>3
  <2>2. IInv'
    BY <1>1, <1>2, <2>1, RecordRollStep DEF PIInv
  <2>3. /\ AllOwn' /\ InOrder(rolls')
        /\ \E x : /\ rolls' = rolls \cup {x} /\ x.game = g
                  /\ \A y \in rolls : y.id # x.id
    BY <1>2, <2>1, RecordedInOrder
  <2>4. Known(view', rolls')
    BY <1>1, <2>3, ViewStays
  <2>5. Handler'
    <3>1. ui' \in [at: {"record"}, game: Game, ok: BOOLEAN, pins: 0..Pins]
      BY <1>1, <1>2, <1>3
    <3>2. ui'.game = view'.game
      BY <1>1, <1>3
    <3> QED
      BY <3>1, <3>2 DEF Handler
  <2>6. Navigation'
    BY <1>1 DEF PIInv, Navigation
  <2> QED
    BY <1>1, <2>2, <2>3, <2>4, <2>5, <2>6 DEF PIInv, Switch
<1>4. CASE /\ UNCHANGED vars
           /\ \/ ui' = Waiting
              \/ ui' = [at |-> "record", game |-> g, ok |-> FALSE, pins |-> pins]
  <2>1. IInv' /\ rolls' = rolls
    BY <1>4, StoreStays
  <2>2. Handler'
    <3>1. CASE ui' = Waiting
      BY <3>1, HandlerRests
    <3>2. CASE ui' = [at |-> "record", game |-> g, ok |-> FALSE, pins |-> pins]
      <4>1. ui' \in [at: {"record"}, game: Game, ok: BOOLEAN, pins: 0..Pins]
        BY <1>1, <1>2, <3>2
      <4>2. ui'.game = view'.game
        BY <1>1, <3>2
      <4> QED
        BY <4>1, <4>2 DEF Handler
    <3> QED
      BY <1>4, <3>1, <3>2
  <2> QED
    BY <1>1, <2>1, <2>2, BallsStay
<1> QED
  BY <1>3, <1>4 DEF Record, GameShown

LEMMA FixTapStep ==
  ASSUME PIInv, NEW standing \in SUBSET Rack, FixTap(standing)
  PROVE  /\ PIInv' /\ Switch
         /\ \/ rolls' = rolls
            \/ \E x \in rolls : \E r : /\ rolls' = (rolls \ {x}) \cup {r} /\ r.id = x.id
                                      /\ r.id = target /\ r.game = view.game
<1> DEFINE x == CHOOSE y \in rolls : y.id = target
           pins == Cardinality(OfferedRack) - Cardinality(standing)
           fits == Fits(Facts(x.game), x.frame, x.roll, pins, standing)
           both == [op |-> "standing", roll |-> x.id, standing |-> standing]
<1>1. /\ PadShown /\ target > 0 /\ OfferedRack # NoSet /\ standing \subseteq OfferedRack
      /\ UNCHANGED <<view, listed, selected, asked, home>>
  BY DEF FixTap, shown
<1>2. PICK v \in view.rolls : v.id = target
  BY <1>1 DEF PadShown, ActiveSlot
<1>3. PICK y \in rolls : y.id = target /\ y.game = view.game
  BY <1>2 DEF PIInv, Known
<1>4. x = y
  <2>1. \A z \in rolls : z.id = target => z = y
    BY <1>3 DEF PIInv, IInv, BooksKept, Books, Numbered
  <2> QED
    BY <1>3, <2>1
<1>5. pins \in 0..Pins
  <2>1. /\ Cardinality(standing) \in Nat
        /\ Cardinality(standing) <= Cardinality(OfferedRack)
        /\ Cardinality(OfferedRack) \in 0..Pins
    BY <1>1, OfferedIsRack, FS_Subset, FS_CardinalityType
  <2> QED
    BY <2>1, ScoringAssumption
<1>6. view.game \in Game
  BY <1>2 DEF PIInv, Known
<1>7. \/ /\ CorrectRollWithStanding(x, pins, standing) \/ CorrectRoll(x, pins, Idle)
         /\ \E ok \in BOOLEAN : ui' = [at |-> "fix", game |-> view.game, ok |-> ok]
      \/ /\ UNCHANGED vars
         /\ \E ok \in BOOLEAN : ui' = [at |-> "fix", game |-> view.game, ok |-> ok]
  <2>1. fits \in BOOLEAN
    BY DEF Fits, DetailFits, FitsPrior, FitsCount
  <2> QED
    BY <2>1 DEF FixTap
<1> HIDE DEF x, pins
<1>8. Handler'
  <2>1. PICK ok \in BOOLEAN : ui' = [at |-> "fix", game |-> view.game, ok |-> ok]
    BY <1>7
  <2>2. ui' \in [at: {"fix"}, game: Game, ok: BOOLEAN] /\ ui'.game = view'.game
    BY <1>1, <1>6, <2>1
  <2> QED
    BY <2>2 DEF Handler
<1>9. CASE CorrectRollWithStanding(x, pins, standing) \/ CorrectRoll(x, pins, Idle)
  <2>1. PICK z \in rolls : z = x
    BY <1>3, <1>4
  <2>2. PICK p \in 0..Pins : p = pins
    BY <1>5
  <2>3. CorrectRollWithStanding(z, p, standing) \/ CorrectRoll(z, p, Idle)
    BY <1>9, <2>1, <2>2
  <2>4. IInv'
    BY <2>3, CorrectRollStep, CorrectBothStep DEF PIInv
  <2>5. PICK then : CorrectRoll(z, p, then)
    BY <2>3 DEF CorrectRollWithStanding
  <2>6. AllOwn' /\ InOrder(rolls')
    BY <2>5, CorrectedInOrder
  <2>7. PICK r : rolls' = (rolls \ {z}) \cup {r} /\ r.id = z.id /\ r.game = z.game
    BY <2>5, CorrectedInOrder
  <2>8. \A a \in rolls : \E b \in rolls' : b.id = a.id /\ b.game = a.game
    BY <2>7
  <2>9. Known(view', rolls')
    BY <1>1, <2>8, ViewStays
  <2>10. Navigation'
    BY <1>1 DEF PIInv, Navigation
  <2>11. r.id = target /\ r.game = view.game
    BY <1>3, <1>4, <2>1, <2>7
  <2> QED
    BY <1>1, <1>8, <2>4, <2>6, <2>7, <2>9, <2>10, <2>11 DEF PIInv, Switch
<1>10. CASE UNCHANGED vars
  <2>1. IInv' /\ rolls' = rolls
    BY <1>10, StoreStays
  <2> QED
    BY <1>1, <1>8, <2>1, BallsStay
<1> QED
  BY <1>7, <1>9, <1>10

(****************************** the invariant ******************************)

\* What a step may do to the balls.
Writes ==
  \A x \in rolls' \ rolls :
    /\ x.game = view.game
    /\ IF target > 0 /\ OfferedRack # NoSet
       THEN x.id = target ELSE \A y \in rolls : y.id # x.id

\* The steps that neither record nor correct a ball.
Turns ==
  \/ \E o \in Reading :
       \/ Effect(o) \/ SaveGame(o)
       \/ \E g \in Game : OpenGame(g, o)
       \/ GoHome(o) \/ AfterDiscard(o)
       \/ AfterStart(o) \/ AfterRecord(o) \/ AfterFix(o)
  \/ Republish \/ ResumeGame
  \/ \E g \in Game : NewGame(g) \/ DiscardTap(g)
  \/ CreateFrame
  \/ EnterFix \/ CancelFix
  \/ \E v \in view.rolls : PickBall(v)
  \/ FixStanding \/ WriteFails \/ Restart

LEMMA TurnStep ==
  ASSUME PIInv, Turns
  PROVE  PIInv' /\ Switch /\ rolls' = rolls
<1>1. CASE \E o \in Reading :
             \/ Effect(o) \/ SaveGame(o)
             \/ \E g \in Game : OpenGame(g, o)
             \/ GoHome(o) \/ AfterDiscard(o)
             \/ AfterStart(o) \/ AfterRecord(o) \/ AfterFix(o)
  <2>1. PICK o \in Reading :
             \/ Effect(o) \/ SaveGame(o)
             \/ \E g \in Game : OpenGame(g, o)
             \/ GoHome(o) \/ AfterDiscard(o)
             \/ AfterStart(o) \/ AfterRecord(o) \/ AfterFix(o)
    BY <1>1
  <2>2. CASE AfterRecord(o) \/ AfterFix(o)
    <3>1. /\ ui.at \in {"record", "fix"} /\ Show(ui.game, o) /\ ui' = Waiting
          /\ UNCHANGED <<vars, selected, asked, home>>
      BY <2>2 DEF AfterRecord, AfterFix
    <3> QED
      BY <3>1, AfterWriteStep DEF vars
  <2>3. CASE \/ Effect(o) \/ SaveGame(o)
             \/ \E g \in Game : OpenGame(g, o)
             \/ GoHome(o) \/ AfterDiscard(o) \/ AfterStart(o)
    <3>1. PIInv' /\ Switch
      BY <2>3, EffectStep, SaveGameStep, OpenGameStep, GoHomeStep, AfterDiscardStep,
         AfterStartStep
    <3>2. rolls' = rolls
      BY <2>3 DEF Effect, SaveGame, OpenGame, GoHome, AfterDiscard, AfterStart, vars
    <3> QED
      BY <3>1, <3>2
  <2> QED
    BY <2>1, <2>2, <2>3
<1>2. CASE Republish \/ EnterFix \/ CancelFix \/ \E v \in view.rolls : PickBall(v)
  <2>1. UNCHANGED <<vars, view, listed, selected, asked, ui, home>>
    BY <1>2 DEF Republish, EnterFix, CancelFix, PickBall, shown
  <2> QED
    BY <2>1, NoTurn DEF vars
<1>3. CASE ResumeGame
  BY <1>3, ResumeGameStep DEF ResumeGame, vars
<1>4. CASE \E g \in Game : NewGame(g) \/ DiscardTap(g)
  <2>1. rolls' = rolls
    BY <1>4 DEF NewGame, DiscardTap, StartGame, Discard
  <2> QED
    BY <1>4, <2>1, NewGameStep, DiscardTapStep
<1>5. CASE CreateFrame
  BY <1>5, CreateFrameStep DEF CreateFrame, StartFrame
<1>6. CASE FixStanding
  BY <1>6, FixStandingStep DEF FixStanding, SaveStanding, AddPinDetail, CorrectPinDetail
<1>7. CASE WriteFails \/ Restart
  <2>1. rolls' = rolls
    BY <1>7 DEF WriteFails, Interrupt, Restart, store
  <2> QED
    BY <1>7, <2>1, WriteFailsStep, RestartStep
<1> QED
  BY <1>1, <1>2, <1>3, <1>4, <1>5, <1>6, <1>7 DEF Turns

LEMMA PNextStep ==
  ASSUME PIInv, PNext
  PROVE  PIInv' /\ Switch /\ Writes
<1>1. CASE Turns
  <2>1. PIInv' /\ Switch /\ rolls' = rolls
    BY <1>1, TurnStep
  <2> QED
    BY <2>1 DEF Writes
<1>2. ASSUME NEW pins, NEW standing \in (SUBSET Rack) \cup {NoSet}, Quiet,
             Record(pins, standing), ~(target > 0 /\ OfferedRack # NoSet)
      PROVE  PIInv' /\ Switch /\ Writes
  <2>1. /\ PIInv' /\ Switch
        /\ \/ rolls' = rolls
           \/ \E x : /\ rolls' = rolls \cup {x} /\ x.game = view.game
                     /\ \A y \in rolls : y.id # x.id
    BY <1>2, RecordStep
  <2> QED
    BY <1>2, <2>1 DEF Writes
<1>3. CASE \E standing \in SUBSET Rack : BallTap(standing)
  <2>1. PICK standing \in SUBSET Rack : BallTap(standing)
    BY <1>3
  <2>2. PICK pins : Quiet /\ target = 0 /\ Record(pins, standing)
    BY <2>1 DEF BallTap
  <2>3. ~(target > 0)
    BY <2>2
  <2> QED
    BY <1>2, <2>2, <2>3
<1>4. CASE \E pins \in 0..Pins : CountTap(pins)
  <2>1. PICK pins \in 0..Pins : CountTap(pins)
    BY <1>4
  <2>2. Quiet /\ OfferedRack = NoSet /\ Record(pins, NoSet)
    BY <2>1 DEF CountTap
  <2> QED
    BY <1>2, <2>2
<1>5. CASE \E standing \in SUBSET Rack : FixTap(standing)
  <2>1. PICK standing \in SUBSET Rack : FixTap(standing)
    BY <1>5
  <2>2. /\ PIInv' /\ Switch
        /\ \/ rolls' = rolls
           \/ \E x \in rolls : \E r : /\ rolls' = (rolls \ {x}) \cup {r} /\ r.id = x.id
                                     /\ r.id = target /\ r.game = view.game
    BY <2>1, FixTapStep
  <2>3. target > 0 /\ OfferedRack # NoSet
    BY <2>1 DEF FixTap
  <2> QED
    BY <2>2, <2>3 DEF Writes
<1> QED
  BY <1>1, <1>3, <1>4, <1>5 DEF PNext, Turns

LEMMA PInitOK == PInit => PIInv
<1> SUFFICES ASSUME PInit
             PROVE  PIInv
  OBVIOUS
<1>1. Init /\ ui = Waiting /\ view = NoView /\ listed = {} /\ selected = 0 /\ asked = 0
      /\ home = TRUE
  BY DEF PInit
<1>2. IInv
  BY <1>1, InitOK
<1>3. rolls = {}
  BY <1>1 DEF Init
<1>4. AllOwn
  BY <1>3 DEF AllOwn
<1>5. InOrder(rolls)
  <2>1. Cardinality({}) = 0
    BY FS_EmptySet
  <2>2. \A g \in Game, f \in Frames : BallsOf(rolls, g, f) = {}
    BY <1>3 DEF BallsOf
  <2>3. {y.roll : y \in {}} = 1..0
    OBVIOUS
  <2> QED
    BY <2>1, <2>2, <2>3 DEF InOrder
<1>6. Known(view, rolls)
  BY <1>1 DEF Known, NoView
<1>7. Navigation /\ Handler
  BY <1>1 DEF Navigation, NoView, Handler, Waiting
<1> QED
  BY <1>2, <1>4, <1>5, <1>6, <1>7 DEF PIInv

\* Whatever the bowler taps and whatever fails: the panel shows balls of the
\* game on the screen, and the store keeps its invariant.
THEOREM PanelInvariance == PSpec => []PIInv
<1>1. PInit => PIInv
  BY PInitOK
<1>2. PIInv /\ [PNext]_pvars => PIInv'
  <2>1. CASE PIInv /\ PNext
    BY <2>1, PNextStep
  <2>2. CASE PIInv /\ UNCHANGED pvars
    <3>1. UNCHANGED <<vars, view, listed, selected, asked, ui, home>>
      BY <2>2 DEF pvars, shown
    <3> QED
      BY <2>2, <3>1, NoTurn
  <2> QED
    BY <2>1, <2>2
<1> QED
  BY <1>1, <1>2, PTL DEF PSpec

\* The panel turns to no game that the bowler did not open or start
\* (scoringPanel.tsx, session.ts loadScoringView).
THEOREM NoGameUnasked == PSpec => NoSilentSwitch
<1>1. PIInv /\ [PNext]_pvars =>
        [ /\ view'.game # view.game => view'.game \in {0, asked'}
          /\ selected' # selected => selected' \in {0, asked'} ]_pvars
  BY PNextStep DEF Switch
<1> QED
  BY <1>1, PanelInvariance, PTL DEF PSpec, NoSilentSwitch

\* A tap writes what it shows: a ball of the game on the screen, and the ball
\* picked for correction when there is one (saveDelivery, onSaveCountOnly).
THEOREM TapsAreTrue == PSpec => TapsWriteWhatTheyShow
<1>1. PIInv /\ [PNext]_pvars =>
        [ \A x \in rolls' \ rolls :
            /\ x.game = view.game
            /\ IF target > 0 /\ OfferedRack # NoSet
               THEN x.id = target ELSE \A y \in rolls : y.id # x.id ]_pvars
  BY PNextStep DEF Writes
<1> QED
  BY <1>1, PanelInvariance, PTL DEF PSpec, TapsWriteWhatTheyShow

(******************************** the controls *****************************)

\* A pad that is up to date shows the balls of a live game.
LEMMA PadIsUpToDate ==
  ASSUME PIInv, PadShown, view = Load(view.game)
  PROVE  /\ view.game \in Game
         /\ view.rolls = Views(view.game) /\ view.next = NextLegalSlot(Facts(view.game))
<1> DEFINE g == view.game
<1>1. view.next # NoSlot \/ view.rolls # {}
  BY DEF PadShown, ActiveSlot
<1>2. g \in Game
  BY <1>1 DEF PIInv, Known
<1>3. g # 0
  BY <1>2, GamesAreNumbers
<1>4. g \in Live
  <2> SUFFICES ASSUME g \notin Live
               PROVE  FALSE
    OBVIOUS
  <2>1. Load(g) = [NoView EXCEPT !.game = g]
    BY <1>3 DEF Load
  <2>2. Load(g).rolls = {} /\ Load(g).next = NoSlot
    BY <2>1 DEF NoView
  <2> QED
    BY <1>1, <2>2
<1>5. Load(g) = [game |-> g, rolls |-> Views(g), next |-> NextLegalSlot(Facts(g))]
  BY <1>3, <1>4 DEF Load
<1>6. Load(g).rolls = Views(g) /\ Load(g).next = NextLegalSlot(Facts(g))
  BY <1>5
<1> QED
  BY <1>2, <1>6

\* The balls of a frame are told by its deliveries, also in a game that a
\* correction made impossible.
LEMMA FrameTold ==
  ASSUME PIInv, NEW g \in Game, NEW f \in Frames
  PROVE  Told(Facts(g), f, Deliveries(Facts(g), f))
<1>1. /\ Balls(Facts(g)) /\ \A x \in Facts(g) : x.pins \in 0..Pins
  BY FactsAreBalls DEF PIInv
<1>2. /\ {x.roll : x \in InFrame(Facts(g), f)} = 1..Cardinality(InFrame(Facts(g), f))
      /\ Cardinality(InFrame(Facts(g), f)) <= 3
  BY BallsOfFrame DEF PIInv, InOrder
<1> QED
  BY <1>1, <1>2, DeliveriesTell

\* Just one of the strike and spare buttons is enabled, whatever the rack.
LEMMA OneButton ==
  ASSUME NEW facts, NEW slot, slot.frame \in Frames, slot.roll \in 1..3,
         NEW d, Told(facts, slot.frame, d),
         NEW size, size = RemainingBefore(facts, slot.frame, slot.roll),
         size \in 0..Pins, size # Null,
         NEW b1, NEW b2,
         slot.frame = FrameCount => b1 = Ball(facts, slot.frame, 1)
                                    /\ b2 = Ball(facts, slot.frame, 2)
  PROVE  StrikeControl(size, slot, b1, b2) # SpareControl(size, slot, b1, b2)
<1> DEFINE f == slot.frame
           r == slot.roll
           first == Ball(facts, f, 1)
           second == Ball(facts, f, 2)
           n == Len(d)
           strike == \/ r = 1
                     \/ f = FrameCount /\ r = 2 /\ b1 = Pins
                     \/ /\ f = FrameCount /\ r = 3 /\ b1 # Null /\ b2 # Null
                        /\ b2 = Pins \/ b1 + b2 = Pins
           spare == \/ f < FrameCount /\ r = 2
                    \/ f = FrameCount /\ r = 2 /\ b1 # Null /\ b1 < Pins
                    \/ f = FrameCount /\ r = 3 /\ b1 = Pins /\ b2 # Null /\ b2 < Pins
<1>1. /\ StrikeControl(size, slot, b1, b2) <=> size = Pins /\ strike
      /\ StrikeControl(size, slot, b1, b2) \in BOOLEAN
      /\ SpareControl(size, slot, b1, b2)
           <=> size > 0 /\ ~StrikeControl(size, slot, b1, b2) /\ spare
      /\ SpareControl(size, slot, b1, b2) \in BOOLEAN
  BY DEF StrikeControl, SpareControl
<1>2. /\ n \in 0..3
      /\ first = (IF n >= 1 THEN d[1] ELSE Null) /\ second = (IF n >= 2 THEN d[2] ELSE Null)
      /\ n >= 1 => d[1] \in 0..Pins
      /\ n >= 2 => d[2] \in 0..Pins
  BY BallsTold
<1>3. /\ first = Null \/ first \in 0..Pins
      /\ second = Null \/ second \in 0..Pins
  BY <1>2
<1>4. size = RemainingBefore(facts, f, r)
  OBVIOUS
<1>5. f = FrameCount => b1 = first /\ b2 = second
  OBVIOUS
<1>6. f \in 1..FrameCount /\ FrameCount \in Nat \ {0} /\ Pins \in Nat \ {0} /\ Null = -1
  BY ScoringAssumption DEF Frames, Null
<1>7. (size = Pins /\ strike) \/ (size > 0 /\ spare)
  <2>1. CASE r = 1
    BY <1>4, <2>1 DEF RemainingBefore
  <2>2. CASE r = 2
    <3>1. size = IF first = Null THEN Null
                 ELSE IF first < Pins THEN Pins - first
                 ELSE IF f = FrameCount THEN Pins ELSE Null
      BY <1>4, <2>2 DEF RemainingBefore
    <3> HIDE DEF first, second
    <3> QED
      BY <1>3, <1>5, <1>6, <2>2, <3>1
  <2>3. CASE r = 3
    <3>1. size = IF first = Null \/ f < FrameCount \/ second = Null THEN Null
                 ELSE IF first = Pins THEN IF second = Pins THEN Pins ELSE Pins - second
                 ELSE IF first + second = Pins THEN Pins ELSE Null
      BY <1>4, <2>3 DEF RemainingBefore
    <3> HIDE DEF first, second
    <3>2. f = FrameCount /\ first # Null /\ second # Null
      BY <1>6, <3>1
    <3> QED
      BY <1>3, <1>5, <1>6, <2>3, <3>1, <3>2
  <2> QED
    BY <2>1, <2>2, <2>3
<1> HIDE DEF strike, spare
<1> QED
  BY <1>1, <1>7

\* What is offered for a correction fits the rack the ball met.
LEMMA CorrectionFits ==
  ASSUME PIInv, NEW g \in Game, NEW f \in Frames, NEW r \in 1..3, ~AfterInvalid(g, f, r),
         NEW rack, rack = CaptureRack(Views(g), f, r), rack # NoSet,
         NEW standing \in SUBSET rack
  PROVE  Fits(Facts(g), f, r, Cardinality(rack) - Cardinality(standing), standing)
<1> DEFINE left == RemainingBefore(Facts(g), f, r)
           prior == PriorStanding(Facts(g), f, r)
           pins == Cardinality(rack) - Cardinality(standing)
<1>1. /\ left \in 0..Pins /\ left # Null
      /\ IsFiniteSet(rack) /\ Cardinality(rack) = left
      /\ prior # NoSet => prior = rack
  BY FrameTold, OfferedRackIsMet DEF PIInv
<1>2. /\ Cardinality(standing) \in Nat
      /\ Cardinality(standing) <= Cardinality(rack)
  BY <1>1, FS_Subset, FS_CardinalityType
<1>3. pins \in 0..left /\ pins + Cardinality(standing) = left
  BY <1>1, <1>2, ScoringAssumption
<1>4. CASE prior = NoSet
  BY <1>1, <1>3, <1>4 DEF Fits, DetailFits, FitsCount
<1>5. CASE prior # NoSet
  BY <1>1, <1>5 DEF Fits, DetailFits, FitsPrior
<1> QED
  BY <1>4, <1>5

\* The pad promises only what the store keeps (scoringPanel.tsx, pinDetail.ts
\* and session.ts agree): for the next ball one of the strike and spare
\* buttons, the gutter button or the count is accepted, and any standing
\* offered for a correction fits.
THEOREM PadIsHonest == PSpec => []ControlsAreHonest
<1>1. PIInv => ControlsAreHonest
  <2> SUFFICES ASSUME PIInv, NEW g, g = view.game, NEW slot, slot = ActiveSlot,
                      NEW rack, rack = OfferedRack, NEW b1, NEW b2,
                      b1 = Ball(view.rolls, FrameCount, 1),
                      b2 = Ball(view.rolls, FrameCount, 2),
                      PadShown, view = Load(g), Started(g),
                      ~AfterInvalid(g, slot.frame, slot.roll)
               PROVE  IF target # 0
                      THEN rack # NoSet => \A standing \in SUBSET rack :
                             Fits(Facts(g), slot.frame, slot.roll,
                                  Cardinality(rack) - Cardinality(standing), standing)
                      ELSE IF rack = NoSet
                      THEN \E pins \in 0..Pins : Accepts(g, slot, pins, NoSet)
                      ELSE /\ StrikeControl(Cardinality(rack), slot, b1, b2)
                                # SpareControl(Cardinality(rack), slot, b1, b2)
                           /\ Accepts(g, slot, Cardinality(rack), {})
                           /\ Accepts(g, slot, 0, rack)
    BY DEF ControlsAreHonest
  <2>1. g \in Game /\ view.rolls = Views(g) /\ view.next = NextLegalSlot(Facts(g))
    BY PadIsUpToDate
  <2>2. slot # NoSlot /\ rack = CaptureRack(Views(g), slot.frame, slot.roll)
    BY <2>1 DEF PadShown, OfferedRack
  <2>3. CASE target # 0
    <3>1. PICK v \in Views(g) : slot = [frame |-> v.frame, roll |-> v.roll]
      <4>1. \E v \in view.rolls : v.id = target
        BY <2>2, <2>3 DEF ActiveSlot
      <4>2. Target \in view.rolls
        BY <4>1 DEF Target
      <4>3. slot = [frame |-> Target.frame, roll |-> Target.roll]
        BY <2>3, <4>1 DEF ActiveSlot
      <4> QED
        BY <2>1, <4>2, <4>3
    <3>2. PICK x \in Facts(g) : v.frame = x.frame /\ v.roll = x.roll
      BY DEF Views
    <3>3. slot.frame \in Frames /\ slot.roll \in 1..3
      BY <2>1, <3>1, <3>2, FactsAreBalls DEF PIInv
    <3> QED
      BY <2>1, <2>2, <2>3, <3>3, CorrectionFits
  <2>4. CASE target = 0
    <3>1. slot = NextLegalSlot(Facts(g))
      BY <2>1, <2>4 DEF ActiveSlot
    <3>2. CASE rack = NoSet
      <4>1. Status(Facts(g)) \notin {"COMPLETED", "DOMAIN_INVALID_REQUIRING_REPAIR"}
        BY <2>2, <3>1, NextSlotIs
      <4>2. NoDeadEnd
        BY NeverStuck DEF PIInv
      <4> QED
        BY <2>1, <2>4, <3>1, <3>2, <4>1, <4>2 DEF NoDeadEnd
    <3>3. CASE rack # NoSet
      <4>1. /\ slot.frame \in Frames /\ slot.roll \in 1..3
            /\ Told(Facts(g), slot.frame, Deliveries(Facts(g), slot.frame))
        BY <2>1, <2>2, <3>1, FactsAreBalls, NextSlotTold DEF PIInv
      <4> DEFINE size == Cardinality(rack)
      <4>2. /\ size = RemainingBefore(Facts(g), slot.frame, slot.roll)
            /\ size \in 0..Pins /\ size # Null /\ IsFiniteSet(rack)
        BY <2>1, <2>2, <3>3, <4>1, OfferedRackIsMet DEF PIInv
      <4>3. slot.frame = FrameCount => b1 = Ball(Facts(g), slot.frame, 1)
                                       /\ b2 = Ball(Facts(g), slot.frame, 2)
        <5>1. \A x, y \in InFrame(Facts(g), slot.frame) : x.roll = y.roll => x = y
          BY <4>1 DEF Told
        <5>2. /\ Ball(Views(g), slot.frame, 1) = Ball(Facts(g), slot.frame, 1)
              /\ Ball(Views(g), slot.frame, 2) = Ball(Facts(g), slot.frame, 2)
          BY <2>1, <5>1, ViewsAreFacts DEF PIInv
        <5> QED
          BY <2>1, <5>2
      <4>4. StrikeControl(size, slot, b1, b2) # SpareControl(size, slot, b1, b2)
        <5> DEFINE facts == Facts(g)
                   d == Deliveries(facts, slot.frame)
        <5>1. /\ slot.frame \in Frames /\ slot.roll \in 1..3 /\ Told(facts, slot.frame, d)
              /\ size = RemainingBefore(facts, slot.frame, slot.roll)
              /\ size \in 0..Pins /\ size # Null
              /\ slot.frame = FrameCount => b1 = Ball(facts, slot.frame, 1)
                                            /\ b2 = Ball(facts, slot.frame, 2)
          BY <4>1, <4>2, <4>3
        <5> HIDE DEF size, facts, d
        <5> QED
          BY ONLY <5>1, OneButton
      <4>5. \A standing \in SUBSET rack :
              Accepts(g, slot, size - Cardinality(standing), standing)
        <5>1. OfferedBallsAreAccepted
          BY OfferedTaken DEF PIInv
        <5> QED
          BY <2>1, <2>2, <3>1, <3>3, <5>1 DEF OfferedBallsAreAccepted
      <4>6. Accepts(g, slot, size, {})
        <5>1. Cardinality({}) = 0 /\ size - 0 = size
          BY <4>2, FS_EmptySet
        <5>2. Accepts(g, slot, size - Cardinality({}), {})
          BY <4>5
        <5> QED
          BY <5>1, <5>2
      <4>7. Accepts(g, slot, 0, rack)
        <5>1. size - Cardinality(rack) = 0
          BY <4>2
        <5>2. Accepts(g, slot, size - Cardinality(rack), rack)
          BY <4>5
        <5> QED
          BY <5>1, <5>2
      <4> QED
        BY <2>4, <3>3, <4>4, <4>6, <4>7
    <3> QED
      BY <3>2, <3>3
  <2> QED
    BY <2>3, <2>4
<1> QED
  BY <1>1, PanelInvariance, PTL

(***************************** what is reported ****************************)

CountOf(q) == LET count(g) == Len(q[g]) IN Sum(Game, count)

\* A ball whose recording succeeded and whose reading is under way.
Recorded == IF ui.at = "record" /\ ui.ok THEN 1 ELSE 0

BallsIn(R, g) == {x \in R : x.game = g}

\* A ball comes after every ball that a frame before its own can take.
InTurn(R) ==
  \A g \in Game : \A x \in R : x.game = g =>
    \A f \in Frames : f < x.frame => ~Takes(f, Deliveries(BallsIn(R, g), f))

\* What is reported are the recorded balls without the one being read.
ReportsKept ==
  /\ reported \in [Game -> Seq(0..Pins)]
  /\ unread \in Nat /\ Recorded <= unread
  /\ corrections = {} => InTurn(rolls)
  /\ corrections = {} /\ unread = Recorded =>
       \A g \in Game :
         FlattenSeq(Lines(BallsIn(rolls, g))) =
           IF Recorded = 1 /\ ui.game = g THEN Append(reported[g], ui.pins) ELSE reported[g]
  /\ Cardinality(rolls) = CountOf(reported) + unread

LEMMA GamesFinite == IsFiniteSet(Game)
BY FS_Interval, SessionAssumption DEF Game

LEMMA CountIs ==
  ASSUME NEW q
  PROVE  \E g : Totaling([x \in Game |-> Len(q[x])], Game, g) /\ CountOf(q) = g[Game]
<1> DEFINE count(x) == Len(q[x])
           v == [x \in Game |-> Len(q[x])]
<1>1. \A s \in SUBSET Game : s # {} => (CHOOSE x \in s : TRUE) \in Game
  OBVIOUS
<1>2. PICK h : Totaling(v, Game, h)
  BY TotalExists, GamesFinite
<1>3. h = [s \in SUBSET Game |->
             IF s = {} THEN 0
             ELSE count(CHOOSE x \in s : TRUE) + h[s \ {CHOOSE x \in s : TRUE}]]
  BY <1>1, <1>2, Zenon DEF Totaling
<1>4. PICK g : /\ g = [s \in SUBSET Game |->
                         IF s = {} THEN 0
                         ELSE count(CHOOSE x \in s : TRUE) + g[s \ {CHOOSE x \in s : TRUE}]]
               /\ CountOf(q) = g[Game]
  BY <1>3 DEF CountOf, Sum, MapThenSumSet, MapThenFoldSet
<1>5. Totaling(v, Game, g)
  BY <1>1, <1>4, Zenon DEF Totaling
<1> QED
  BY <1>4, <1>5

LEMMA CountEmpty == CountOf([g \in Game |-> <<>>]) = 0
<1> DEFINE q == [g \in Game |-> <<>>]
           v == [x \in Game |-> Len(q[x])]
           zero == [s \in SUBSET Game |-> 0]
<1>1. PICK g : Totaling(v, Game, g) /\ CountOf(q) = g[Game]
  <2> HIDE DEF q
  <2> QED
    BY CountIs
<1>2. \A x \in Game : v[x] = 0
  OBVIOUS
<1>3. Totaling(v, Game, zero)
  <2>1. \A s \in SUBSET Game :
          zero[s] = IF s = {} THEN 0
                    ELSE v[CHOOSE x \in s : TRUE] + zero[s \ {CHOOSE x \in s : TRUE}]
    <3> SUFFICES ASSUME NEW s \in SUBSET Game, s # {}
                 PROVE  0 = v[CHOOSE x \in s : TRUE] + zero[s \ {CHOOSE x \in s : TRUE}]
      OBVIOUS
    <3> DEFINE y == CHOOSE x \in s : TRUE
    <3>1. y \in Game
      OBVIOUS
    <3> HIDE DEF y, v
    <3>2. v[y] = 0 /\ zero[s \ {y}] = 0
      BY <1>2, <3>1
    <3> QED
      BY <3>2 DEF y
  <2> HIDE DEF v
  <2> QED
    BY <2>1 DEF Totaling
<1> HIDE DEF v, zero
<1>4. g[Game] = zero[Game]
  <2>1. \A x \in Game : v[x] \in Int /\ v[x] = v[x]
    BY <1>2
  <2> QED
    BY <1>1, <1>3, <2>1, GamesFinite, EqualTotals
<1> QED
  BY <1>1, <1>4 DEF zero

LEMMA CountAppend ==
  ASSUME NEW q, NEW r, NEW g \in Game,
         \A x \in Game : /\ Len(q[x]) \in Int
                         /\ Len(r[x]) = Len(q[x]) + (IF x = g THEN 1 ELSE 0)
  PROVE  /\ CountOf(q) \in Int
         /\ CountOf(r) = CountOf(q) + 1
<1> DEFINE v == [x \in Game |-> Len(q[x])]
           w == [x \in Game |-> Len(r[x])]
<1>1. \A x \in Game : v[x] \in Int /\ w[x] = v[x] + (IF x = g THEN 1 ELSE 0)
  OBVIOUS
<1>2. PICK a : Totaling(v, Game, a) /\ CountOf(q) = a[Game]
  BY CountIs
<1>3. PICK b : Totaling(w, Game, b) /\ CountOf(r) = b[Game]
  BY CountIs
<1> HIDE DEF v, w
<1>4. a[Game] \in Int /\ b[Game] = a[Game] + (IF g \in Game THEN 1 ELSE 0)
  BY <1>1, <1>2, <1>3, GamesFinite, TotalsDiffer
<1> QED
  BY <1>2, <1>3, <1>4

LEMMA CountTyped ==
  ASSUME NEW T, NEW q \in [Game -> Seq(T)]
  PROVE  CountOf(q) \in Int
<1> DEFINE v == [x \in Game |-> Len(q[x])]
<1>1. PICK a : Totaling(v, Game, a) /\ CountOf(q) = a[Game]
  BY CountIs
<1>2. \A x \in Game : v[x] \in Int /\ v[x] = v[x]
  OBVIOUS
<1> HIDE DEF v
<1>3. a[Game] \in Int
  BY <1>1, <1>2, GamesFinite, EqualTotals
<1> QED
  BY <1>1, <1>3

LEMMA FactsAreAll ==
  ASSUME PIInv, NEW g \in Game
  PROVE  /\ Facts(g) = BallsIn(rolls, g) /\ Balls(BallsIn(rolls, g))
         /\ \A x \in BallsIn(rolls, g) : x.pins \in 0..Pins
<1>1. Facts(g) = BallsIn(rolls, g)
  BY DEF PIInv, IInv, OwnBallsLive, AllOwn, Facts, BallsIn
<1> QED
  BY <1>1, FactsAreBalls DEF PIInv

LEMMA ToldIn ==
  ASSUME NEW R, NEW g \in Game, Balls(BallsIn(R, g)), InOrder(R),
         \A x \in BallsIn(R, g) : x.pins \in 0..Pins, NEW f \in Frames
  PROVE  Told(BallsIn(R, g), f, Deliveries(BallsIn(R, g), f))
<1>1. InFrame(BallsIn(R, g), f) = BallsOf(R, g, f)
  BY DEF InFrame, BallsIn, BallsOf
<1>2. /\ {x.roll : x \in BallsOf(R, g, f)} = 1..Cardinality(BallsOf(R, g, f))
      /\ Cardinality(BallsOf(R, g, f)) <= 3
  BY DEF InOrder
<1> QED
  BY <1>1, <1>2, DeliveriesTell

\* A ball recorded at the next slot of a game whose balls came in turn.
LEMMA JoinedInTurn ==
  ASSUME NEW R, NEW Q, NEW g \in Game, NEW x, x.game = g, Q = R \cup {x}, InTurn(R),
         NEW old, old = BallsIn(R, g), NEW new, new = BallsIn(Q, g), Joined(old, new, x),
         \A y \in R : y.frame \in Frames,
         NextLegalSlot(old) # NoSlot, x.frame = NextLegalSlot(old).frame
  PROVE  /\ \A y \in old : y.frame <= x.frame
         /\ InTurn(Q)
<1>1. /\ x.frame \in Frames /\ Takes(x.frame, Deliveries(old, x.frame))
      /\ \A f \in Frames : f < x.frame => ~Takes(f, Deliveries(old, f))
  BY NextSlotIs, NextSlotFirst
<1>2. \A y \in old : \A f \in Frames : f < y.frame => ~Takes(f, Deliveries(old, f))
  BY DEF InTurn, BallsIn
<1>3. \A y \in old : y.frame \in Frames /\ ~(x.frame < y.frame)
  BY <1>1, <1>2 DEF BallsIn
<1>4. \A y \in old : y.frame <= x.frame
  BY <1>1, <1>3 DEF Frames
<1>5. ASSUME NEW h \in Game, NEW y \in Q, y.game = h, NEW f \in Frames, f < y.frame
      PROVE  ~Takes(f, Deliveries(BallsIn(Q, h), f))
  <2>1. CASE h # g
    <3>1. BallsIn(Q, h) = BallsIn(R, h) /\ y \in R
      BY <1>5, <2>1 DEF BallsIn
    <3> QED
      BY <1>5, <3>1 DEF InTurn
  <2>2. CASE h = g
    <3>1. y = x \/ y \in old
      BY <1>5, <2>2 DEF BallsIn
    <3>2. f < x.frame
      BY <1>1, <1>4, <1>5, <3>1 DEF Frames
    <3>3. f # x.frame
      BY <1>1, <3>2 DEF Frames
    <3>4. Deliveries(new, f) = Deliveries(old, f)
      BY <3>3, DeliveriesJoined
    <3> QED
      BY <1>1, <2>2, <3>2, <3>4
  <2> QED
    BY <2>1, <2>2
<1> QED
  BY <1>4, <1>5 DEF InTurn

LEMMA RecordedReports ==
  ASSUME PIInv, ReportsKept, NEW g \in Game, NEW slot, slot = NextLegalSlot(Facts(g)),
         NEW pins \in 0..Pins, NEW standing, RecordRoll(g, slot, pins, standing),
         ui = Waiting, ui' = [at |-> "record", game |-> g, ok |-> TRUE, pins |-> pins],
         unread' = unread + 1, reported' = reported
  PROVE  ReportsKept'
<1> DEFINE m == Cardinality(rolls)
           x == [id |-> m + 1, game |-> g, frame |-> slot.frame,
                 roll |-> slot.roll, pins |-> pins, version |-> 1, own |-> TRUE]
           old == BallsIn(rolls, g)
           new == BallsIn(rolls', g)
<1>1. /\ rolls' = rolls \cup {x} /\ slot # NoSlot /\ corrections' = corrections
  BY DEF RecordRoll, Accepts
<1>2. x.id = m + 1 /\ x.game = g /\ x.frame = slot.frame /\ x.roll = slot.roll /\ x.pins = pins
  OBVIOUS
<1>3. /\ m \in Nat /\ IsFiniteSet(rolls) /\ \A y \in rolls : y.id \in 1..m
      /\ \A y \in rolls : y.frame \in Frames
  BY FS_CardinalityType DEF PIInv, IInv, BooksKept, Books, Numbered, RollRow
<1> HIDE DEF x
<1>4. x \notin rolls
  BY <1>2, <1>3
<1>5. Cardinality(rolls') = m + 1
  BY <1>1, <1>3, <1>4, FS_AddElement
<1>6. InOrder(rolls')
  BY RecordedInOrder
<1>7. /\ Facts(g) = old /\ Balls(old) /\ \A y \in old : y.pins \in 0..Pins
  BY FactsAreAll
<1>8. new = old \cup {x}
  BY <1>1, <1>2 DEF BallsIn
<1>9. slot.frame \in Frames /\ slot.roll = Len(Deliveries(old, slot.frame)) + 1
  BY <1>1, <1>7, NextSlotIs
<1>10. Balls(new) /\ \A y \in new : y.pins \in 0..Pins
  <2>1. IsFiniteSet(new)
    BY <1>7, <1>8, FS_AddElement DEF Balls
  <2>2. slot.roll \in Nat
    <3>1. Told(old, slot.frame, Deliveries(old, slot.frame))
      BY <1>7, <1>9, ToldIn DEF PIInv
    <3> QED
      BY <1>9, <3>1 DEF Told
  <2>3. x.id \in Nat /\ x.frame \in Nat /\ x.roll \in Nat /\ x.pins \in Nat /\ x.pins \in 0..Pins
    BY <1>2, <1>3, <1>9, <2>2, ScoringAssumption DEF Frames
  <2> QED
    BY <1>7, <1>8, <2>1, <2>3 DEF Balls
<1>11. Joined(old, new, x)
  <2>1. \A f \in Frames : Told(old, f, Deliveries(old, f)) /\ Told(new, f, Deliveries(new, f))
    BY <1>6, <1>7, <1>10, ToldIn DEF PIInv
  <2> QED
    BY <1>2, <1>8, <1>9, <2>1 DEF Joined
<1>12. Recorded = 0 /\ Recorded' = 1
  BY DEF Recorded, Waiting
<1>13. ASSUME corrections' = {}
       PROVE  InTurn(rolls') /\ \A y \in old : y.frame <= x.frame
  <2>1. InTurn(rolls)
    BY <1>1, <1>13 DEF ReportsKept
  <2> HIDE DEF old, new
  <2> QED
    BY <1>1, <1>2, <1>3, <1>7, <1>11, <2>1, JoinedInTurn DEF old, new
<1>14. ASSUME corrections' = {}, unread' = Recorded', NEW h \in Game
       PROVE  FlattenSeq(Lines(BallsIn(rolls', h)))
                = IF Recorded' = 1 /\ ui'.game = h THEN Append(reported'[h], ui'.pins)
                                                   ELSE reported'[h]
  <2>1. FlattenSeq(Lines(BallsIn(rolls, h))) = reported[h]
    <3>1. corrections = {} /\ unread = Recorded
      BY <1>1, <1>12, <1>14 DEF ReportsKept
    <3> QED
      BY <1>12, <3>1 DEF ReportsKept
  <2>2. CASE h = g
    <3>1. FlattenSeq(Lines(new)) = Append(FlattenSeq(Lines(old)), pins)
      BY <1>2, <1>11, <1>13, <1>14, LinesJoined
    <3>2. ui'.game = g /\ ui'.pins = pins
      OBVIOUS
    <3> QED
      BY <1>12, <2>1, <2>2, <3>1, <3>2
  <2>3. CASE h # g
    <3>1. BallsIn(rolls', h) = BallsIn(rolls, h)
      BY <1>1, <1>2, <2>3 DEF BallsIn
    <3>2. ui'.game # h
      BY <2>3
    <3> QED
      BY <2>1, <3>1, <3>2
  <2> QED
    BY <2>2, <2>3
<1>15. /\ reported' \in [Game -> Seq(0..Pins)] /\ unread' \in Nat /\ Recorded' <= unread'
  BY <1>12 DEF ReportsKept
<1>16. Cardinality(rolls') = CountOf(reported') + unread'
  <2>1. CountOf(reported) \in Int
    BY CountTyped DEF ReportsKept
  <2> QED
    BY <1>5, <2>1 DEF ReportsKept
<1> QED
  BY <1>13, <1>14, <1>15, <1>16 DEF ReportsKept

\* A step that neither records nor reports a ball.
LEMMA ReportsStay ==
  ASSUME ReportsKept, rolls' = rolls, UNCHANGED told,
         corrections' = {} => corrections = {},
         ui' = ui \/ ~(ui'.at = "record" /\ ui'.ok)
  PROVE  ReportsKept'
<1>1. reported' = reported /\ unread' = unread
  BY DEF told
<1>2. (Recorded' = Recorded /\ ui' = ui) \/ Recorded' = 0
  BY DEF Recorded
<1>3. Recorded \in {0, 1} /\ Recorded <= unread /\ unread \in Nat
  BY DEF ReportsKept, Recorded
<1>4. ASSUME corrections' = {}, unread' = Recorded'
      PROVE  unread = Recorded /\ ((Recorded' = Recorded /\ ui' = ui) \/ (Recorded' = 0 /\ Recorded = 0))
  <2>1. CASE Recorded' = Recorded /\ ui' = ui
    BY <1>1, <1>4, <2>1
  <2>2. CASE Recorded' = 0
    BY <1>1, <1>3, <1>4, <2>2
  <2> QED
    BY <1>2, <2>1, <2>2
<1>5. ASSUME corrections' = {}, unread' = Recorded', NEW g \in Game
      PROVE  FlattenSeq(Lines(BallsIn(rolls', g)))
               = IF Recorded' = 1 /\ ui'.game = g THEN Append(reported'[g], ui'.pins)
                                                  ELSE reported'[g]
  BY <1>1, <1>4, <1>5 DEF ReportsKept
<1>6. unread' \in Nat /\ Recorded' <= unread'
  BY <1>1, <1>2, <1>3 DEF ReportsKept
<1> QED
  BY <1>1, <1>5, <1>6 DEF ReportsKept

LEMMA AfterRecordReports ==
  ASSUME PIInv, ReportsKept, NEW o, AfterRecord(o)
  PROVE  ReportsKept'
<1>1. /\ ui.at = "record" /\ ui' = Waiting /\ UNCHANGED vars
      /\ IF o = "ok" /\ ui.ok
         THEN /\ reported' = [reported EXCEPT ![ui.game] = Append(@, ui.pins)]
              /\ unread' = unread - 1
         ELSE UNCHANGED told
  BY DEF AfterRecord
<1>2. ui.game \in Game /\ ui.pins \in 0..Pins
  BY <1>1 DEF PIInv, Handler, Waiting
<1>3. rolls' = rolls /\ corrections' = corrections /\ Recorded' = 0
  BY <1>1 DEF vars, Recorded, Waiting
<1>4. CASE ~(o = "ok" /\ ui.ok)
  <2>1. ~(ui'.at = "record" /\ ui'.ok)
    BY <1>1 DEF Waiting
  <2> QED
    BY <1>1, <1>3, <1>4, <2>1, ReportsStay
<1>5. CASE o = "ok" /\ ui.ok
  <2>1. /\ reported' = [reported EXCEPT ![ui.game] = Append(@, ui.pins)]
        /\ unread' = unread - 1 /\ Recorded = 1
    BY <1>1, <1>5 DEF Recorded
  <2>2. reported' \in [Game -> Seq(0..Pins)] /\ unread' \in Nat /\ Recorded' <= unread'
    BY <1>2, <1>3, <2>1 DEF ReportsKept
  <2>3. ASSUME corrections' = {}, unread' = Recorded', NEW g \in Game
        PROVE  FlattenSeq(Lines(BallsIn(rolls', g))) = reported'[g]
    <3>1. corrections = {} /\ unread = Recorded
      BY <1>3, <2>1, <2>3 DEF ReportsKept
    <3>2. FlattenSeq(Lines(BallsIn(rolls, g)))
            = IF ui.game = g THEN Append(reported[g], ui.pins) ELSE reported[g]
      BY <2>1, <3>1 DEF ReportsKept
    <3>3. reported'[g] = IF ui.game = g THEN Append(reported[g], ui.pins) ELSE reported[g]
      BY <2>1 DEF ReportsKept
    <3> QED
      BY <1>3, <3>2, <3>3
  <2>4. Cardinality(rolls') = CountOf(reported') + unread'
    <3>1. CountOf(reported) \in Int /\ CountOf(reported') = CountOf(reported) + 1
      <4>1. /\ reported \in [Game -> Seq(0..Pins)]
            /\ \A h \in Game : reported'[h] = IF h = ui.game THEN Append(reported[h], ui.pins)
                                                             ELSE reported[h]
        BY <2>1 DEF ReportsKept
      <4>2. ASSUME NEW h \in Game
            PROVE  /\ Len(reported[h]) \in Int
                   /\ Len(reported'[h]) = Len(reported[h]) + (IF h = ui.game THEN 1 ELSE 0)
        <5>1. reported[h] \in Seq(0..Pins)
          BY <4>1
        <5>2. /\ Len(reported[h]) \in Nat
              /\ Len(Append(reported[h], ui.pins)) = Len(reported[h]) + 1
          BY <1>2, <5>1
        <5>3. CASE h = ui.game
          <6>1. reported'[h] = Append(reported[h], ui.pins)
            BY <4>1, <5>3
          <6> QED
            BY <5>2, <5>3, <6>1
        <5>4. CASE h # ui.game
          BY <4>1, <5>2, <5>4
        <5> QED
          BY <5>3, <5>4
      <4> QED
        BY <1>2, <4>2, CountAppend
    <3> QED
      BY <1>3, <2>1, <3>1 DEF ReportsKept
  <2>5. corrections' = {} => InTurn(rolls')
    BY <1>3 DEF ReportsKept
  <2> QED
    BY <1>3, <2>2, <2>3, <2>4, <2>5 DEF ReportsKept
<1> QED
  BY <1>4, <1>5

LEMMA RecordReports ==
  ASSUME PIInv, ReportsKept, Quiet, NEW pins, NEW standing, Record(pins, standing)
  PROVE  ReportsKept'
<1> DEFINE g == view.game
           slot == NextLegalSlot(Facts(g))
<1>1. view.next # NoSlot /\ pins \in 0..Pins /\ reported' = reported
  BY DEF Record, RollLegal
<1>2. g \in Game /\ ui = Waiting
  BY <1>1 DEF PIInv, Known, Quiet
<1>3. CASE /\ RecordRoll(g, slot, pins, standing)
           /\ ui' = [at |-> "record", game |-> g, ok |-> TRUE, pins |-> pins]
           /\ unread' = unread + 1
  BY <1>1, <1>2, <1>3, RecordedReports
<1>4. CASE /\ UNCHANGED <<vars, unread>>
           /\ \/ ui' = Waiting
              \/ ui' = [at |-> "record", game |-> g, ok |-> FALSE, pins |-> pins]
  <2>1. ~(ui'.at = "record" /\ ui'.ok)
    BY <1>4 DEF Waiting
  <2> QED
    BY <1>1, <1>4, <2>1, ReportsStay DEF vars, told
<1> QED
  BY <1>3, <1>4 DEF Record, GameShown

LEMMA FixReports ==
  ASSUME PIInv, ReportsKept, NEW standing \in SUBSET Rack, FixTap(standing)
  PROVE  ReportsKept'
<1> DEFINE x == CHOOSE y \in rolls : y.id = target
           pins == Cardinality(OfferedRack) - Cardinality(standing)
<1>1. /\ UNCHANGED told /\ ui'.at = "fix"
  BY DEF FixTap
<1>2. CASE UNCHANGED vars
  BY <1>1, <1>2, ReportsStay DEF vars
<1>3. CASE \E then : CorrectRoll(x, pins, then)
  <2>1. PICK then : CorrectRoll(x, pins, then)
    BY <1>3
  <2>2. corrections' # {}
    BY <2>1 DEF CorrectRoll, Audit
  <2>3. PICK z \in rolls : \E r : rolls' = (rolls \ {z}) \cup {r} /\ r.id = z.id
    <3>1. rolls' = rolls \/ \E z \in rolls : \E r : rolls' = (rolls \ {z}) \cup {r} /\ r.id = z.id
      BY FixTapStep
    <3>2. PICK v \in view.rolls : v.id = target
      BY DEF FixTap, PadShown, ActiveSlot
    <3>3. \E y \in rolls : y.id = target
      BY <3>2 DEF PIInv, Known
    <3> QED
      BY <3>1, <3>3
  <2>4. PICK r : rolls' = (rolls \ {z}) \cup {r} /\ r.id = z.id
    BY <2>3
  <2>5. IsFiniteSet(rolls) /\ \A y \in rolls : y.id = z.id => y = z
    BY <2>3 DEF PIInv, IInv, BooksKept, Books, Numbered
  <2>6. Cardinality(rolls') = Cardinality(rolls)
    <3> DEFINE S == rolls \ {z}
    <3>1. IsFiniteSet(S) /\ Cardinality(S) = Cardinality(rolls) - 1
      BY <2>3, <2>5, FS_RemoveElement
    <3>2. r \notin S
      BY <2>4, <2>5
    <3>3. Cardinality(S \cup {r}) = Cardinality(S) + 1
      BY <3>1, <3>2, FS_AddElement
    <3>4. Cardinality(rolls) \in Nat
      BY <2>5, FS_CardinalityType
    <3> QED
      BY <2>4, <3>1, <3>3, <3>4
  <2>7. /\ Recorded' = 0 /\ reported' = reported /\ unread' = unread
        /\ reported \in [Game -> Seq(0..Pins)] /\ unread \in Nat
        /\ Cardinality(rolls) = CountOf(reported) + unread
    BY <1>1 DEF Recorded, told, ReportsKept
  <2> QED
    BY <2>2, <2>6, <2>7 DEF ReportsKept
<1> QED
  BY <1>2, <1>3 DEF FixTap, CorrectRollWithStanding

LEMMA ReportsStep ==
  ASSUME PIInv, ReportsKept, PNext
  PROVE  ReportsKept'
<1>1. CASE \E o \in Reading : AfterRecord(o)
  BY <1>1, AfterRecordReports
<1>2. CASE \E standing \in SUBSET Rack : BallTap(standing)
  BY <1>2, RecordReports DEF BallTap
<1>3. CASE \E pins \in 0..Pins : CountTap(pins)
  BY <1>3, RecordReports DEF CountTap
<1>4. CASE \E standing \in SUBSET Rack : FixTap(standing)
  BY <1>4, FixReports
<1>5. CASE \/ \E o \in Reading :
                \/ Effect(o) \/ SaveGame(o)
                \/ \E g \in Game : OpenGame(g, o)
                \/ GoHome(o) \/ AfterDiscard(o)
                \/ AfterStart(o) \/ AfterFix(o)
           \/ Republish \/ ResumeGame
           \/ EnterFix \/ CancelFix
           \/ \E v \in view.rolls : PickBall(v)
  <2>1. UNCHANGED <<vars, told>> /\ (ui' = ui \/ ui' = Waiting)
    BY <1>5 DEF Effect, SaveGame, OpenGame, GoHome, AfterDiscard, AfterStart, AfterFix,
       Republish, ResumeGame, EnterFix, CancelFix, PickBall
  <2>2. ui' = ui \/ ~(ui'.at = "record" /\ ui'.ok)
    BY <2>1 DEF Waiting
  <2> QED
    BY <2>1, <2>2, ReportsStay DEF vars
<1>6. CASE \E g \in Game : NewGame(g) \/ DiscardTap(g)
  <2>1. UNCHANGED <<rolls, corrections, told>> /\ ui'.at # "record"
    BY <1>6 DEF NewGame, DiscardTap, StartGame, Discard
  <2> QED
    BY <2>1, ReportsStay
<1>7. CASE CreateFrame
  BY <1>7, ReportsStay DEF CreateFrame, StartFrame
<1>8. CASE FixStanding
  <2>1. rolls' = rolls /\ UNCHANGED <<ui, told>> /\ corrections \subseteq corrections'
    BY <1>8 DEF FixStanding, SaveStanding, AddPinDetail, CorrectPinDetail, Audit
  <2> QED
    BY <2>1, ReportsStay
<1>9. CASE WriteFails \/ Restart
  <2>1. UNCHANGED <<rolls, corrections, told>>
    BY <1>9 DEF WriteFails, Interrupt, Restart, store
  <2>2. ui'.at # "record"
    <3>1. CASE ui.at = "fix" /\ ui' = [ui EXCEPT !.ok = FALSE]
      <4>1. ui \in [at: {"fix"}, game: Game, ok: BOOLEAN]
        BY <3>1 DEF PIInv, Handler, Waiting
      <4> QED
        BY <3>1, <4>1
    <3>2. CASE ui' = Waiting
      BY <3>2 DEF Waiting
    <3> QED
      BY <1>9, <3>1, <3>2 DEF WriteFails, Restart
  <2> QED
    BY <2>1, <2>2, ReportsStay
<1> QED
  BY <1>1, <1>2, <1>3, <1>4, <1>5, <1>6, <1>7, <1>8, <1>9 DEF PNext

LEMMA ReportsInit == ASSUME PInit PROVE ReportsKept
<1>1. /\ rolls = {} /\ reported = [g \in Game |-> <<>>] /\ unread = 0 /\ ui = Waiting
  BY DEF PInit, Init
<1>2. Recorded = 0
  BY <1>1 DEF Recorded, Waiting
<1>3. \A g \in Game : BallsIn(rolls, g) = {}
  BY <1>1 DEF BallsIn
<1>4. \A g \in Game : FlattenSeq(Lines(BallsIn(rolls, g))) = reported[g]
  BY <1>1, <1>3, NoLines
<1>5. InTurn(rolls)
  BY <1>1 DEF InTurn
<1>6. Cardinality(rolls) = CountOf(reported) + unread
  BY <1>1, CountEmpty, FS_EmptySet
<1>7. reported \in [Game -> Seq(0..Pins)]
  BY <1>1
<1> QED
  BY <1>1, <1>2, <1>4, <1>5, <1>6, <1>7 DEF ReportsKept

\* The bowler is told the truth: while no word was lost and nothing was
\* corrected, what recordRoll reported for a game are its balls in order; and
\* every ball is either reported or among those whose word was lost.
THEOREM ReportsTold == PSpec => []ReportsAreTrue
<1>1. PInit => ReportsKept
  BY ReportsInit
<1>2. PIInv /\ ReportsKept /\ [PNext]_pvars => ReportsKept'
  <2>1. CASE PIInv /\ ReportsKept /\ PNext
    BY <2>1, ReportsStep
  <2>2. CASE ReportsKept /\ UNCHANGED pvars
    BY <2>2, ReportsStay DEF pvars, vars
  <2> QED
    BY <2>1, <2>2
<1>3. PIInv /\ ReportsKept => ReportsAreTrue
  <2> SUFFICES ASSUME PIInv, ReportsKept
               PROVE  ReportsAreTrue
    OBVIOUS
  <2>1. ASSUME NEW g \in Game, unread = 0, corrections = {}
        PROVE  FlattenSeq(Lines(Facts(g))) = reported[g]
    <3>1. Recorded = 0
      BY <2>1 DEF ReportsKept, Recorded
    <3>2. FlattenSeq(Lines(BallsIn(rolls, g))) = reported[g]
      BY <2>1, <3>1 DEF ReportsKept
    <3> QED
      BY <3>2, FactsAreAll
  <2>2. Cardinality(rolls) = CountOf(reported) + unread
    BY DEF ReportsKept
  <2> QED
    BY <2>1, <2>2 DEF ReportsAreTrue, CountOf
<1> QED
  BY <1>1, <1>2, <1>3, PanelInvariance, PTL DEF PSpec

=============================================================================

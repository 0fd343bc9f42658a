--------------------------- MODULE ScoringSession ---------------------------
(***************************************************************************)
(* The scoring operations of one device (src/scoring/session.ts) over its  *)
(* SQLite store: games, frames, rolls, pin detail, the correction audit    *)
(* and the outbox.  A step is one committed transaction of                 *)
(* applyLocalMutations or applyCorrection; an operation made of several    *)
(* can be cut short between two of them.  A roll of another device may     *)
(* arrive by a pull.                                                       *)
(***************************************************************************)
EXTENDS GameAnalysis

CONSTANTS
  MaxGames,    \* bound: games ever started
  MaxRemote,   \* bound: rolls pulled from another device
  MaxEdits,    \* bound: PinStates, corrections and pulled rolls together
  MaxWork     \* bound: these and the balls of this device together

ASSUME SessionAssumption ==
  MaxGames \in Nat /\ MaxRemote \in Nat /\ MaxEdits \in Nat /\ MaxWork \in Nat

VARIABLES
  games,        \* game id -> "none", "live" or "archived"
  frames,       \* game id -> the frame numbers with a live Frame
  rolls,        \* Roll rows: [id, game, frame, roll, pins, version, own]
  details,      \* PinState rows: [id, roll, standing, basis, version, deleted]
  corrections,  \* correction records: [key, prior, from, to]
  outbox,       \* outbox entries: [key, op, expected, value]
  busy          \* the operation between two of its transactions

store == <<games, frames, rolls, details, corrections, outbox>>
vars == <<games, frames, rolls, details, corrections, outbox, busy>>

Game == 1..MaxGames
Idle == [op |-> "idle"]

\* What a payload or a correction says of an entity.
Value(pins, standing) == [pins |-> pins, standing |-> standing]
NoValue == Value(Null, NoSet)

GameKey(g) == <<"Game", g>>
FrameKey(g, f) == <<"Frame", g, f>>
RollKey(i) == <<"Roll", i>>
DetailKey(i) == <<"PinState", i>>

Entry(key, op, expected, value) ==
  [key |-> key, op |-> op, expected |-> expected, value |-> value]

Init ==
  /\ games = [g \in Game |-> "none"]
  /\ frames = [g \in Game |-> {}]
  /\ rolls = {} /\ details = {} /\ corrections = {} /\ outbox = {}
  /\ busy = Idle

(******************************* reading ***********************************)

\* loadGameFacts
Facts(g) == {x \in rolls : x.game = g /\ x.frame \in frames[g]}

ActiveDetails(x) == {d \in details : d.roll = x.id /\ ~d.deleted}
Detail(x) == CHOOSE d \in ActiveDetails(x) : TRUE

\* priorStandingForSlot: the standing pins recorded for the ball before.
PriorStanding(facts, f, r) ==
  LET previous == {x \in facts : x.frame = f /\ x.roll = r - 1}
      x == CHOOSE y \in previous : TRUE
  IN  IF FreshRack(facts, f, r) \/ previous = {} \/ ActiveDetails(x) = {} THEN NoSet
      ELSE IF Detail(x).basis = x.version THEN Detail(x).standing ELSE NoSet

Fits(facts, f, r, pins, standing) ==
  DetailFits(pins, standing, RemainingBefore(facts, f, r), PriorStanding(facts, f, r))

\* classifyPinDetail, with rackOkFor.
DetailStatus_Fault(facts, x) ==
  IF ActiveDetails(x) = {} THEN "NOT_RECORDED"
  ELSE IF Fits(facts, x.frame, x.roll, x.pins, Detail(x).standing) THEN "EFFECTIVE"
  ELSE IF Detail(x).basis # x.version THEN "STALE_DETAIL" ELSE "EFFECTIVE"

DetailStatus(facts, x) ==
  IF ActiveDetails(x) = {} THEN "NOT_RECORDED"
  ELSE IF Cardinality(ActiveDetails(x)) > 1 THEN "CONFLICTING_DETAIL"
  ELSE IF Detail(x).basis # x.version THEN "STALE_DETAIL"
  ELSE IF Fits(facts, x.frame, x.roll, x.pins, Detail(x).standing)
       THEN "EFFECTIVE" ELSE "INVALID_OBSERVATION"

\* The rolls of loadScoringView.
Views(g) ==
  LET view(x) == [id |-> x.id, frame |-> x.frame, roll |-> x.roll, pins |-> x.pins,
                  version |-> x.version,
                  standing |-> IF ActiveDetails(x) = {} THEN NoSet ELSE Detail(x).standing,
                  basis |-> IF ActiveDetails(x) = {} THEN Null ELSE Detail(x).basis,
                  status |-> DetailStatus(Facts(g), x)]
  IN  {view(x) : x \in Facts(g)}

\* recordRoll would accept this ball at the next slot.
Accepts(g, slot, pins, standing) ==
  /\ slot # NoSlot
  /\ slot.frame \in frames[g]    \* frameIdFor throws otherwise
  /\ standing # NoSet => Fits(Facts(g), slot.frame, slot.roll, pins, standing)
  /\ RollLegal(Facts(g), slot, pins)

(************************* creating and discarding *************************)

\* startGame: the Game, then a transaction for each Frame.
StartGame(g) ==
  /\ busy = Idle
  /\ games[g] = "none"
  /\ \A h \in 1..(g - 1) : games[h] # "none"
  /\ games' = [games EXCEPT ![g] = "live"]
  /\ outbox' = outbox \cup {Entry(GameKey(g), "CREATE", 0, NoValue)}
  /\ busy' = [op |-> "start", game |-> g]
  /\ UNCHANGED <<frames, rolls, details, corrections>>

StartFrame ==
  /\ busy.op = "start"
  /\ LET g == busy.game
         f == Cardinality(frames[g]) + 1
     IN  /\ frames' = [frames EXCEPT ![g] = @ \cup {f}]
         /\ outbox' = outbox \cup {Entry(FrameKey(g, f), "CREATE", 0, NoValue)}
         /\ busy' = IF f = FrameCount THEN Idle ELSE busy
  /\ UNCHANGED <<games, rolls, details, corrections>>

\* discardEmptyGame: one transaction over the frames and the game.
DiscardGuard_Fault(g) == games[g] = "live"

DiscardGuard(g) == games[g] = "live" /\ Facts(g) = {}

Discard(g) ==
  /\ busy = Idle
  /\ DiscardGuard(g)
  /\ games' = [games EXCEPT ![g] = "archived"]
  /\ frames' = [frames EXCEPT ![g] = {}]
  /\ outbox' = outbox \cup {Entry(GameKey(g), "DELETE", 1, NoValue)}
                      \cup {Entry(FrameKey(g, f), "DELETE", 1, NoValue) : f \in frames[g]}
  /\ UNCHANGED <<rolls, details, corrections, busy>>

(******************************* balls *************************************)

NewDetail_Fault(x, standing) ==
  [id |-> Cardinality(details) + 1, roll |-> x.id, standing |-> standing,
   basis |-> x.version - 1, version |-> 1, deleted |-> FALSE]

NewDetail(x, standing) ==
  [id |-> Cardinality(details) + 1, roll |-> x.id, standing |-> standing,
   basis |-> x.version, version |-> 1, deleted |-> FALSE]

\* recordRoll: the Roll and, when the standing pins are known, its PinState.
RecordRoll(g, slot, pins, standing) ==
  LET x == [id |-> Cardinality(rolls) + 1, game |-> g, frame |-> slot.frame,
            roll |-> slot.roll, pins |-> pins, version |-> 1, own |-> TRUE]
      d == NewDetail(x, standing)
  IN  /\ busy = Idle
      /\ Accepts(g, slot, pins, standing)
      /\ rolls' = rolls \cup {x}
      /\ details' = IF standing = NoSet THEN details ELSE details \cup {d}
      /\ outbox' = outbox \cup {Entry(RollKey(x.id), "CREATE", 0, Value(pins, NoSet))}
                   \cup (IF standing = NoSet THEN {}
                         ELSE {Entry(DetailKey(d.id), "CREATE", 0, Value(Null, standing))})
      /\ UNCHANGED <<games, frames, corrections, busy>>

\* applyCorrection: the audit record, the entity and the outbox entry.
Audit_Fault(key, version, from, to) ==
  /\ corrections' = corrections \cup {[key |-> key, prior |-> version, from |-> to, to |-> to]}
  /\ outbox' = outbox \cup {Entry(key, "CORRECT", version, to)}

AuditVersion_Fault(key, version, from, to) ==
  /\ corrections' = corrections \cup {[key |-> key, prior |-> version, from |-> from, to |-> to]}
  /\ outbox' = outbox \cup {Entry(key, "CORRECT", version + 1, to)}

Audit(key, version, from, to) ==
  /\ corrections' = corrections \cup {[key |-> key, prior |-> version, from |-> from, to |-> to]}
  /\ outbox' = outbox \cup {Entry(key, "CORRECT", version, to)}

\* correctRoll; then is what its caller does next.
CorrectRoll(x, pins, then) ==
  /\ busy = Idle
  /\ rolls' = (rolls \ {x}) \cup {[x EXCEPT !.pins = pins, !.version = @ + 1]}
  /\ Audit(RollKey(x.id), x.version, Value(x.pins, NoSet), Value(pins, NoSet))
  /\ busy' = then
  /\ UNCHANGED <<games, frames, details>>

\* correctRollWithStanding: its first transaction, then SaveStanding.  With a
\* standing that the second one refuses it does what CorrectRoll does.
CorrectRollWithStanding(x, pins, standing) ==
  /\ CorrectRoll(x, pins, [op |-> "standing", roll |-> x.id, standing |-> standing])
  /\ Fits(Facts(x.game), x.frame, x.roll, pins, standing)

(****************************** pin detail *********************************)

AddPinDetail(x, standing) ==
  /\ ActiveDetails(x) = {}
  /\ x \in Facts(x.game)
  /\ Fits(Facts(x.game), x.frame, x.roll, x.pins, standing)
  /\ details' = details \cup {NewDetail(x, standing)}
  /\ outbox' = outbox \cup {Entry(DetailKey(NewDetail(x, standing).id), "CREATE", 0,
                                  Value(Null, standing))}
  /\ UNCHANGED <<games, frames, rolls, corrections>>

CorrectPinDetail(x, standing) ==
  /\ ActiveDetails(x) # {}
  /\ x \in Facts(x.game)
  /\ Fits(Facts(x.game), x.frame, x.roll, x.pins, standing)
  /\ LET d == Detail(x)
     IN  /\ details' = (details \ {d}) \cup
              {[d EXCEPT !.standing = standing, !.basis = x.version, !.version = @ + 1]}
         /\ Audit(DetailKey(d.id), d.version, Value(Null, d.standing), Value(Null, standing))
  /\ UNCHANGED <<games, frames, rolls>>

\* A user's change of pin detail alone.
ChangeDetail(x, standing) ==
  /\ busy = Idle
  /\ AddPinDetail(x, standing) \/ CorrectPinDetail(x, standing)
  /\ UNCHANGED busy

\* The second transaction of correctRollWithStanding.
SaveStanding ==
  /\ busy.op = "standing"
  /\ LET x == CHOOSE y \in rolls : y.id = busy.roll
     IN  AddPinDetail(x, busy.standing) \/ CorrectPinDetail(x, busy.standing)
  /\ busy' = Idle

RemovePinDetail(x) ==
  /\ busy = Idle
  /\ ActiveDetails(x) # {}
  /\ LET d == Detail(x)
     IN  /\ details' = (details \ {d}) \cup {[d EXCEPT !.deleted = TRUE, !.version = @ + 1]}
         /\ outbox' = outbox \cup {Entry(DetailKey(d.id), "DELETE", d.version, NoValue)}
  /\ UNCHANGED <<games, frames, rolls, corrections, busy>>

(**************************** the environment ******************************)

\* The process dies, or a transaction or a check fails, between two
\* transactions of one operation: the rest of it never happens.
Interrupt ==
  /\ busy # Idle
  /\ busy' = Idle
  /\ UNCHANGED store

\* A pull applies a roll that another device recorded when it knew only the
\* first balls of this game.
ReceiveRoll(g) ==
  /\ busy = Idle
  /\ games[g] # "none"
  /\ \E last \in 0..Cardinality(rolls), pins \in 0..Pins :
       LET seen == {x \in rolls : x.game = g /\ x.id <= last}
       IN \E slot \in {NextLegalSlot(seen)} :
           /\ slot # NoSlot
           /\ RollLegal(seen, slot, pins)
           /\ games[g] = "live" => slot.frame \in frames[g]
           /\ rolls' = rolls \cup
                {[id |-> Cardinality(rolls) + 1, game |-> g, frame |-> slot.frame,
                  roll |-> slot.roll, pins |-> pins, version |-> 1, own |-> FALSE]}
  /\ UNCHANGED <<games, frames, details, corrections, outbox, busy>>

(* Bounds: another PinState, correction or pulled roll may follow, and the  *)
(* PinStates and corrections of a run are all about one frame, or about a  *)
(* pulled roll.                                                            *)
Remote == {x \in rolls : ~x.own}
Edited == {x \in rolls : x.version > 1 \/ \E d \in details : d.roll = x.id}
Edits == Cardinality(details) + Cardinality(corrections) + Cardinality(Remote)
MoreWork == Edits + Cardinality(rolls \ Remote) < MaxWork
MoreEdits(f) ==
  /\ Edits < MaxEdits /\ MoreWork
  /\ \A y \in Edited : y.frame = f
Editable(x) == MoreEdits(x.frame) /\ (x.own => Remote = {})

Next ==
  \/ \E g \in Game : StartGame(g) \/ Discard(g)
  \/ \E g \in Game : /\ details = {} /\ corrections = {} /\ Cardinality(Remote) < MaxRemote
                      /\ ReceiveRoll(g)
  \/ StartFrame \/ SaveStanding \/ Interrupt
  \/ \E g \in Game : \E slot \in {NextLegalSlot(Facts(g))} :
       \E pins \in 0..Pins, standing \in (SUBSET Rack) \cup {NoSet} :
         /\ MoreWork
         /\ standing # NoSet => MoreEdits(slot.frame) /\ Remote = {}
         /\ RecordRoll(g, slot, pins, standing)
  \/ \E x \in rolls : Editable(x) /\ \E pins \in 0..Pins :
       \/ CorrectRoll(x, pins, Idle)
       \/ \E standing \in SUBSET Rack : CorrectRollWithStanding(x, pins, standing)
  \/ \E x \in rolls, standing \in SUBSET Rack : Editable(x) /\ ChangeDetail(x, standing)
  \/ \E x \in rolls : RemovePinDetail(x)

Spec == Init /\ [][Next]_vars

(******************************* properties ********************************)

\* The shape of every row and of the operation under way.
TypeOK ==
  /\ games \in [Game -> {"none", "live", "archived"}]
  /\ frames \in [Game -> SUBSET Frames]
  /\ rolls \subseteq [id: Nat, game: Game, frame: Frames, roll: 1..3, pins: 0..Pins,
                      version: Nat \ {0}, own: BOOLEAN]
  /\ details \subseteq [id: Nat, roll: Nat, standing: SUBSET Rack, basis: Nat \ {0},
                        version: Nat \ {0}, deleted: BOOLEAN]
  /\ busy.op \in {"idle", "start", "standing"}

Started(g) == games[g] = "live" /\ frames[g] = Frames
Sheet(g) == DeriveGame(Facts(g))

\* The balls of a game are those of some game bowled ball by ball under
\* validateNextRoll.
Playable(facts) ==
  /\ \A x, y \in facts : x.frame = y.frame /\ x.roll = y.roll => x = y
  /\ \A x \in facts :
       LET slot == [frame |-> x.frame, roll |-> x.roll]
           earlier == {y \in facts : y.frame < x.frame \/ (y.frame = x.frame /\ y.roll < x.roll)}
       IN  NextLegalSlot(earlier) = slot /\ RollLegal(earlier, slot, x.pins)

\* The bowler is never stuck: a fully created game that is neither complete
\* nor in need of repair has a next slot, and recordRoll takes some ball
\* there.  Four functions must agree for this: frameComplete, nextLegalSlot,
\* frameTopologyIllegal and validateNextRoll.
NoDeadEnd ==
  \A g \in Game : Started(g) =>
    \/ Status(Facts(g)) \in {"COMPLETED", "DOMAIN_INVALID_REQUIRING_REPAIR"}
    \/ \E pins \in 0..Pins : Accepts(g, NextLegalSlot(Facts(g)), pins, NoSet)

\* The rules of bowling, ball by ball: every ball counts once, and once more
\* for each mark before the last frame that it follows closely enough, two
\* balls for a strike and one for a spare.
Later(x, y) == y.frame > x.frame \/ (y.frame = x.frame /\ y.roll > x.roll)
Draws(facts, x, n) ==
  {y \in facts : Later(x, y) /\ Cardinality({z \in facts : Later(x, z) /\ Later(z, y)}) < n}
Strikes(facts) == {x \in facts : x.frame < FrameCount /\ x.roll = 1 /\ x.pins = Pins}
Spares(facts) ==
  {x \in facts : /\ x.frame < FrameCount /\ x.roll = 2
                 /\ Ball(facts, x.frame, 1) + x.pins = Pins}
PinsOf(S) == LET pins(x) == x.pins IN Sum(S, pins)
ScoreByTheRules(facts, f) ==
  LET upTo(S) == {x \in S : x.frame <= f}
      two(x) == PinsOf(Draws(facts, x, 2))
      one(x) == PinsOf(Draws(facts, x, 1))
  IN  PinsOf(upTo(facts)) + Sum(upTo(Strikes(facts)), two) + Sum(upTo(Spares(facts)), one)

\* deriveGame scores the balls of a game as the rules of bowling do, the games
\* that a correction left with a gap included: the total of every frame
\* reached through resolved frames, and the final one.
ScoreFollowsTheRules ==
  \A g \in Game : \A facts \in {Facts(g)} :
    \A sheet \in {DeriveGame(facts)} :
      /\ \A f \in Frames :
           (\A e \in 1..f : sheet.frames[e].resolved) =>
             sheet.totals[f] = ScoreByTheRules(facts, f)
      /\ sheet.status = "COMPLETED" => sheet.final = ScoreByTheRules(facts, FrameCount)

\* What is shown as settled stays settled while the bowler bowls on: a new
\* ball changes neither a resolved frame nor a total that rests on resolved
\* frames only.
Settled(before, after) ==
  \A f \in Frames : before.frames[f].resolved =>
    /\ after.frames[f] = before.frames[f]
    /\ (\A e \in 1..f : before.frames[e].resolved) => after.totals[f] = before.totals[f]

ResolvedFramesStand ==
  [][\A g \in Game :
       /\ rolls' # rolls /\ corrections' = corrections
       /\ games[g] = "live" /\ games'[g] = "live"
       => \A old \in {Facts(g)}, new \in {Facts(g)'} :
            Playable(old) /\ Playable(new) => Settled(DeriveGame(old), DeriveGame(new))]_vars

\* A game that a correction or a pulled roll made impossible to have been
\* bowled is not shown as complete (validate.ts:24-27, ADR-003 section 15).
CompletedGamesArePlayable ==
  \A g \in Game : Status(Facts(g)) = "COMPLETED" => Playable(Facts(g))

\* The ball before x in its frame has detail proven not to fit its rack.
AfterInvalid(g, f, r) ==
  \E y \in Facts(g) : /\ y.frame = f /\ y.roll = r - 1
                      /\ DetailStatus(Facts(g), y) = "INVALID_OBSERVATION"

\* Detail shown as recorded counts every pin of the rack its ball met,
\* whatever was corrected before, after, or half-way through a correction of
\* both, unless the game needs repair or the detail of the ball before it is
\* itself proven invalid.
EffectiveDetailFitsRack ==
  \A g \in Game : Status(Facts(g)) # "DOMAIN_INVALID_REQUIRING_REPAIR" => \A x \in Facts(g) :
    DetailStatus(Facts(g), x) = "EFFECTIVE" /\ ~AfterInvalid(g, x.frame, x.roll) =>
      x.pins + Cardinality(Detail(x).standing) = RemainingBefore(Facts(g), x.frame, x.roll)

\* Every ball the panel can offer is one that recordRoll takes: for the next
\* slot, any part of the offered rack may be left standing.  The two sides
\* (resolveCaptureRack, priorStandingForSlot) read the ball before
\* differently, which shows when its detail is proven invalid.
OfferedBallsAreAccepted ==
  \A g \in Game :
    LET slot == NextLegalSlot(Facts(g))
        offered == CaptureRack(Views(g), slot.frame, slot.roll)
    IN  /\ Started(g) /\ slot # NoSlot
        /\ ~AfterInvalid(g, slot.frame, slot.roll) /\ offered # NoSet
        => \A standing \in SUBSET offered :
             Accepts(g, slot, Cardinality(offered) - Cardinality(standing), standing)

Entries(key) == {e \in outbox : e.key = key}
Rows == {[key |-> RollKey(x.id), first |-> IF x.own THEN 0 ELSE 1, version |-> x.version,
          value |-> Value(x.pins, NoSet), deleted |-> FALSE] : x \in rolls}
        \cup {[key |-> DetailKey(d.id), first |-> 0, version |-> d.version,
               value |-> Value(Null, d.standing), deleted |-> d.deleted] : d \in details}

\* The server can be brought to the device's state: the outbox holds exactly
\* one entry for each version a row went through on this device, and the
\* last one that carries a value carries the row's.
OutboxReplaysToRows ==
  \A row \in Rows :
    LET last == row.version - (IF row.deleted THEN 2 ELSE 1)
    IN  /\ {e.expected : e \in Entries(row.key)} = row.first..(row.version - 1)
        /\ Cardinality(Entries(row.key)) = row.version - row.first
        /\ \A e \in Entries(row.key) : e.expected = last => e.value = row.value
        /\ \A e \in Entries(row.key) : e.op = "DELETE" <=> e.expected > last

\* What was first observed stays traceable: the corrections of a row form one
\* chain from the value it was created with to the value it has.
CorrectionsFormAChain ==
  \A row \in Rows :
    LET of == {c \in corrections : c.key = row.key}
        after(c, value) == \E d \in of : d.prior = c.prior + 1 /\ d.from = value
    IN  /\ \A e \in Entries(row.key) : e.op = "CREATE" =>
             (\E c \in of : c.prior = 1 /\ c.from = e.value) \/ (of = {} /\ row.value = e.value)
        /\ \A c \in of : after(c, c.to) \/ (c.to = row.value /\ \A d \in of : d.prior <= c.prior)

\* Discarding never hides a ball of this device, and never leaves a frame of
\* the discarded game behind, even if creating the game was cut short.
DiscardKeepsBalls ==
  \A g \in Game : games[g] = "archived" =>
    /\ ~\E x \in rolls : x.game = g /\ x.own
    /\ \A f \in Frames : Entry(FrameKey(g, f), "CREATE", 0, NoValue) \in outbox =>
                           Entry(FrameKey(g, f), "DELETE", 1, NoValue) \in outbox

\* The passes over the games agree with each other: the history with its
\* totals (session.ts, shellPresentation.ts) has the games that the analysis
\* counts, with at least the pins it counts; and the score sheet (derive.ts),
\* the per-game analysis (analysis.ts) and the focus areas
\* (shellPresentation.ts) count the same strikes, spares, chances and leaves.
TotalsAgree(history) ==
  LET set == GameSet(history)
      eligible == {g \in Game : games[g] = "live" /\ AnalyzeGame(Status(Facts(g)), {}).eligible}
      knocked(g) == PinsOf(Facts(g))
  IN  /\ {e.game : e \in Qualifying(history)} = eligible
      /\ eligible # {} =>
           /\ HomeMetrics(history).overall = [pins |-> set.totalPins, games |-> set.games]
           /\ set.totalPins \in (set.low * set.games)..(set.high * set.games)
           /\ set.totalPins >= Sum(eligible, knocked)

PassesAgree(sheet, analysis, focus) ==
  LET early == 1..(FrameCount - 1)
      first == analysis.firstBall
      leaves == analysis.leaves
      spares == analysis.spares
      rows == LeaveRows(leaves, spares)
      is(S, kind) == Cardinality({f \in S : sheet[f][kind]})
  IN  /\ first.denominator = FrameCount /\ first.strikes = is(Frames, "strike")
      /\ focus.firstBall.hits = first.strikes
      /\ focus.fill.hits = is(Frames, "strike") + is(Frames, "spare")
      /\ focus.doubles.chances = is(early, "strike")
      /\ spares.conversions = is(early, "spare")
      /\ spares.opportunities = is(early, "spare") + is(early, "open")
      /\ focus.spares = [hits |-> spares.conversions, chances |-> spares.opportunities]
      /\ focus.missingDetail = spares.missing
      /\ focus.singlePin.chances = SparePinSplit(spares, TRUE).opportunities
      /\ focus.multiPin.hits = SparePinSplit(spares, FALSE).conversions
      /\ leaves.recorded + leaves.missing + leaves.empty = FrameCount
      /\ \A s \in DOMAIN rows : rows[s].pickedUp <= rows[s].chances
                                /\ rows[s].chances <= rows[s].faced

AnalysesAgree ==
  /\ \A history \in {{HistoryEntry(g, Facts(g)) : g \in {h \in Game : games[h] = "live"}}} :
       TotalsAgree(history)
  /\ \A g \in Game : AnalyzeGame(Status(Facts(g)), {}).eligible =>
       \A views \in {Views(g)}, sheet \in {Sheet(g)} :
         \A analysis \in {AnalyzeGame("COMPLETED", views)}, focus \in {FocusOf(views, 2)} :
           PassesAgree(sheet.frames, analysis, focus)

=============================================================================

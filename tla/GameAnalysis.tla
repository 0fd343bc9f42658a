---------------------------- MODULE GameAnalysis ----------------------------
(***************************************************************************)
(* What the app computes from the recorded balls of a game without storing *)
(* it: src/scoring/analysis.ts, the history of src/scoring/session.ts, and *)
(* the focus areas, totals, strike and spare controls of                   *)
(* src/shellPresentation.ts.  Totals are those of games of one day; a mean *)
(* is kept as its sum and count, before rounding.                          *)
(*                                                                         *)
(* A view is a ball as loadScoringView shows it: [id, frame, roll, pins,   *)
(* version, standing, basis, status].  A rate is kept as its two counts.   *)
(***************************************************************************)
EXTENDS Scoring

Has(S, f, r) == \E v \in S : v.frame = f /\ v.roll = r
At(S, f, r) == CHOOSE v \in S : v.frame = f /\ v.roll = r

Openings(views) == {v \in views : v.roll = 1}
Detailed(v) == v.standing # NoSet /\ v.standing # {}

AnalyzeFirstBall(views) ==
  LET pins(v) == v.pins
  IN  [denominator |-> Cardinality(Openings(views)),
       strikes |-> Cardinality({v \in Openings(views) : v.pins = Pins}),
       knocked |-> Sum(Openings(views), pins)]

\* Frequencies of the standing sets left by first balls.
AnalyzeLeaves(views) ==
  LET left == {v \in Openings(views) : Detailed(v)}
  IN  [counted |-> [s \in {v.standing : v \in left} |->
                      Cardinality({v \in left : v.standing = s})],
       recorded |-> Cardinality(left),
       missing |-> Cardinality({v \in Openings(views) : v.standing = NoSet}),
       empty |-> Cardinality({v \in Openings(views) : v.standing = {}})]

\* The first balls of frames before the tenth that left a second ball.
SpareChances_Fault(views) == {v \in Openings(views) : v.pins < Pins /\ Has(views, v.frame, 2)}

SpareChances(views) ==
  {v \in Openings(views) : v.frame < FrameCount /\ v.pins < Pins /\ Has(views, v.frame, 2)}

Converted(views, v) == v.pins + At(views, v.frame, 2).pins = Pins

AnalyzeSpares(views) ==
  LET chances == SpareChances(views)
      known == {v \in chances : Detailed(v)}
      of(s) == {v \in known : v.standing = s}
  IN  [opportunities |-> Cardinality(chances),
       conversions |-> Cardinality({v \in chances : Converted(views, v)}),
       byLeave |-> [s \in {v.standing : v \in known} |->
                      [opportunities |-> Cardinality(of(s)),
                       conversions |-> Cardinality({v \in of(s) : Converted(views, v)})]],
       missing |-> Cardinality(chances \ known)]

\* sparePinSplit: the leaves of one pin (single) or of several.
SparePinSplit(spares, single) ==
  LET leaves == {s \in DOMAIN spares.byLeave : (Cardinality(s) = 1) = single}
      opportunities(s) == spares.byLeave[s].opportunities
      conversions(s) == spares.byLeave[s].conversions
  IN  [opportunities |-> Sum(leaves, opportunities), conversions |-> Sum(leaves, conversions)]

\* leaveRows: every leave with the spare chances it gave.
LeaveRows(leaves, spares) ==
  [s \in DOMAIN leaves.counted |->
     [faced |-> leaves.counted[s],
      chances |-> IF s \in DOMAIN spares.byLeave THEN spares.byLeave[s].opportunities ELSE Null,
      pickedUp |-> IF s \in DOMAIN spares.byLeave THEN spares.byLeave[s].conversions ELSE Null]]

\* analyzeGameView: only a completed game is analysed.
AnalyzeGame(status, views) ==
  LET counted == IF status = "COMPLETED" THEN views ELSE {}
  IN  [eligible |-> status = "COMPLETED",
       exclusion |-> IF status = "COMPLETED" THEN "none"
                     ELSE IF status = "DOMAIN_INVALID_REQUIRING_REPAIR" THEN "repair"
                     ELSE "incomplete",
       firstBall |-> AnalyzeFirstBall(counted),
       leaves |-> AnalyzeLeaves(counted),
       spares |-> AnalyzeSpares(counted)]

\* computeFocusAnalysis, for the balls of one completed game.
FocusOf(views, pocketPin) ==
  LET first == Openings(views)
      strikes == {v \in first : v.pins = Pins}
      closed == {v \in first : v.pins < Pins /\ Has(views, v.frame, 2) /\ Converted(views, v)}
      chances == SpareChances(views)
      known == {v \in chances : Detailed(v)}
      single == {v \in known : Cardinality(v.standing) = 1}
      shown == {v \in first : v.standing # NoSet}
      rate(hits, of) == [hits |-> Cardinality(hits), chances |-> Cardinality(of)]
      doubled == {v \in strikes : v.frame < FrameCount}
  IN  [firstBall |-> rate(strikes, first),
       pocket |-> rate({v \in shown : {1, pocketPin} \cap v.standing = {}}, shown),
       doubles |-> rate({v \in doubled : \E w \in strikes : w.frame = v.frame + 1}, doubled),
       spares |-> rate({v \in chances : Converted(views, v)}, chances),
       singlePin |-> rate({v \in single : Converted(views, v)}, single),
       multiPin |-> rate({v \in known \ single : Converted(views, v)}, known \ single),
       missingDetail |-> Cardinality(chances \ known),
       fill |-> rate(strikes \cup closed, first)]

(************************** history and totals *****************************)

\* listGameHistoryDetailed, for one game; games are numbered as they were
\* started.
HistoryEntry(game, facts) ==
  LET final == DeriveGame(facts).final
      status == IF Status(facts) = "DOMAIN_INVALID_REQUIRING_REPAIR" THEN "repair"
                ELSE IF Status(facts) = "COMPLETED" /\ final # Null THEN "complete"
                ELSE "active"
  IN  [game |-> game, status |-> status, rollCount |-> Cardinality(facts),
       final |-> IF status = "complete" THEN final ELSE Null]

\* isQualifyingCompletedGame
Qualifying(history) == {e \in history : e.status = "complete" /\ e.final # Null}

Total(history) == LET final(e) == e.final IN Sum(Qualifying(history), final)

\* computeGameSetSummary, for a history of one day.
GameSet(history) ==
  LET finals == {e.final : e \in Qualifying(history)}
  IN  [games |-> Cardinality(Qualifying(history)), totalPins |-> Total(history),
       high |-> IF finals = {} THEN Null ELSE Max(finals),
       low |-> IF finals = {} THEN Null ELSE Min(finals)]

RollingWindow == 5

\* computeHomeMetrics, for a history within the range and one week.
HomeMetrics(history) ==
  LET completed == Qualifying(history)
      recent == {e \in completed :
                   Cardinality({d \in completed : d.game > e.game}) < RollingWindow}
      mean(S) == [pins |-> Total(S), games |-> Cardinality(S)]
  IN  [overall |-> mean(completed), rolling |-> mean(recent)]

(**************************** panel controls *******************************)

\* strikeControlEnabled: b1 and b2 are the first balls of the tenth frame.
StrikeControl(rackSize, slot, b1, b2) ==
  /\ rackSize = Pins
  /\ \/ slot.roll = 1
     \/ slot.frame = FrameCount /\ slot.roll = 2 /\ b1 = Pins
     \/ /\ slot.frame = FrameCount /\ slot.roll = 3 /\ b1 # Null /\ b2 # Null
        /\ b2 = Pins \/ b1 + b2 = Pins

SpareControl_Fault(rackSize, slot, b1, b2) ==
  rackSize \in 1..(Pins - 1) /\ ~StrikeControl(rackSize, slot, b1, b2) /\ slot.roll >= 2

SpareControl(rackSize, slot, b1, b2) ==
  /\ rackSize > 0
  /\ ~StrikeControl(rackSize, slot, b1, b2)
  /\ \/ slot.frame < FrameCount /\ slot.roll = 2
     \/ slot.frame = FrameCount /\ slot.roll = 2 /\ b1 # Null /\ b1 < Pins
     \/ slot.frame = FrameCount /\ slot.roll = 3 /\ b1 = Pins /\ b2 # Null /\ b2 < Pins

=============================================================================

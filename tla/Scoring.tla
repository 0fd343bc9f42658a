------------------------------ MODULE Scoring ------------------------------
(***************************************************************************)
(* The pure part of src/scoring: what a set of observed rolls means        *)
(* (derive.ts), which ball may come next (validate.ts, nextLegalSlot) and  *)
(* when a set of standing pins fits a ball (pinDetail.ts).                 *)
(*                                                                         *)
(* A game has FrameCount frames of which the last plays the part of the    *)
(* tenth, and a rack has Pins pins: the code's 10 and 10.  A fact is a     *)
(* record [id, frame, roll, pins, version].                                *)
(*                                                                         *)
(* A definition named X_Fault is X with a plausible bug; it is used by no  *)
(* specification and records what the properties are able to detect.       *)
(***************************************************************************)
EXTENDS Integers, Sequences, FiniteSets, SequencesExt

CONSTANTS
  FrameCount,  \* FRAME_COUNT
  Pins,        \* pins of a full rack
  NoSet        \* a standing set that is null

ASSUME ScoringAssumption == FrameCount \in Nat \ {0} /\ Pins \in Nat \ {0}

Null == -1
Frames == 1..FrameCount
Rack == 1..Pins

\* null is no list of pins.
ASSUME NoSetAssumption == \A s \in SUBSET Rack : s # NoSet

Slot == [frame: Frames, roll: 1..3]
NoSlot == [frame |-> 0, roll |-> 0]

Sum(S, Val(_)) == MapThenSumSet(Val, S)

\* s itself; TLC computes the elements of a concatenation once and for all.
Listed(s) == <<>> \o s

(************************** grouping the rolls *****************************)

InFrame(facts, f) == {x \in facts : x.frame = f}

\* orderRollFacts, inside a frame.
Precedes(x, y) == x.roll < y.roll \/ (x.roll = y.roll /\ x.id < y.id)

\* The pinfalls of a frame in the order of their balls.
Deliveries(facts, f) ==
  LET S == InFrame(facts, f)
      at(i) == CHOOSE x \in S : Cardinality({y \in S : Precedes(y, x)}) = i - 1
  IN  Listed([i \in 1..Cardinality(S) |-> at(i).pins])

\* The pinfall of a slot, Null if it holds no ball.
Ball(facts, f, r) ==
  LET S == {x \in InFrame(facts, f) : x.roll = r}
  IN  IF S = {} THEN Null ELSE (CHOOSE x \in S : \A y \in S : x.id <= y.id).pins

(**************************** legality of a set ****************************)

NumberingIllegal(facts) ==
  \/ \E x \in facts : x.frame \notin Frames \/ x.pins \notin 0..Pins
  \/ \E f \in Frames :
       LET S == InFrame(facts, f)
       IN  {x.roll : x \in S} # 1..Cardinality(S) \/ Cardinality(S) > 3

\* frameTopologyIllegal: d is what was knocked down in frame f, ball by ball.
TopologyIllegal(f, d) ==
  LET sum == d[1] + d[2]
  IN  IF f < FrameCount
      THEN \/ Len(d) > 2
           \/ Len(d) = 2 /\ (d[1] = Pins \/ sum > Pins)
      ELSE \/ Len(d) > 3
           \/ Len(d) \in {2, 3} /\ d[1] # Pins /\ (sum > Pins \/ (sum < Pins /\ Len(d) = 3))

\* d: the deliveries of every frame.
Lines(facts) == Listed([f \in Frames |-> Deliveries(facts, f)])

Illegal(facts, d) == NumberingIllegal(facts) \/ \E f \in Frames : TopologyIllegal(f, d[f])

(**************************** scoring the frames ***************************)

Strike(d) == Len(d) > 0 /\ d[1] = Pins
Spare(d) == Len(d) >= 2 /\ ~Strike(d) /\ d[1] + d[2] = Pins
Open(d) == Len(d) >= 2 /\ ~Strike(d) /\ ~Spare(d)

FrameComplete(f, d) ==
  IF f < FrameCount THEN IF Strike(d) THEN Len(d) = 1 ELSE Len(d) = 2
                    ELSE Len(d) = IF Strike(d) \/ Spare(d) THEN 3 ELSE 2

\* What a mark draws from the balls after the first one of its frame, Null
\* while they are outstanding.
Bonus_Fault(d, next) ==
  LET ball(i) == IF i <= Len(next) THEN next[i] ELSE Null
  IN  IF Strike(d) THEN ball(1) ELSE IF Spare(d) THEN ball(2) ELSE 0

Bonus(d, next) ==
  LET ball(i) == IF i <= Len(next) THEN next[i] ELSE Null
  IN  IF Strike(d) THEN IF ball(2) = Null THEN Null ELSE ball(1) + ball(2)
      ELSE IF Spare(d) THEN ball(2)
      ELSE 0

\* One element of scoreFrames.  The score of an unfinished tenth that began
\* with a strike and a fill ball is provisional.
Projection_Fault(f, d, next) ==
  LET bonus == Bonus(d, next)
      score == IF ~Strike(d) /\ Len(d) < 2 THEN Null
               ELSE IF f = FrameCount THEN d[1] + (IF Len(d) > 1 THEN d[2] ELSE 0)
                                                + (IF Len(d) > 2 THEN d[3] ELSE 0)
               ELSE IF bonus = Null THEN Null
               ELSE (IF Strike(d) THEN Pins ELSE d[1] + d[2]) + bonus
  IN  [deliveries |-> d, strike |-> Strike(d), spare |-> Spare(d), open |-> Open(d),
       score |-> score, resolved |-> score # Null]

Projection(f, d, next) ==
  LET bonus == Bonus(d, next)
      score == IF Open(d) THEN d[1] + d[2]
               ELSE IF ~Strike(d) /\ ~Spare(d) THEN Null
               ELSE IF f < FrameCount THEN IF bonus = Null THEN Null ELSE Pins + bonus
               ELSE IF Len(d) = 3 THEN Pins + d[3] + (IF Strike(d) THEN d[2] ELSE 0)
               ELSE IF Strike(d) /\ Len(d) = 2 THEN Pins + d[2]
               ELSE Null
  IN  [deliveries |-> d, strike |-> Strike(d), spare |-> Spare(d), open |-> Open(d),
       score |-> score,
       resolved |-> score # Null /\ (f = FrameCount => FrameComplete(f, d))]

\* computeRunningTotals: a frame without a score has no total, and the next
\* one goes on from the total before it.
RunningTotals(frames) ==
  LET scored(i) == {f \in 1..i : frames[f].score # Null}
      value(f) == frames[f].score
  IN  Listed([i \in Frames |-> IF frames[i].score = Null THEN Null ELSE Sum(scored(i), value)])

\* emptyGame and invalidGameFromFacts: the balls are kept, nothing is scored.
Unscored(d, status) ==
  [frames |-> [f \in Frames |-> [deliveries |-> d[f], strike |-> FALSE, spare |-> FALSE,
                                 open |-> FALSE, score |-> Null, resolved |-> FALSE]],
   totals |-> <<>>, final |-> Null, status |-> status]

StatusOf(facts, d) ==
  IF facts = {} THEN "NOT_STARTED"
  ELSE IF Illegal(facts, d) THEN "DOMAIN_INVALID_REQUIRING_REPAIR"
  ELSE IF \A f \in Frames : FrameComplete(f, d[f]) THEN "COMPLETED" ELSE "IN_PROGRESS"

Status(facts) == StatusOf(facts, Lines(facts))

DeriveGame(facts) ==
  LET d == Lines(facts)
      after(f) == LET stream == FlattenSeq([i \in 1..(FrameCount - f + 1) |-> d[f + i - 1]])
                  IN  IF stream = <<>> THEN <<>> ELSE Tail(stream)
      frames == Listed([f \in Frames |-> Projection(f, d[f], after(f))])
      totals == RunningTotals(frames)
      status == StatusOf(facts, d)
      final == IF status = "COMPLETED" /\ \A f \in Frames : frames[f].resolved
               THEN totals[FrameCount] ELSE Null
  IN  IF status \in {"NOT_STARTED", "DOMAIN_INVALID_REQUIRING_REPAIR"}
      THEN Unscored(d, status)
      ELSE [frames |-> frames, totals |-> totals, final |-> final, status |-> status]

(***************************** the next ball *******************************)

\* nextLegalSlot: the first frame that can take a ball.
NextLegalSlot_Fault(facts) ==
  LET len(f) == Len(Deliveries(facts, f))
      open == {f \in Frames : len(f) < 2}
      first == CHOOSE f \in open : \A g \in open : f <= g
  IN  IF open = {} THEN NoSlot ELSE [frame |-> first, roll |-> len(first) + 1]

NextLegalSlot(facts) ==
  LET d == Lines(facts)
      takes(f) == IF f < FrameCount THEN ~Strike(d[f]) /\ Len(d[f]) < 2
                  ELSE Len(d[f]) < 2 \/ (Len(d[f]) = 2 /\ (Strike(d[f]) \/ Spare(d[f])))
      open == {f \in Frames : takes(f)}
      first == CHOOSE f \in open : \A g \in open : f <= g
  IN  IF \/ StatusOf(facts, d) \in {"COMPLETED", "DOMAIN_INVALID_REQUIRING_REPAIR"}
         \/ open = {}
      THEN NoSlot
      ELSE [frame |-> first, roll |-> Len(d[first]) + 1]

\* validateNextRoll: may pinfall p be recorded at this slot?
RollLegal(facts, slot, p) ==
  LET rolls == {x.roll : x \in InFrame(facts, slot.frame)}
      expected == IF rolls = {} THEN 1 ELSE 1 + CHOOSE r \in rolls : \A s \in rolls : s <= r
      d == Append(Deliveries(facts, slot.frame), p)
  IN  /\ p \in 0..Pins
      /\ slot.frame \in Frames
      /\ slot.roll = expected
      /\ expected <= 3
      /\ Len(d) = 2 /\ (slot.frame < FrameCount \/ d[1] # Pins) => d[1] + d[2] <= Pins
      /\ Len(d) > 2 /\ slot.frame = FrameCount =>
           /\ d[1] = Pins \/ d[1] + d[2] = Pins
           /\ d[1] = Pins /\ d[2] < Pins => p <= Pins - d[2]
      /\ Status(facts) # "COMPLETED"

(***************************** pin detail **********************************)

\* remainingCountBeforeRoll: the pins the ball of a slot was thrown at.
RemainingBefore_Fault(facts, f, r) ==
  LET first == Ball(facts, f, 1)
      second == Ball(facts, f, 2)
  IN  IF r = 1 \/ (f = FrameCount /\ r = 3) THEN Pins
      ELSE IF first = Null THEN Null
      ELSE IF f = FrameCount /\ first = Pins THEN Pins
      ELSE Pins - first

RemainingBefore(facts, f, r) ==
  LET first == Ball(facts, f, 1)
      second == Ball(facts, f, 2)
  IN  IF r = 1 THEN Pins
      ELSE IF first = Null \/ (r = 3 /\ (f < FrameCount \/ second = Null)) THEN Null
      ELSE IF r = 2 THEN IF first < Pins THEN Pins - first
                         ELSE IF f = FrameCount THEN Pins ELSE Null
      ELSE IF first = Pins THEN IF second = Pins THEN Pins ELSE Pins - second
      ELSE IF first + second = Pins THEN Pins ELSE Null

\* The ball of a slot meets a rack that was set again, so the standing pins
\* of the ball before it say nothing (the first lines of priorStandingForSlot).
FreshRack(facts, f, r) ==
  LET first == Ball(facts, f, 1)
      second == Ball(facts, f, 2)
  IN  \/ r = 1
      \/ f = FrameCount /\ r = 2 /\ first = Pins
      \/ /\ f = FrameCount /\ r = 3
         /\ \/ first = Pins /\ second = Pins
            \/ first # Null /\ second # Null /\ first < Pins /\ first + second = Pins

\* validateAgainstKnownPrior
FitsPrior(pins, standing, prior) ==
  standing \subseteq prior /\ pins = Cardinality(prior) - Cardinality(standing)

\* validateAgainstKnownCount
FitsCount(pins, standing, remaining) ==
  remaining # Null /\ pins \in 0..remaining /\ pins + Cardinality(standing) = remaining

\* validatePinDetailForSave
DetailFits(pins, standing, remaining, prior) ==
  IF prior # NoSet THEN FitsPrior(pins, standing, prior)
                   ELSE FitsCount(pins, standing, remaining)

\* resolveCaptureRack over views [frame, roll, pins, standing, status]: the
\* pins the panel offers for a slot, NoSet if only their number is known.
CaptureRack(views, f, r) ==
  LET remaining == RemainingBefore(views, f, r)
      previous == {v \in views : v.frame = f /\ v.roll = r - 1}
      v == CHOOSE x \in previous : TRUE
  IN  IF remaining = Pins THEN Rack
      ELSE IF \/ remaining = Null \/ previous = {} \/ r = 1
           THEN NoSet
           ELSE IF v.standing # NoSet /\ v.status = "EFFECTIVE" THEN v.standing ELSE NoSet

=============================================================================

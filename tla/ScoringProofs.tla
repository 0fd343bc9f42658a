--------------------------- MODULE ScoringProofs ----------------------------
(***************************************************************************)
(* Proofs about the pure scoring rules, for every number of frames, every  *)
(* number of pins and every set of balls.                                  *)
(***************************************************************************)
EXTENDS Scoring, Induction

\* A finite set of balls as the store holds them.
Balls(facts) ==
  /\ IsFiniteSet(facts)
  /\ \A x \in facts : x.id \in Nat /\ x.frame \in Nat /\ x.roll \in Nat /\ x.pins \in Nat

\* The balls of one frame are numbered without a gap.
OneByOne(S) == IsFiniteSet(S) /\ {x.roll : x \in S} = 1..Cardinality(S)

\* A set of balls that needs no repair.
Legal(facts) ==
  /\ Balls(facts)
  /\ ~NumberingIllegal(facts)
  /\ \A f \in Frames : ~TopologyIllegal(f, Deliveries(facts, f))

(************************** the balls of one frame *************************)

LEMMA RollsDiffer ==
  ASSUME NEW S, OneByOne(S)
  PROVE  \A x, y \in S : x.roll = y.roll => x = y
<1> DEFINE n == Cardinality(S)
           T == 1..n
           f == [x \in S |-> x.roll]
<1>1. IsFiniteSet(S) /\ n \in Nat /\ {x.roll : x \in S} = T
  BY FS_CardinalityType DEF OneByOne
<1>2. Cardinality(T) = Cardinality(S)
  BY <1>1, FS_Interval
<1>3. f \in Surjection(S, T)
  BY <1>1 DEF Surjection
<1>4. f \in Injection(S, T)
  <2> HIDE DEF f, T
  <2> QED
    BY <1>1, <1>2, <1>3, FS_SurjSameCardinalityImpliesInj
<1> QED
  BY <1>4 DEF Injection, IsInjective

LEMMA RollIsPosition ==
  ASSUME NEW S, OneByOne(S), \A x \in S : x.id \in Nat, NEW x \in S
  PROVE  /\ x.roll \in 1..Cardinality(S)
         /\ Cardinality({y \in S : Precedes(y, x)}) = x.roll - 1
<1> DEFINE n == Cardinality(S)
           r == x.roll
           T == {y \in S : y.roll < r}
           U == 1..(r - 1)
           f == [y \in T |-> y.roll]
<1>1. /\ IsFiniteSet(S) /\ n \in Nat /\ r \in 1..n
      /\ \A y \in S : y.roll \in 1..n
      /\ \A i \in 1..n : \E y \in S : y.roll = i
  BY FS_CardinalityType DEF OneByOne
<1>2. \A y, z \in S : y.roll = z.roll => y = z
  BY RollsDiffer
<1>3. {y \in S : Precedes(y, x)} = T
  BY <1>1, <1>2 DEF Precedes
<1>4. f \in Bijection(T, U)
  <2>1. f \in [T -> U]
    BY <1>1
  <2>2. f \in Injection(T, U)
    BY <1>2, <2>1 DEF Injection, IsInjective
  <2>3. \A i \in U : \E y \in T : f[y] = i
    <3> SUFFICES ASSUME NEW i \in U
                 PROVE  \E y \in T : f[y] = i
      OBVIOUS
    <3>1. i \in 1..n /\ i < r
      BY <1>1
    <3>2. PICK y \in S : y.roll = i
      BY <1>1, <3>1
    <3>3. y \in T /\ f[y] = i
      BY <3>1, <3>2
    <3> QED
      BY <3>3
  <2>4. f \in Surjection(T, U)
    BY <2>1, <2>3 DEF Surjection
  <2> QED
    BY <2>2, <2>4 DEF Bijection
<1>5. ExistsBijection(T, U)
  <2> HIDE DEF f, T, U
  <2> QED
    BY <1>4 DEF ExistsBijection
<1>6. IsFiniteSet(T)
  BY <1>1, FS_Subset
<1>7. Cardinality(U) = Cardinality(T)
  <2> HIDE DEF T, U
  <2> QED
    BY <1>5, <1>6, FS_Bijection
<1>8. Cardinality(U) = r - 1
  <2> DEFINE b == r - 1
  <2>1. 1 \in Int /\ b \in Int /\ b >= 0
    BY <1>1
  <2> HIDE DEF b
  <2>2. Cardinality(1..b) = IF 1 > b THEN 0 ELSE b - 1 + 1
    BY <2>1, FS_Interval
  <2>3. Cardinality(1..b) = b
    BY <2>1, <2>2
  <2> QED
    BY <2>3 DEF b
<1> QED
  BY <1>1, <1>3, <1>7, <1>8

LEMMA ElementsOf ==
  ASSUME NEW T, NEW d \in Seq(T)
  PROVE  Len(d) \in Nat /\ \A i \in 1..Len(d) : d[i] \in T
OBVIOUS

LEMMA InSeq ==
  ASSUME NEW T, NEW d \in Seq(Nat), \A i \in 1..Len(d) : d[i] \in T
  PROVE  d \in Seq(T)
OBVIOUS

LEMMA ListedIs ==
  ASSUME NEW T, NEW s \in Seq(T)
  PROVE  Listed(s) = s
BY DEF Listed

\* The deliveries of a frame are its pinfalls, ball by ball.
LEMMA DeliveriesAre ==
  ASSUME NEW facts, NEW f, OneByOne(InFrame(facts, f)),
         \A x \in InFrame(facts, f) : x.id \in Nat /\ x.pins \in Nat
  PROVE  /\ Deliveries(facts, f) \in Seq(Nat)
         /\ Len(Deliveries(facts, f)) = Cardinality(InFrame(facts, f))
         /\ \A x \in InFrame(facts, f) : Deliveries(facts, f)[x.roll] = x.pins
<1> DEFINE S == InFrame(facts, f)
           n == Cardinality(S)
           at(i) == CHOOSE x \in S : Cardinality({y \in S : Precedes(y, x)}) = i - 1
           d == [i \in 1..n |-> at(i).pins]
<1>1. Deliveries(facts, f) = Listed(d)
  BY DEF Deliveries
<1> HIDE DEF S
<1>2. /\ n \in Nat
      /\ \A x \in S : x.roll \in 1..n
      /\ \A i \in 1..n : \E x \in S : x.roll = i
  BY FS_CardinalityType DEF OneByOne, S
<1>3. \A x \in S : Cardinality({y \in S : Precedes(y, x)}) = x.roll - 1
  BY RollIsPosition DEF S
<1>4. \A x, y \in S : x.roll = y.roll => x = y
  BY RollsDiffer DEF S
<1>5. ASSUME NEW x \in S
      PROVE  at(x.roll) = x
  <2>1. \A y \in S : Cardinality({z \in S : Precedes(z, y)}) = x.roll - 1 => y = x
    BY <1>2, <1>3, <1>4
  <2>2. Cardinality({y \in S : Precedes(y, x)}) = x.roll - 1
    BY <1>3
  <2> QED
    BY <2>1, <2>2
<1>6. \A i \in 1..n : at(i) \in S
  BY <1>2, <1>5
<1>7. d \in Seq(Nat) /\ Len(d) = n
  <2>1. \A i \in 1..n : at(i).pins \in Nat
    BY <1>6 DEF S
  <2> HIDE DEF at
  <2> QED
    BY <1>2, <2>1
<1>8. Listed(d) = d
  <2> HIDE DEF d
  <2> QED
    BY <1>7, ListedIs
<1>9. \A x \in S : d[x.roll] = x.pins
  BY <1>2, <1>5
<1> HIDE DEF d
<1> QED
  BY <1>1, <1>7, <1>8, <1>9 DEF S

(**************************** a game in good order *************************)

\* d tells the balls of frame f.
Told(facts, f, d) ==
  /\ d \in Seq(0..Pins) /\ Len(d) \in 0..3
  /\ {x.roll : x \in InFrame(facts, f)} = 1..Len(d)
  /\ \A x \in InFrame(facts, f) : x.pins = d[x.roll]
  /\ \A x, y \in InFrame(facts, f) : x.roll = y.roll => x = y
  /\ \A r : Ball(facts, f, r) = IF r \in 1..Len(d) THEN d[r] ELSE Null

\* And the frame is one that can be bowled.
Line(facts, f, d) == Told(facts, f, d) /\ ~TopologyIllegal(f, d)

LEMMA DeliveriesTell ==
  ASSUME NEW facts, Balls(facts), \A x \in facts : x.pins \in 0..Pins, NEW f,
         {x.roll : x \in InFrame(facts, f)} = 1..Cardinality(InFrame(facts, f)),
         Cardinality(InFrame(facts, f)) <= 3
  PROVE  Told(facts, f, Deliveries(facts, f))
<1> DEFINE S == InFrame(facts, f)
           d == Deliveries(facts, f)
<1>2. IsFiniteSet(S) /\ Cardinality(S) \in Nat
  <2>1. IsFiniteSet(S)
    BY FS_Subset DEF Balls, InFrame
  <2> QED
    BY <2>1, FS_CardinalityType
<1>1. /\ {x.roll : x \in S} = 1..Cardinality(S) /\ Cardinality(S) <= 3
      /\ \A x \in facts : x.pins \in 0..Pins
  OBVIOUS
<1>3. OneByOne(S)
  BY <1>1, <1>2 DEF OneByOne
<1>4. \A x \in S : x.id \in Nat /\ x.pins \in Nat /\ x.pins \in 0..Pins
  BY <1>1 DEF Balls, InFrame
<1> HIDE DEF S
<1>5. d \in Seq(Nat) /\ Len(d) = Cardinality(S) /\ \A x \in S : d[x.roll] = x.pins
  BY <1>3, <1>4, DeliveriesAre DEF S
<1>6. \A x, y \in S : x.roll = y.roll => x = y
  BY <1>3, RollsDiffer DEF S
<1> HIDE DEF d
<1>8. Len(d) \in 0..3 /\ {x.roll : x \in S} = 1..Len(d)
  BY <1>1, <1>2, <1>5
<1>9. \A i \in 1..Len(d) : \E x \in S : x.roll = i
  BY <1>8
<1>10. d \in Seq(0..Pins)
  <2>1. \A i \in 1..Len(d) : d[i] \in 0..Pins
    BY <1>4, <1>5, <1>9
  <2> QED
    BY <1>5, <2>1, InSeq
<1>11. ASSUME NEW r
       PROVE  Ball(facts, f, r) = IF r \in 1..Len(d) THEN d[r] ELSE Null
  <2> DEFINE T == {x \in S : x.roll = r}
  <2>1. Ball(facts, f, r)
          = IF T = {} THEN Null ELSE (CHOOSE x \in T : \A y \in T : x.id <= y.id).pins
    BY DEF Ball, S
  <2>2. CASE r \in 1..Len(d)
    <3>1. PICK x \in S : x.roll = r
      BY <1>9, <2>2
    <3>2. T = {x}
      BY <1>6, <3>1
    <3>3. x.id <= x.id
      BY <1>4
    <3> HIDE DEF T
    <3>4. (CHOOSE y \in T : \A z \in T : y.id <= z.id) = x
      BY <3>2, <3>3
    <3> QED
      BY <1>5, <2>1, <2>2, <3>1, <3>2, <3>4
  <2>3. CASE r \notin 1..Len(d)
    <3>1. T = {}
      BY <1>8, <2>3
    <3> QED
      BY <2>1, <2>3, <3>1
  <2> QED
    BY <2>2, <2>3
<1>12. \A x \in S : x.pins = d[x.roll]
  BY <1>5
<1> QED
  BY <1>6, <1>8, <1>10, <1>11, <1>12 DEF Told, d, S

LEMMA LegalLine ==
  ASSUME NEW facts, Legal(facts), NEW f \in Frames
  PROVE  Line(facts, f, Deliveries(facts, f))
<1> DEFINE S == InFrame(facts, f)
<1>1. IsFiniteSet(S) /\ Cardinality(S) \in Nat
  <2>1. IsFiniteSet(S)
    BY FS_Subset DEF Legal, Balls, InFrame
  <2> QED
    BY <2>1, FS_CardinalityType
<1>2. /\ {x.roll : x \in S} = 1..Cardinality(S) /\ ~(Cardinality(S) > 3)
      /\ \A x \in facts : x.pins \in 0..Pins
  BY DEF Legal, NumberingIllegal
<1>3. Told(facts, f, Deliveries(facts, f))
  BY <1>1, <1>2, DeliveriesTell DEF Legal
<1> QED
  BY <1>3 DEF Legal, Line

LEMMA TopologyMeans ==
  ASSUME NEW f \in Frames, NEW d \in Seq(0..Pins), Len(d) \in 0..3, ~TopologyIllegal(f, d)
  PROVE  /\ f < FrameCount => /\ Len(d) <= 2
                              /\ Len(d) = 2 => d[1] < Pins /\ d[1] + d[2] <= Pins
         /\ f = FrameCount => /\ Len(d) >= 2 /\ d[1] < Pins => d[1] + d[2] <= Pins
                              /\ Len(d) = 3 /\ d[1] < Pins => d[1] + d[2] = Pins
<1>1. \A i \in 1..Len(d) : d[i] \in 0..Pins
  BY ElementsOf
<1>2. CASE f < FrameCount
  <2>1. ~(Len(d) > 2) /\ ~(Len(d) = 2 /\ (d[1] = Pins \/ d[1] + d[2] > Pins))
    BY <1>2 DEF TopologyIllegal
  <2> QED
    BY <1>1, <1>2, <2>1, ScoringAssumption
<1>3. CASE f = FrameCount
  <2>1. ~(/\ Len(d) \in {2, 3} /\ d[1] # Pins
          /\ (d[1] + d[2] > Pins \/ (d[1] + d[2] < Pins /\ Len(d) = 3)))
    BY <1>3, ScoringAssumption DEF TopologyIllegal
  <2> QED
    BY <1>1, <1>3, <2>1, ScoringAssumption
<1> QED
  BY <1>2, <1>3 DEF Frames

LEMMA LinesAre ==
  ASSUME NEW facts, NEW f \in Frames
  PROVE  Lines(facts)[f] = Deliveries(facts, f)
<1> DEFINE s == [g \in Frames |-> Deliveries(facts, g)]
           T == {Deliveries(facts, g) : g \in Frames}
<1>1. s \in Seq(T)
  BY ScoringAssumption DEF Frames
<1>2. Lines(facts) = Listed(s)
  BY DEF Lines
<1>3. Listed(s) = s
  <2> HIDE DEF s, T
  <2> QED
    BY <1>1, ListedIs
<1> QED
  BY <1>2, <1>3

\* A game is legal unless deriveGame asks for a repair.
LEMMA NoRepairMeansLegal ==
  ASSUME NEW facts, Balls(facts), Status(facts) # "DOMAIN_INVALID_REQUIRING_REPAIR"
  PROVE  Legal(facts)
<1>1. CASE facts = {}
  <2>1. \A f \in Frames : InFrame(facts, f) = {}
    BY <1>1 DEF InFrame
  <2>2. Cardinality({}) = 0 /\ IsFiniteSet({})
    BY FS_EmptySet
  <2>3. ~NumberingIllegal(facts)
    <3>1. \A f \in Frames : LET S == InFrame(facts, f)
                            IN  {x.roll : x \in S} = 1..Cardinality(S) /\ ~(Cardinality(S) > 3)
      BY <2>1, <2>2
    <3> QED
      BY <1>1, <3>1 DEF NumberingIllegal
  <2>4. ASSUME NEW f \in Frames
        PROVE  ~TopologyIllegal(f, Deliveries(facts, f))
    <3>1. OneByOne(InFrame(facts, f))
      BY <2>1, <2>2 DEF OneByOne
    <3>2. Len(Deliveries(facts, f)) = 0
      BY <2>1, <2>2, <3>1, DeliveriesAre
    <3> QED
      BY <3>2 DEF TopologyIllegal
  <2> QED
    BY <2>3, <2>4 DEF Legal
<1>2. CASE facts # {}
  <2>1. ~Illegal(facts, Lines(facts))
    BY <1>2 DEF Status, StatusOf
  <2> QED
    BY <2>1, LinesAre DEF Illegal, Legal
<1> QED
  BY <1>1, <1>2

(******************************* the next ball *****************************)

\* The frame at f, bowled as d says, can take a ball.
Takes(f, d) ==
  IF f < FrameCount THEN ~Strike(d) /\ Len(d) < 2
                    ELSE Len(d) < 2 \/ (Len(d) = 2 /\ (Strike(d) \/ Spare(d)))

LEMMA IncompleteTakes ==
  ASSUME NEW f \in Frames, NEW d \in Seq(0..Pins), Len(d) \in 0..3,
         ~TopologyIllegal(f, d), ~FrameComplete(f, d)
  PROVE  Takes(f, d)
<1>1. \A i \in 1..Len(d) : d[i] \in 0..Pins
  BY ElementsOf
<1>2. CASE f < FrameCount
  <2>1. Len(d) <= 2 /\ (Len(d) = 2 => d[1] < Pins)
    BY <1>2, TopologyMeans
  <2>2. ~(IF Strike(d) THEN Len(d) = 1 ELSE Len(d) = 2)
    BY <1>2 DEF FrameComplete
  <2>3. Len(d) # 2
    <3> SUFFICES ASSUME Len(d) = 2
                 PROVE  FALSE
      OBVIOUS
    <3>1. d[1] < Pins /\ d[1] \in 0..Pins
      <4>1. 1 \in 1..Len(d)
        OBVIOUS
      <4> QED
        BY <1>1, <2>1, <4>1
    <3>2. d[1] # Pins
      BY <3>1, ScoringAssumption
    <3> QED
      BY <2>2, <3>2 DEF Strike
  <2>4. Len(d) < 2
    BY <2>1, <2>3
  <2>5. ~Strike(d)
    BY <2>2, <2>4 DEF Strike
  <2> QED
    BY <1>2, <2>4, <2>5 DEF Takes
<1>3. CASE f = FrameCount
  <2>1. Len(d) = 3 /\ d[1] < Pins => d[1] + d[2] = Pins
    BY <1>3, TopologyMeans
  <2>2. Len(d) = 3 => Strike(d) \/ Spare(d)
    BY <1>1, <2>1, ScoringAssumption DEF Strike, Spare
  <2>3. ~(f < FrameCount)
    BY <1>3, ScoringAssumption
  <2>4. ~(Len(d) = IF Strike(d) \/ Spare(d) THEN 3 ELSE 2)
    BY <2>3 DEF FrameComplete
  <2>5. Len(d) # 3
    BY <2>2, <2>4
  <2>6. Len(d) = 2 => Strike(d) \/ Spare(d)
    BY <2>4
  <2>7. Len(d) < 2 \/ Len(d) = 2
    <3> DEFINE n == Len(d)
    <3>1. n \in 0..3 /\ n # 3
      BY <2>5
    <3> HIDE DEF n
    <3>2. n < 2 \/ n = 2
      BY <3>1
    <3> QED
      BY <3>2 DEF n
  <2> QED
    BY <2>3, <2>6, <2>7 DEF Takes
<1> QED
  BY <1>2, <1>3, ScoringAssumption DEF Frames

\* The next slot is the one after the balls of a frame that can take one.
LEMMA NextSlotIs ==
  ASSUME NEW facts, NextLegalSlot(facts) # NoSlot
  PROVE  LET slot == NextLegalSlot(facts)
             d == Deliveries(facts, slot.frame)
         IN  /\ slot.frame \in Frames /\ Takes(slot.frame, d)
             /\ slot.roll = Len(d) + 1
             /\ Status(facts) \notin {"COMPLETED", "DOMAIN_INVALID_REQUIRING_REPAIR"}
<1> DEFINE d == Lines(facts)
           open == {f \in Frames : Takes(f, d[f])}
           first == CHOOSE f \in open : \A g \in open : f <= g
<1>1. /\ Status(facts) \notin {"COMPLETED", "DOMAIN_INVALID_REQUIRING_REPAIR"}
      /\ open # {}
      /\ NextLegalSlot(facts) = [frame |-> first, roll |-> Len(d[first]) + 1]
  BY DEF NextLegalSlot, Status, Takes
<1>2. \E f \in open : \A g \in open : f <= g
  <2>1. open \in SUBSET Nat
    BY DEF Frames
  <2> HIDE DEF open
  <2> QED
    BY <1>1, <2>1, LeastNumber
<1>3. first \in open
  <2> HIDE DEF open
  <2> QED
    BY <1>2
<1>4. first \in Frames /\ Takes(first, d[first])
  <2> HIDE DEF first
  <2> QED
    BY <1>3
<1> HIDE DEF first
<1>5. d[first] = Deliveries(facts, first)
  BY <1>4, LinesAre
<1> QED
  BY <1>1, <1>4, <1>5

\* A game that is neither complete nor in need of repair has a next slot.
LEMMA NextSlotExists ==
  ASSUME NEW facts, Balls(facts),
         Status(facts) \notin {"COMPLETED", "DOMAIN_INVALID_REQUIRING_REPAIR"}
  PROVE  NextLegalSlot(facts) # NoSlot
<1> DEFINE d == Lines(facts)
           open == {f \in Frames : Takes(f, d[f])}
           first == CHOOSE f \in open : \A g \in open : f <= g
<1>1. Legal(facts)
  BY NoRepairMeansLegal
<1>2. \A f \in Frames : d[f] = Deliveries(facts, f) /\ Line(facts, f, d[f])
  BY <1>1, LinesAre, LegalLine
<1>3. \E f \in Frames : ~FrameComplete(f, d[f])
  <2>1. CASE facts = {}
    <3>1. 1 \in Frames
      BY ScoringAssumption DEF Frames
    <3>2. InFrame(facts, 1) = {}
      BY <2>1 DEF InFrame
    <3> HIDE DEF d
    <3>3. 1..Len(d[1]) = {} /\ Len(d[1]) \in 0..3
      BY <1>2, <3>1, <3>2 DEF Line, Told
    <3>4. Len(d[1]) = 0
      <4> DEFINE k == Len(d[1])
      <4>1. 1 \notin 1..k /\ k \in 0..3
        BY <3>3
      <4> HIDE DEF k
      <4>2. k = 0
        BY <4>1
      <4> QED
        BY <4>2 DEF k
    <3>5. ~FrameComplete(1, d[1])
      BY <3>4 DEF FrameComplete, Strike
    <3> QED
      BY <3>1, <3>5
  <2>2. CASE facts # {}
    BY <2>2 DEF Status, StatusOf
  <2> QED
    BY <2>1, <2>2
<1>4. open # {}
  <2> HIDE DEF d
  <2> QED
    BY <1>2, <1>3, IncompleteTakes DEF Line, Told
<1>5. \E f \in open : \A g \in open : f <= g
  <2>1. open \in SUBSET Nat
    BY DEF Frames
  <2> HIDE DEF open
  <2> QED
    BY <1>4, <2>1, LeastNumber
<1>6. first \in Nat /\ first # 0
  <2>1. open \subseteq Nat \ {0}
    BY DEF Frames
  <2> HIDE DEF open
  <2> QED
    BY <1>5, <2>1
<1>7. NextLegalSlot(facts) = [frame |-> first, roll |-> Len(d[first]) + 1]
  BY <1>4 DEF NextLegalSlot, Status, Takes
<1> HIDE DEF first, d
<1> QED
  BY <1>6, <1>7 DEF NoSlot

\* What validateNextRoll asks of a ball at the next slot.
LEMMA NextBallLegal ==
  ASSUME NEW facts, Balls(facts), NEW slot, slot = NextLegalSlot(facts), slot # NoSlot,
         NEW p \in 0..Pins, NEW d, d = Deliveries(facts, slot.frame),
         Len(d) = 1 /\ (slot.frame < FrameCount \/ d[1] # Pins) => d[1] + p <= Pins,
         Len(d) = 2 /\ d[1] = Pins /\ d[2] < Pins => p <= Pins - d[2]
  PROVE  RollLegal(facts, slot, p)
<1> DEFINE T == {x.roll : x \in InFrame(facts, slot.frame)}
           last == CHOOSE r \in T : \A s \in T : s <= r
           d2 == Append(d, p)
<1>1. /\ slot.frame \in Frames /\ Takes(slot.frame, d) /\ slot.roll = Len(d) + 1
      /\ Status(facts) \notin {"COMPLETED", "DOMAIN_INVALID_REQUIRING_REPAIR"}
  BY NextSlotIs
<1>2. Line(facts, slot.frame, d)
  BY <1>1, NoRepairMeansLegal, LegalLine
<1>3. /\ d \in Seq(0..Pins) /\ Len(d) \in 0..3 /\ T = 1..Len(d)
      /\ \A i \in 1..Len(d) : d[i] \in 0..Pins
  <2>1. d \in Seq(0..Pins) /\ Len(d) \in 0..3 /\ T = 1..Len(d)
    BY <1>2 DEF Line, Told
  <2> QED
    BY <2>1, ElementsOf
<1> HIDE DEF T
<1>4. slot.roll = (IF T = {} THEN 1 ELSE 1 + last) /\ slot.roll <= 3
  <2>1. CASE Len(d) = 0
    BY <1>1, <1>3, <2>1
  <2>2. CASE Len(d) # 0
    <3>1. Len(d) \in T /\ \A s \in T : s <= Len(d)
      BY <1>3, <2>2
    <3>2. last = Len(d)
      BY <1>3, <3>1
    <3>3. Len(d) <= 2
      BY <1>1, <1>3 DEF Takes
    <3> QED
      BY <1>1, <1>3, <3>1, <3>2, <3>3
  <2> QED
    BY <2>1, <2>2
<1>5. /\ Len(d2) = Len(d) + 1 /\ d2[Len(d) + 1] = p
      /\ \A i \in 1..Len(d) : d2[i] = d[i]
  BY <1>3
<1> HIDE DEF last, d2
<1>6. Len(d2) = 2 /\ (slot.frame < FrameCount \/ d2[1] # Pins) => d2[1] + d2[2] <= Pins
  <2> SUFFICES ASSUME Len(d2) = 2, slot.frame < FrameCount \/ d2[1] # Pins
               PROVE  d2[1] + d2[2] <= Pins
    OBVIOUS
  <2>1. Len(d) = 1 /\ Len(d) + 1 = 2 /\ 1 \in 1..Len(d)
    <3> DEFINE n == Len(d)
    <3>1. n \in 0..3 /\ n + 1 = 2
      BY <1>3, <1>5
    <3> HIDE DEF n
    <3>2. n = 1 /\ 1 \in 1..n
      BY <3>1
    <3> QED
      BY <3>1, <3>2 DEF n
  <2>2. d2[2] = p /\ d2[1] = d[1]
    BY <1>5, <2>1
  <2> QED
    BY <2>1, <2>2
<1>7. Len(d2) > 2 /\ slot.frame = FrameCount =>
        /\ d2[1] = Pins \/ d2[1] + d2[2] = Pins
        /\ d2[1] = Pins /\ d2[2] < Pins => p <= Pins - d2[2]
  <2> SUFFICES ASSUME Len(d2) > 2, slot.frame = FrameCount
               PROVE  /\ d2[1] = Pins \/ d2[1] + d2[2] = Pins
                      /\ d2[1] = Pins /\ d2[2] < Pins => p <= Pins - d2[2]
    OBVIOUS
  <2>1. Len(d) = 2 /\ (Strike(d) \/ Spare(d))
    BY <1>1, <1>3, <1>5, ScoringAssumption DEF Takes
  <2>2. d2[1] = d[1] /\ d2[2] = d[2]
    <3>1. 1 \in 1..Len(d) /\ 2 \in 1..Len(d)
      <4> DEFINE n == Len(d)
      <4>1. n = 2
        BY <2>1
      <4> HIDE DEF n
      <4>2. 1 \in 1..n /\ 2 \in 1..n
        BY <4>1
      <4> QED
        BY <4>2 DEF n
    <3> QED
      BY <1>5, <3>1
  <2> QED
    BY <2>1, <2>2 DEF Strike, Spare
<1>8. /\ p \in 0..Pins /\ slot.frame \in Frames
      /\ slot.roll = (IF T = {} THEN 1 ELSE 1 + last)
      /\ (IF T = {} THEN 1 ELSE 1 + last) <= 3
      /\ Status(facts) # "COMPLETED"
  BY <1>1, <1>4
<1> QED
  BY <1>6, <1>7, <1>8 DEF RollLegal, T, last, d2

(********************************* the rack ********************************)

LEMMA BallsTold ==
  ASSUME NEW facts, NEW f, NEW d, Told(facts, f, d)
  PROVE  /\ Len(d) \in 0..3
         /\ Ball(facts, f, 1) = IF Len(d) >= 1 THEN d[1] ELSE Null
         /\ Ball(facts, f, 2) = IF Len(d) >= 2 THEN d[2] ELSE Null
         /\ Len(d) >= 1 => d[1] \in 0..Pins
         /\ Len(d) >= 2 => d[2] \in 0..Pins
<1> DEFINE n == Len(d)
<1>1. /\ n \in 0..3
      /\ \A r : Ball(facts, f, r) = IF r \in 1..n THEN d[r] ELSE Null
  BY DEF Line, Told
<1>2. \A i \in 1..n : d[i] \in 0..Pins
  BY ElementsOf DEF Line, Told
<1> HIDE DEF n
<1>3. (1 \in 1..n <=> n >= 1) /\ (2 \in 1..n <=> n >= 2)
  BY <1>1
<1> QED
  BY <1>1, <1>2, <1>3 DEF n

\* The rack that a ball of the second or third slot met, if it was not a
\* fresh one, is what the ball before it left of a fresh one.
LEMMA UsedRack ==
  ASSUME NEW facts, NEW f \in Frames, NEW d, Told(facts, f, d), NEW r \in {2, 3},
         RemainingBefore(facts, f, r) # Null, ~FreshRack(facts, f, r)
  PROVE  /\ r - 1 <= Len(d) /\ r - 1 \in 1..2
         /\ FreshRack(facts, f, r - 1)
         /\ RemainingBefore(facts, f, r - 1) = Pins
         /\ RemainingBefore(facts, f, r) = Pins - d[r - 1]
<1> DEFINE first == Ball(facts, f, 1)
           second == Ball(facts, f, 2)
           n == Len(d)
<1>1. /\ n \in 0..3
      /\ first = (IF n >= 1 THEN d[1] ELSE Null) /\ second = (IF n >= 2 THEN d[2] ELSE Null)
      /\ n >= 1 => d[1] \in 0..Pins
      /\ n >= 2 => d[2] \in 0..Pins
  BY BallsTold
<1>2. f \in 1..FrameCount /\ FrameCount \in Nat /\ Pins \in Nat \ {0} /\ Null = -1
  BY ScoringAssumption DEF Frames, Null
<1>3. CASE r = 2
  <2>1. first # Null
    BY <1>3 DEF RemainingBefore
  <2>2. n >= 1 /\ first = d[1]
    BY <1>1, <2>1
  <2>3. first # Pins
    <3> SUFFICES ASSUME first = Pins
                 PROVE  FALSE
      OBVIOUS
    <3> HIDE DEF first
    <3>1. f # FrameCount
      BY <1>3 DEF FreshRack, first
    <3>2. RemainingBefore(facts, f, 2) = Null
      BY <1>2, <2>1, <3>1 DEF RemainingBefore, first
    <3> QED
      BY <1>3, <3>2
  <2>4. first < Pins
    BY <1>1, <1>2, <2>2, <2>3
  <2> HIDE DEF first, second
  <2>5. RemainingBefore(facts, f, 2) = Pins - first
    BY <2>1, <2>4 DEF RemainingBefore, first
  <2>6. FreshRack(facts, f, 1) /\ RemainingBefore(facts, f, 1) = Pins
    BY DEF FreshRack, RemainingBefore
  <2> QED
    BY <1>3, <2>2, <2>5, <2>6
<1>4. CASE r = 3
  <2>1. first # Null /\ second # Null /\ f = FrameCount
    BY <1>2, <1>4 DEF RemainingBefore
  <2>2. n >= 2 /\ first = d[1] /\ second = d[2]
    BY <1>1, <2>1
  <2> HIDE DEF first, second
  <2>3. RemainingBefore(facts, f, 3)
          = IF first = Pins THEN IF second = Pins THEN Pins ELSE Pins - second
            ELSE IF first + second = Pins THEN Pins ELSE Null
    BY <1>2, <2>1 DEF RemainingBefore, first, second
  <2>4. ~(\/ first = Pins /\ second = Pins
          \/ first < Pins /\ first + second = Pins)
    BY <1>4, <2>1 DEF FreshRack, first, second
  <2>5. first = Pins /\ second # Pins
    BY <1>1, <1>2, <1>4, <2>2, <2>3, <2>4
  <2>6. FreshRack(facts, f, 2)
    BY <2>1, <2>5 DEF FreshRack, first
  <2>7. RemainingBefore(facts, f, 2) = Pins
    BY <1>2, <2>1, <2>5 DEF RemainingBefore, first
  <2> QED
    BY <1>4, <2>2, <2>3, <2>5, <2>6, <2>7
<1> QED
  BY <1>3, <1>4

\* A ball of a legal game met a rack of a known size.
LEMMA BallMetRack ==
  ASSUME NEW facts, Legal(facts), NEW x \in facts
  PROVE  /\ x.frame \in Frames /\ x.roll \in 1..3
         /\ RemainingBefore(facts, x.frame, x.roll) \in 0..Pins
<1> DEFINE f == x.frame
           d == Deliveries(facts, f)
           n == Len(d)
           first == Ball(facts, f, 1)
           second == Ball(facts, f, 2)
<1>1. f \in Frames
  BY DEF Legal, NumberingIllegal
<1>2. Line(facts, f, d)
  BY <1>1, LegalLine
<1>3. /\ n \in 0..3
      /\ first = (IF n >= 1 THEN d[1] ELSE Null) /\ second = (IF n >= 2 THEN d[2] ELSE Null)
      /\ n >= 1 => d[1] \in 0..Pins
      /\ n >= 2 => d[2] \in 0..Pins
  BY <1>2, BallsTold DEF Line
<1>4. x.roll \in 1..n
  BY <1>2 DEF Line, Told, InFrame
<1>5. /\ f < FrameCount => n <= 2 /\ (n = 2 => d[1] < Pins /\ d[1] + d[2] <= Pins)
      /\ f = FrameCount => (n >= 2 /\ d[1] < Pins => d[1] + d[2] <= Pins)
                           /\ (n = 3 /\ d[1] < Pins => d[1] + d[2] = Pins)
  BY <1>1, <1>2, TopologyMeans DEF Line, Told
<1>6. f \in 1..FrameCount /\ FrameCount \in Nat /\ Pins \in Nat \ {0} /\ Null = -1
  BY <1>1, ScoringAssumption DEF Frames, Null
<1> HIDE DEF first, second, d, n, f
<1>7. CASE x.roll = 1
  <2>1. RemainingBefore(facts, f, 1) = Pins
    BY DEF RemainingBefore
  <2> QED
    BY <1>1, <1>6, <1>7, <2>1 DEF f
<1>8. CASE x.roll = 2
  <2>1. n >= 2 /\ first = d[1] /\ first # Null
    BY <1>3, <1>4, <1>6, <1>8
  <2>2. RemainingBefore(facts, f, 2)
          = IF first < Pins THEN Pins - first ELSE IF f = FrameCount THEN Pins ELSE Null
    BY <2>1 DEF RemainingBefore, first
  <2>3. f # FrameCount => first < Pins
    <3>1. n = 2 /\ f # FrameCount => first < Pins
      BY <1>5, <1>6, <2>1
    <3>2. f # FrameCount => n <= 2
      BY <1>5, <1>6
    <3> QED
      BY <1>3, <2>1, <3>1, <3>2
  <2>4. RemainingBefore(facts, f, 2) \in 0..Pins
    BY <1>3, <1>6, <2>1, <2>2, <2>3
  <2> QED
    BY <1>1, <1>8, <2>4 DEF f
<1>9. CASE x.roll = 3
  <2>1. n = 3
    BY <1>3, <1>4, <1>9
  <2>2. f = FrameCount
    BY <1>5, <1>6, <2>1
  <2>3. first = d[1] /\ second = d[2] /\ first \in 0..Pins /\ second \in 0..Pins
    BY <1>3, <2>1
  <2>4. RemainingBefore(facts, f, 3)
          = IF first = Pins THEN IF second = Pins THEN Pins ELSE Pins - second
            ELSE IF first + second = Pins THEN Pins ELSE Null
    BY <1>6, <2>2, <2>3 DEF RemainingBefore, first, second
  <2>5. first # Pins => first + second = Pins
    BY <1>5, <1>6, <2>1, <2>2, <2>3
  <2>6. RemainingBefore(facts, f, 3) \in 0..Pins
    BY <1>6, <2>3, <2>4, <2>5
  <2> QED
    BY <1>1, <1>9, <2>6 DEF f
<1> QED
  BY <1>3, <1>4, <1>7, <1>8, <1>9

\* The next ball meets a rack of a known size, and validateNextRoll takes
\* every pinfall that this rack allows.
LEMMA NextRack ==
  ASSUME NEW facts, Balls(facts), NEW slot, slot = NextLegalSlot(facts), slot # NoSlot
  PROVE  /\ RemainingBefore(facts, slot.frame, slot.roll) \in 0..Pins
         /\ \A p \in 0..RemainingBefore(facts, slot.frame, slot.roll) :
              RollLegal(facts, slot, p)
<1> DEFINE f == slot.frame
           d == Deliveries(facts, f)
           n == Len(d)
           first == Ball(facts, f, 1)
           second == Ball(facts, f, 2)
           left == RemainingBefore(facts, f, slot.roll)
<1>1. /\ f \in Frames /\ Takes(f, d) /\ slot.roll = n + 1
      /\ Status(facts) \notin {"COMPLETED", "DOMAIN_INVALID_REQUIRING_REPAIR"}
  BY NextSlotIs
<1>2. Legal(facts) /\ Line(facts, f, d)
  BY <1>1, NoRepairMeansLegal, LegalLine
<1>3. /\ n \in 0..3
      /\ first = (IF n >= 1 THEN d[1] ELSE Null) /\ second = (IF n >= 2 THEN d[2] ELSE Null)
      /\ n >= 1 => d[1] \in 0..Pins
      /\ n >= 2 => d[2] \in 0..Pins
  BY <1>2, BallsTold DEF Line
<1>4. /\ f < FrameCount => n < 2 /\ ~(n > 0 /\ d[1] = Pins)
      /\ f >= FrameCount => n < 2 \/ (n = 2 /\ (d[1] = Pins \/ d[1] + d[2] = Pins))
  BY <1>1, <1>3, ScoringAssumption DEF Takes, Strike, Spare, Frames
<1>5. f \in 1..FrameCount /\ FrameCount \in Nat /\ Pins \in Nat \ {0} /\ Null = -1
  BY <1>1, ScoringAssumption DEF Frames, Null
<1>6. d = Deliveries(facts, slot.frame)
  OBVIOUS
<1> HIDE DEF first, second, d, n, f
<1>7. n = 0 => left = Pins
  BY <1>1 DEF RemainingBefore, f
<1>8. n = 1 => left = IF d[1] < Pins THEN Pins - d[1] ELSE Pins
  <2> SUFFICES ASSUME n = 1
               PROVE  left = IF d[1] < Pins THEN Pins - d[1] ELSE Pins
    OBVIOUS
  <2>1. slot.roll = 2 /\ first = d[1] /\ first # Null /\ first \in 0..Pins
    BY <1>1, <1>3, <1>5
  <2>2. f # FrameCount => first < Pins
    BY <1>4, <1>5, <2>1
  <2>3. RemainingBefore(facts, f, 2)
          = IF first < Pins THEN Pins - first ELSE IF f = FrameCount THEN Pins ELSE Null
    BY <2>1 DEF RemainingBefore, first
  <2> QED
    BY <2>1, <2>2, <2>3 DEF f
<1>9. n = 2 => left = IF d[1] = Pins /\ d[2] < Pins THEN Pins - d[2] ELSE Pins
  <2> SUFFICES ASSUME n = 2
               PROVE  left = IF d[1] = Pins /\ d[2] < Pins THEN Pins - d[2] ELSE Pins
    OBVIOUS
  <2>1. /\ slot.roll = 3 /\ first = d[1] /\ second = d[2]
        /\ first \in 0..Pins /\ second \in 0..Pins /\ f = FrameCount
        /\ first = Pins \/ first + second = Pins
    BY <1>1, <1>3, <1>4, <1>5
  <2>2. RemainingBefore(facts, f, 3)
          = IF first = Pins THEN IF second = Pins THEN Pins ELSE Pins - second
            ELSE IF first + second = Pins THEN Pins ELSE Null
    BY <1>5, <2>1 DEF RemainingBefore, first, second
  <2>3. left = RemainingBefore(facts, f, 3)
    BY <2>1 DEF f
  <2> QED
    BY <1>5, <2>1, <2>2, <2>3
<1>10. n \in {0, 1, 2}
  BY <1>3, <1>4, <1>5
<1>11. left \in 0..Pins
  BY <1>3, <1>5, <1>7, <1>8, <1>9, <1>10
<1>12. ASSUME NEW p \in 0..left
       PROVE  RollLegal(facts, slot, p)
  <2> HIDE DEF left
  <2>1. p \in 0..Pins
    BY <1>5, <1>11
  <2>2. Len(d) = 1 /\ (slot.frame < FrameCount \/ d[1] # Pins) => d[1] + p <= Pins
    <3> SUFFICES ASSUME n = 1, f < FrameCount \/ d[1] # Pins
                 PROVE  d[1] + p <= Pins
      BY DEF n, f
    <3>1. d[1] \in 0..Pins /\ d[1] # Pins
      BY <1>3, <1>4
    <3>2. left = Pins - d[1]
      BY <1>5, <1>8, <3>1
    <3> QED
      BY <1>5, <1>11, <3>1, <3>2
  <2>3. Len(d) = 2 /\ d[1] = Pins /\ d[2] < Pins => p <= Pins - d[2]
    BY <1>3, <1>9, <1>11 DEF n
  <2> QED
    BY <1>6, <2>1, <2>2, <2>3, NextBallLegal
<1> QED
  BY <1>11, <1>12 DEF f

\* The slot of the next ball is a slot of the game, and its frame is in order.
LEMMA NextSlotTold ==
  ASSUME NEW facts, Balls(facts), NEW slot, slot = NextLegalSlot(facts), slot # NoSlot
  PROVE  /\ slot.frame \in Frames /\ slot.roll \in 1..3
         /\ Told(facts, slot.frame, Deliveries(facts, slot.frame))
<1> DEFINE d == Deliveries(facts, slot.frame)
<1>1. /\ slot.frame \in Frames /\ Takes(slot.frame, d) /\ slot.roll = Len(d) + 1
      /\ Status(facts) # "DOMAIN_INVALID_REQUIRING_REPAIR"
  BY NextSlotIs
<1>2. Told(facts, slot.frame, d)
  BY <1>1, NoRepairMeansLegal, LegalLine DEF Line
<1> HIDE DEF d
<1>3. Len(d) < 2 \/ Len(d) = 2
  BY ONLY <1>1 DEF Takes
<1>4. Len(d) \in 0..3
  BY <1>2 DEF Told
<1>5. slot.roll \in 1..3
  BY <1>1, <1>3, <1>4
<1> QED
  BY <1>1, <1>2, <1>5 DEF d

(********************************* sums ************************************)

\* g[s] is the sum of the values v over s, for every part s of S: the equation
\* that MapThenSumSet is defined by.
Totaling(v, S, g) ==
  g = [s \in SUBSET S |-> IF s = {} THEN 0
                          ELSE v[CHOOSE x \in s : TRUE] + g[s \ {CHOOSE x \in s : TRUE}]]

LEMMA OneFewer ==
  ASSUME NEW s, IsFiniteSet(s), s # {}
  PROVE  LET x == CHOOSE x \in s : TRUE
         IN  /\ x \in s /\ IsFiniteSet(s \ {x})
             /\ Cardinality(s) \in Nat \ {0} /\ Cardinality(s \ {x}) = Cardinality(s) - 1
<1> DEFINE x == CHOOSE x \in s : TRUE
<1>1. x \in s
  OBVIOUS
<1>2. /\ IsFiniteSet(s \ {x}) /\ Cardinality(s) \in Nat
      /\ Cardinality(s \ {x}) = Cardinality(s) - 1 /\ Cardinality(s \ {x}) \in Nat
  BY <1>1, FS_RemoveElement, FS_CardinalityType
<1> QED
  BY <1>1, <1>2

\* There is such a function: by induction on the size of the parts.
LEMMA TotalExists ==
  ASSUME NEW S, IsFiniteSet(S), NEW v
  PROVE  \E g : Totaling(v, S, g)
<1> DEFINE Level(n) == {s \in SUBSET S : Cardinality(s) <= n}
           x(s) == CHOOSE x \in s : TRUE
           next(g, s) == IF s = {} THEN 0 ELSE v[x(s)] + g[s \ {x(s)}]
           U == {n \in Nat : \E g : \A s \in Level(n) : g[s] = next(g, s)}
<1>1. \A s \in SUBSET S :
        /\ Cardinality(s) \in Nat
        /\ s # {} => /\ Cardinality(s \ {x(s)}) = Cardinality(s) - 1
                     /\ s \ {x(s)} \in SUBSET S
        /\ Cardinality(s) = 0 => s = {}
  <2> TAKE s \in SUBSET S
  <2>1. IsFiniteSet(s)
    BY FS_Subset
  <2> QED
    BY <2>1, OneFewer, FS_CardinalityType, FS_EmptySet
<1>2. 0 \in U
  <2> DEFINE g == [s \in {{}} |-> 0]
  <2>1. \A s \in Level(0) : g[s] = next(g, s)
    BY <1>1
  <2> HIDE DEF next, Level, g
  <2> QED
    BY <2>1
<1>3. ASSUME NEW n \in U
      PROVE  n + 1 \in U
  <2>1. PICK f : \A s \in Level(n) : f[s] = next(f, s)
    OBVIOUS
  <2> DEFINE g == [s \in Level(n + 1) |-> next(f, s)]
  <2>2. \A s \in Level(n + 1) : s # {} => s \ {x(s)} \in Level(n) /\ s \ {x(s)} \in Level(n + 1)
    <3> HIDE DEF x
    <3> QED
      BY <1>1
  <2>3. \A s \in Level(n + 1) : s \in Level(n) => g[s] = f[s]
    <3> HIDE DEF next, Level
    <3> QED
      BY <2>1
  <2>4. \A s \in Level(n + 1) : next(f, s) = next(g, s)
    <3> HIDE DEF x, Level, g
    <3> QED
      BY <2>2, <2>3
  <2>5. \A s \in Level(n + 1) : g[s] = next(g, s)
    <3> HIDE DEF next, Level
    <3> QED
      BY <2>4
  <2> HIDE DEF g, next, Level
  <2> QED
    BY <2>5
<1>4. U = Nat
  <2>1. U \in SUBSET Nat
    OBVIOUS
  <2> HIDE DEF U
  <2> QED
    BY <1>2, <1>3, <2>1, NatSetInduction
<1>5. PICK f : \A s \in Level(Cardinality(S)) : f[s] = next(f, s)
  <2>1. Cardinality(S) \in U
    BY <1>1, <1>4
  <2> HIDE DEF next, Level
  <2> QED
    BY <2>1
<1>6. Level(Cardinality(S)) = SUBSET S
  BY FS_Subset
<1> DEFINE g == [s \in SUBSET S |-> f[s]]
<1>7. \A s \in SUBSET S : f[s] = next(g, s)
  <2>1. \A s \in SUBSET S : next(f, s) = next(g, s)
    <3> HIDE DEF x
    <3> QED
      BY <1>1
  <2> HIDE DEF next, Level, g
  <2> QED
    BY <1>5, <1>6, <2>1
<1>8. g = [s \in SUBSET S |-> next(g, s)]
  <2>1. \A s \in SUBSET S : g[s] = next(g, s)
    <3> HIDE DEF next
    <3> QED
      BY <1>7
  <2> HIDE DEF next
  <2> QED
    BY <2>1
<1> QED
  BY <1>8 DEF Totaling

\* Values that differ by k at a and nowhere else have sums that differ by k
\* where a is counted; with k = 0, equal values have equal sums.
LEMMA TotalsDiffer ==
  ASSUME NEW S, IsFiniteSet(S), NEW T, S \subseteq T, NEW v, NEW w, NEW a, NEW k \in Int,
         \A x \in S : v[x] \in Int /\ w[x] = v[x] + (IF x = a THEN k ELSE 0),
         NEW g, Totaling(v, S, g), NEW h, Totaling(w, T, h)
  PROVE  g[S] \in Int /\ h[S] = g[S] + (IF a \in S THEN k ELSE 0)
<1> DEFINE x(s) == CHOOSE x \in s : TRUE
           differ(s) == g[s] \in Int /\ h[s] = g[s] + (IF a \in s THEN k ELSE 0)
           U == {n \in Nat : \A s \in SUBSET S : Cardinality(s) = n => differ(s)}
<1>1. \A s \in SUBSET S :
        /\ Cardinality(s) \in Nat
        /\ s = {} => g[s] = 0 /\ h[s] = 0
        /\ s # {} => g[s] = v[x(s)] + g[s \ {x(s)}] /\ h[s] = w[x(s)] + h[s \ {x(s)}]
  BY FS_Subset, FS_CardinalityType DEF Totaling
<1>2. \A s \in SUBSET S : s # {} =>
        /\ x(s) \in s /\ s \ {x(s)} \in SUBSET S
        /\ Cardinality(s \ {x(s)}) = Cardinality(s) - 1
  BY FS_Subset, OneFewer
<1>3. \A s \in SUBSET S : Cardinality(s) = 0 => s = {}
  BY FS_Subset, FS_EmptySet
<1> HIDE DEF x
<1>4. 0 \in U
  <2>0. ASSUME NEW s \in SUBSET S, s = {}
        PROVE  differ(s)
    <3>1. g[s] = 0 /\ h[s] = 0 /\ a \notin s
      BY <1>1, <2>0
    <3> QED
      BY <3>1
  <2>1. \A s \in SUBSET S : Cardinality(s) = 0 => differ(s)
    BY <1>3, <2>0
  <2> HIDE DEF differ
  <2> QED
    BY <2>1
<1>5. ASSUME NEW n \in U
      PROVE  n + 1 \in U
  <2> SUFFICES ASSUME NEW s \in SUBSET S, Cardinality(s) = n + 1
               PROVE  differ(s)
    BY DEF U
  <2>0. n \in Nat
    OBVIOUS
  <2>1. s # {}
    <3>1. Cardinality({}) = 0
      BY FS_EmptySet
    <3> QED
      BY <2>0, <3>1
  <2>2. differ(s \ {x(s)})
    BY <1>2, <2>1
  <2> DEFINE y == x(s)
             t == s \ {y}
  <2>3. /\ y \in s /\ v[y] \in Int /\ w[y] = v[y] + (IF y = a THEN k ELSE 0)
        /\ g[s] = v[y] + g[t] /\ h[s] = w[y] + h[t]
        /\ g[t] \in Int /\ h[t] = g[t] + (IF a \in t THEN k ELSE 0)
    BY <1>1, <1>2, <2>1, <2>2
  <2>4. a \in t <=> a \in s /\ y # a
    OBVIOUS
  <2> HIDE DEF y, t
  <2>5. (y = a => a \in s)
    BY <2>3
  <2> QED
    BY <2>3, <2>4, <2>5
<1>6. U = Nat
  <2>1. U \in SUBSET Nat
    OBVIOUS
  <2> HIDE DEF U
  <2> QED
    BY <1>4, <1>5, <2>1, NatSetInduction
<1> QED
  BY <1>1, <1>6

LEMMA EqualTotals ==
  ASSUME NEW S, IsFiniteSet(S), NEW T, S \subseteq T, NEW v, NEW w,
         \A x \in S : v[x] \in Int /\ w[x] = v[x],
         NEW g, Totaling(v, S, g), NEW h, Totaling(w, T, h)
  PROVE  g[S] \in Int /\ h[S] = g[S]
<1> DEFINE k == 0
           a == S
<1>1. k \in Int /\ \A x \in S : v[x] \in Int /\ w[x] = v[x] + (IF x = a THEN k ELSE 0)
  OBVIOUS
<1>2. g[S] \in Int
  <2>1. \A x \in S : v[x] \in Int /\ v[x] = v[x] + (IF x = a THEN k ELSE 0)
    OBVIOUS
  <2> HIDE DEF k, a
  <2>2. g[S] \in Int /\ g[S] = g[S] + (IF a \in S THEN k ELSE 0)
    BY <1>1, <2>1, TotalsDiffer
  <2> QED
    BY <2>2
<1> HIDE DEF k, a
<1>3. h[S] = g[S] + (IF a \in S THEN k ELSE 0)
  BY <1>1, TotalsDiffer
<1> QED
  BY <1>2, <1>3 DEF k

\* Induction over the parts of a finite set.
LEMMA PartInduction ==
  ASSUME NEW S, IsFiniteSet(S), NEW U, {} \in U,
         \A s \in SUBSET S : s \in U => \A x \in S \ s : s \cup {x} \in U
  PROVE  S \in U
<1> DEFINE N == {n \in Nat : \A s \in SUBSET S : Cardinality(s) = n => s \in U}
<1>1. \A s \in SUBSET S : IsFiniteSet(s) /\ Cardinality(s) \in Nat /\ (Cardinality(s) = 0 => s = {})
  BY FS_Subset, FS_CardinalityType, FS_EmptySet
<1>2. 0 \in N
  BY <1>1
<1>3. ASSUME NEW n \in N
      PROVE  n + 1 \in N
  <2> SUFFICES ASSUME NEW s \in SUBSET S, Cardinality(s) = n + 1
               PROVE  s \in U
    OBVIOUS
  <2>1. s # {}
    <3>1. Cardinality({}) = 0
      BY FS_EmptySet
    <3> QED
      BY <3>1
  <2>2. PICK x \in s : TRUE
    BY <2>1
  <2>3. Cardinality(s \ {x}) = n
    BY <1>1, <2>2, FS_RemoveElement
  <2>4. s \ {x} \in U
    BY <2>3
  <2>5. s = (s \ {x}) \cup {x} /\ x \in S \ (s \ {x})
    BY <2>2
  <2> HIDE DEF N
  <2> QED
    BY <2>4, <2>5
<1>4. N = Nat
  <2>1. N \in SUBSET Nat
    OBVIOUS
  <2> HIDE DEF N
  <2> QED
    BY <1>2, <1>3, <2>1, NatSetInduction
<1> QED
  BY <1>1, <1>4

\* The order in which the values are added does not matter.
LEMMA TotalRemove ==
  ASSUME NEW S, IsFiniteSet(S), NEW v, \A x \in S : v[x] \in Int, NEW g, Totaling(v, S, g)
  PROVE  \A s \in SUBSET S : g[s] \in Int /\ \A x \in s : g[s] = v[x] + g[s \ {x}]
<1> DEFINE c(s) == CHOOSE x \in s : TRUE
           ok(s) == g[s] \in Int /\ \A x \in s : g[s] = v[x] + g[s \ {x}]
           U == {n \in Nat : \A s \in SUBSET S : Cardinality(s) <= n => ok(s)}
<1>0. \A s \in SUBSET S : Cardinality(s) \in Nat /\ (Cardinality(s) = 0 => s = {})
  BY FS_Subset, FS_CardinalityType, FS_EmptySet
<1>1. \A s \in SUBSET S :
        /\ s = {} => g[s] = 0
        /\ s # {} => c(s) \in s /\ g[s] = v[c(s)] + g[s \ {c(s)}]
  BY DEF Totaling
<1>6. \A s \in SUBSET S : \A x \in s :
        s \ {x} \in SUBSET S /\ Cardinality(s \ {x}) = Cardinality(s) - 1
  BY FS_Subset, FS_RemoveElement
<1> HIDE DEF c
<1>2. 0 \in U
  <2>1. ASSUME NEW s \in SUBSET S, Cardinality(s) <= 0
        PROVE  ok(s)
    <3>1. Cardinality(s) = 0
      BY <1>0, <2>1
    <3>2. s = {}
      BY <1>0, <3>1
    <3>3. g[s] = 0
      BY <1>1, <3>2
    <3> QED
      BY <3>2, <3>3
  <2> HIDE DEF ok
  <2> QED
    BY <2>1
<1>3. ASSUME NEW n \in U
      PROVE  n + 1 \in U
  <2> SUFFICES ASSUME NEW s \in SUBSET S, Cardinality(s) <= n + 1
               PROVE  ok(s)
    OBVIOUS
  <2>6. CASE s = {}
    <3>1. g[s] = 0
      BY <1>1, <2>6
    <3> QED
      BY <2>6, <3>1
  <2>7. CASE s # {}
    <3>0. n \in Nat
      OBVIOUS
    <3> DEFINE y == c(s)
    <3>1. y \in s /\ g[s] = v[y] + g[s \ {y}] /\ v[y] \in Int
      BY <1>1, <2>7
    <3>2. \A x \in s : s \ {x} \in SUBSET S /\ Cardinality(s \ {x}) <= n
      BY <1>0, <1>6, <3>0
    <3>3. \A x \in s : ok(s \ {x})
      BY <3>2
    <3> HIDE DEF y
    <3>4. g[s] \in Int
      BY <3>1, <3>3
    <3>5. ASSUME NEW x \in s, x # y
          PROVE  g[s] = v[x] + g[s \ {x}]
      <4> DEFINE t == (s \ {x}) \ {y}
                 r == g[t]
      <4>1. (s \ {y}) \ {x} = t
        OBVIOUS
      <4>2. t \in SUBSET S /\ Cardinality(t) <= n
        <5>1. y \in s \ {x}
          BY <3>1, <3>5
        <5>2. Cardinality(t) = Cardinality(s \ {x}) - 1 /\ t \in SUBSET S
          BY <1>6, <3>2, <5>1
        <5>3. Cardinality(s \ {x}) \in Nat /\ Cardinality(s \ {x}) <= n
          BY <1>0, <3>2
        <5> QED
          BY <3>0, <5>2, <5>3
      <4>3. r \in Int
        BY <4>2
      <4>4. g[s \ {y}] = v[x] + r
        BY <3>1, <3>3, <3>5, <4>1
      <4>5. g[s \ {x}] = v[y] + r
        BY <3>1, <3>3, <3>5
      <4>6. v[x] \in Int
        OBVIOUS
      <4> HIDE DEF r
      <4> QED
        BY <3>1, <4>3, <4>4, <4>5, <4>6
    <3> QED
      BY <3>1, <3>4, <3>5
  <2> QED
    BY <2>6, <2>7
<1>4. U = Nat
  <2>1. U \in SUBSET Nat
    OBVIOUS
  <2> HIDE DEF U
  <2> QED
    BY <1>2, <1>3, <2>1, NatSetInduction
<1>5. ASSUME NEW s \in SUBSET S
      PROVE  ok(s)
  <2>1. Cardinality(s) \in U /\ Cardinality(s) <= Cardinality(s)
    BY <1>0, <1>4
  <2> HIDE DEF ok
  <2> QED
    BY <2>1
<1> QED
  BY <1>5

\* The sum of the values v over S, with the values given by a function.
SumOf(S, v) == LET value(x) == v[x] IN Sum(S, value)

LEMMA SumOfIs ==
  ASSUME NEW S, IsFiniteSet(S), NEW v
  PROVE  \E g : Totaling(v, S, g) /\ SumOf(S, v) = g[S]
<1>1. PICK h : Totaling(v, S, h)
  BY TotalExists
<1>2. PICK g : /\ g = [s \in SUBSET S |->
                         IF s = {} THEN 0
                         ELSE v[CHOOSE x \in s : TRUE] + g[s \ {CHOOSE x \in s : TRUE}]]
               /\ SumOf(S, v) = g[S]
  BY <1>1 DEF SumOf, Sum, MapThenSumSet, MapThenFoldSet, Totaling
<1> QED
  BY <1>2 DEF Totaling

\* Equal values have equal sums.
LEMMA SumSame ==
  ASSUME NEW S, IsFiniteSet(S), NEW v, NEW w, \A x \in S : v[x] \in Int /\ w[x] = v[x]
  PROVE  SumOf(S, v) \in Int /\ SumOf(S, w) = SumOf(S, v)
<1>1. PICK g : Totaling(v, S, g) /\ SumOf(S, v) = g[S]
  BY SumOfIs
<1>2. PICK h : Totaling(w, S, h) /\ SumOf(S, w) = h[S]
  BY SumOfIs
<1>3. g[S] \in Int /\ h[S] = g[S]
  BY <1>1, <1>2, EqualTotals
<1> QED
  BY <1>1, <1>2, <1>3

LEMMA SumNone ==
  ASSUME NEW v
  PROVE  SumOf({}, v) = 0
<1>1. IsFiniteSet({})
  BY FS_EmptySet
<1>2. PICK g : Totaling(v, {}, g) /\ SumOf({}, v) = g[{}]
  BY <1>1, SumOfIs
<1> QED
  BY <1>2 DEF Totaling

\* One element more.
LEMMA SumAdd ==
  ASSUME NEW S, IsFiniteSet(S), NEW a, a \notin S, NEW v, \A x \in S \cup {a} : v[x] \in Int
  PROVE  SumOf(S \cup {a}, v) = SumOf(S, v) + v[a]
<1> DEFINE T == S \cup {a}
<1>1. IsFiniteSet(T)
  BY FS_AddElement
<1>2. PICK h : Totaling(v, T, h) /\ SumOf(T, v) = h[T]
  BY <1>1, SumOfIs
<1>3. PICK g : Totaling(v, S, g) /\ SumOf(S, v) = g[S]
  BY SumOfIs
<1>4. g[S] \in Int /\ h[S] = g[S]
  BY <1>2, <1>3, EqualTotals
<1>5. h[T] = v[a] + h[T \ {a}]
  BY <1>1, <1>2, TotalRemove
<1>6. T \ {a} = S /\ v[a] \in Int
  OBVIOUS
<1>7. SumOf(T, v) = v[a] + g[S] /\ g[S] = SumOf(S, v) /\ g[S] \in Int
  BY <1>2, <1>3, <1>4, <1>5, <1>6
<1> HIDE DEF T
<1> QED
  BY <1>6, <1>7 DEF T

LEMMA SumUnion ==
  ASSUME NEW S, IsFiniteSet(S), NEW T, IsFiniteSet(T), S \cap T = {},
         NEW v, \A x \in S \cup T : v[x] \in Int
  PROVE  SumOf(S \cup T, v) = SumOf(S, v) + SumOf(T, v)
<1> DEFINE U == {s \in SUBSET T : SumOf(S \cup s, v) = SumOf(S, v) + SumOf(s, v)}
<1>1. {} \in U
  <2>1. S \cup {} = S /\ SumOf({}, v) = 0
    BY SumNone
  <2>2. SumOf(S, v) \in Int
    BY SumSame
  <2> QED
    BY <2>1, <2>2
<1>2. ASSUME NEW s \in SUBSET T, s \in U, NEW x \in T \ s
      PROVE  s \cup {x} \in U
  <2>1. IsFiniteSet(s)
    BY FS_Subset
  <2>2. IsFiniteSet(S \cup s) /\ x \notin S \cup s
    BY <2>1, FS_Union
  <2>3. SumOf((S \cup s) \cup {x}, v) = SumOf(S \cup s, v) + v[x]
    BY <2>2, SumAdd
  <2>4. SumOf(s \cup {x}, v) = SumOf(s, v) + v[x]
    BY <2>1, SumAdd
  <2>5. (S \cup s) \cup {x} = S \cup (s \cup {x})
    OBVIOUS
  <2>6. SumOf(S, v) \in Int /\ SumOf(s, v) \in Int /\ v[x] \in Int
    BY <2>1, SumSame
  <2>7. SumOf(S \cup s, v) = SumOf(S, v) + SumOf(s, v)
    BY <1>2
  <2>8. SumOf(S \cup (s \cup {x}), v) = SumOf(S, v) + SumOf(s \cup {x}, v)
    <3>1. SumOf(S \cup (s \cup {x}), v) = SumOf(S \cup s, v) + v[x]
      BY <2>3, <2>5
    <3> QED
      BY <2>4, <2>6, <2>7, <3>1
  <2> QED
    BY <2>8
<1>3. T \in U
  <2> HIDE DEF U
  <2> QED
    BY <1>1, <1>2, PartInduction
<1> QED
  BY <1>3

LEMMA SumOne ==
  ASSUME NEW a, NEW v, v[a] \in Int
  PROVE  SumOf({a}, v) = v[a]
<1>1. IsFiniteSet({}) /\ a \notin {}
  BY FS_EmptySet
<1>2. SumOf({} \cup {a}, v) = SumOf({}, v) + v[a]
  BY <1>1, SumAdd
<1>3. {} \cup {a} = {a} /\ SumOf({}, v) = 0
  BY SumNone
<1> QED
  BY <1>2, <1>3

\* A sum of values between low and high.
LEMMA SumBetween ==
  ASSUME NEW S, IsFiniteSet(S), NEW low \in Int, NEW high \in Int,
         NEW v, \A x \in S : v[x] \in low..high
  PROVE  SumOf(S, v) \in (low * Cardinality(S))..(high * Cardinality(S))
<1> DEFINE in(s) == SumOf(s, v) \in (low * Cardinality(s))..(high * Cardinality(s))
           U == {s \in SUBSET S : in(s)}
<1>1. {} \in U
  <2>1. SumOf({}, v) = 0 /\ Cardinality({}) = 0
    BY SumNone, FS_EmptySet
  <2> QED
    BY <2>1
<1>2. ASSUME NEW s \in SUBSET S, s \in U, NEW x \in S \ s
      PROVE  s \cup {x} \in U
  <2>1. IsFiniteSet(s)
    BY FS_Subset
  <2> DEFINE n == Cardinality(s)
  <2>2. n \in Nat /\ Cardinality(s \cup {x}) = n + 1
    BY <2>1, FS_AddElement, FS_CardinalityType
  <2>3. SumOf(s \cup {x}, v) = SumOf(s, v) + v[x]
    <3>1. \A y \in s \cup {x} : v[y] \in Int
      OBVIOUS
    <3> QED
      BY <2>1, <3>1, SumAdd
  <2>4. SumOf(s, v) \in (low * n)..(high * n) /\ v[x] \in low..high
    BY <1>2
  <2> HIDE DEF n
  <2>5. low * (n + 1) = low * n + low /\ high * (n + 1) = high * n + high
    BY <2>2
  <2>6. low * n \in Int /\ high * n \in Int
    BY <2>2
  <2>7. SumOf(s, v) + v[x] \in (low * n + low)..(high * n + high)
    BY <2>4, <2>6
  <2>8. in(s \cup {x})
    BY <2>2, <2>3, <2>5, <2>7
  <2> HIDE DEF in
  <2> QED
    BY <2>8
<1>3. S \in U
  <2> HIDE DEF U
  <2> QED
    BY <1>1, <1>2, PartInduction
<1> QED
  BY <1>3

\* Larger values have larger sums, and renaming what is summed changes nothing.
LEMMA SumImage ==
  ASSUME NEW S, IsFiniteSet(S), NEW m, \A x, y \in S : m[x] = m[y] => x = y,
         NEW T, \A y : y \in T <=> \E x \in S : y = m[x],
         NEW v, NEW w, \A x \in S : v[x] \in Int /\ w[m[x]] \in Int /\ v[x] <= w[m[x]]
  PROVE  SumOf(S, v) <= SumOf(T, w)
<1> DEFINE image(s) == {m[x] : x \in s}
           U == {s \in SUBSET S : SumOf(s, v) <= SumOf(image(s), w)}
<1>1. {} \in U
  <2>1. SumOf({}, v) = 0 /\ SumOf({}, w) = 0 /\ image({}) = {}
    BY SumNone
  <2> HIDE DEF image
  <2> QED
    BY <2>1
<1>2. ASSUME NEW s \in SUBSET S, s \in U, NEW x \in S \ s
      PROVE  s \cup {x} \in U
  <2>1. IsFiniteSet(s)
    BY FS_Subset
  <2>2. IsFiniteSet(image(s))
    <3> DEFINE f == [y \in s |-> m[y]]
    <3>1. f \in Surjection(s, image(s))
      BY DEF Surjection
    <3> QED
      BY <2>1, <3>1, FS_Surjection
  <2>3. image(s \cup {x}) = image(s) \cup {m[x]} /\ m[x] \notin image(s)
    OBVIOUS
  <2>4. SumOf(s \cup {x}, v) = SumOf(s, v) + v[x] /\ SumOf(s, v) \in Int
    BY <2>1, SumAdd, SumSame
  <2>5. \A y \in image(s) \cup {m[x]} : w[y] \in Int
    OBVIOUS
  <2>6. SumOf(s, v) <= SumOf(image(s), w)
    BY <1>2
  <2>7. v[x] \in Int /\ w[m[x]] \in Int /\ v[x] <= w[m[x]]
    OBVIOUS
  <2> HIDE DEF image
  <2>8. SumOf(image(s), w) \in Int
    BY <2>2, <2>5, SumSame
  <2>10. SumOf(image(s) \cup {m[x]}, w) = SumOf(image(s), w) + w[m[x]]
    BY <2>2, <2>3, <2>5, SumAdd
  <2>9. SumOf(s \cup {x}, v) <= SumOf(image(s \cup {x}), w)
    <3> DEFINE a == SumOf(s, v)
               b == SumOf(image(s), w)
               c == v[x]
               d == w[m[x]]
    <3>1. a \in Int /\ b \in Int /\ c \in Int /\ d \in Int /\ a <= b /\ c <= d
      BY <2>4, <2>6, <2>7, <2>8
    <3>2. SumOf(s \cup {x}, v) = a + c /\ SumOf(image(s \cup {x}), w) = b + d
      BY <2>3, <2>4, <2>10
    <3> HIDE DEF a, b, c, d
    <3> QED
      BY <3>1, <3>2
  <2> QED
    BY <2>9
<1>3. S \in U
  <2> HIDE DEF U
  <2> QED
    BY <1>1, <1>2, PartInduction
<1>4. SumOf(S, v) <= SumOf(image(S), w)
  BY <1>3
<1>5. T = image(S)
  OBVIOUS
<1> HIDE DEF image
<1> QED
  BY <1>4, <1>5

\* Counting K part by part, for the parts that share a label in L.
Labelled(K, label, s) == {x \in K : label[x] = s}

LEMMA CountByLabel ==
  ASSUME NEW K, IsFiniteSet(K), NEW label, NEW L, IsFiniteSet(L),
         NEW v, \A s \in L : v[s] = Cardinality(Labelled(K, label, s)),
         NEW T, \A x : x \in T <=> x \in K /\ label[x] \in L
  PROVE  SumOf(L, v) = Cardinality(T)
<1> DEFINE of(s) == {x \in K : label[x] = s}
           within(l) == {x \in K : label[x] \in l}
           U == {l \in SUBSET L : SumOf(l, v) = Cardinality(within(l))}
<1>1. {} \in U
  <2>1. SumOf({}, v) = 0 /\ within({}) = {} /\ Cardinality({}) = 0
    BY SumNone, FS_EmptySet
  <2> HIDE DEF within
  <2> QED
    BY <2>1
<1>2. ASSUME NEW l \in SUBSET L, l \in U, NEW s \in L \ l
      PROVE  l \cup {s} \in U
  <2>1. IsFiniteSet(l)
    BY FS_Subset
  <2>2. \A t \in L : IsFiniteSet(of(t))
    BY FS_Subset
  <2>3. IsFiniteSet(within(l))
    BY FS_Subset
  <2>4. \A t \in L : v[t] \in Int /\ v[t] = Cardinality(of(t))
    <3> SUFFICES ASSUME NEW t \in L PROVE v[t] \in Int /\ v[t] = Cardinality(of(t))
      OBVIOUS
    <3>1. v[t] = Cardinality(of(t))
      BY DEF Labelled
    <3> HIDE DEF of
    <3> QED
      BY <2>2, <3>1, FS_CardinalityType
  <2>5. SumOf(l \cup {s}, v) = SumOf(l, v) + v[s]
    BY <2>1, <2>4, SumAdd
  <2>6. within(l \cup {s}) = within(l) \cup of(s) /\ within(l) \cap of(s) = {}
    OBVIOUS
  <2>7. SumOf(l, v) = Cardinality(within(l))
    BY <1>2
  <2> HIDE DEF within, of
  <2>8. Cardinality(within(l) \cup of(s)) = Cardinality(within(l)) + Cardinality(of(s))
    <3>1. Cardinality(within(l) \cap of(s)) = 0
      BY <2>6, FS_EmptySet
    <3>2. Cardinality(within(l)) \in Nat /\ Cardinality(of(s)) \in Nat
      BY <2>2, <2>3, FS_CardinalityType
    <3>3. Cardinality(within(l) \cup of(s)) = Cardinality(within(l)) + Cardinality(of(s))
                                                - Cardinality(within(l) \cap of(s))
      BY <2>2, <2>3, FS_Union
    <3> QED
      BY <3>1, <3>2, <3>3
  <2>9. SumOf(l \cup {s}, v) = Cardinality(within(l \cup {s}))
    BY <2>4, <2>5, <2>6, <2>7, <2>8
  <2> QED
    BY <2>9
<1>3. L \in U
  <2> HIDE DEF U
  <2> QED
    BY <1>1, <1>2, PartInduction
<1>4. T = within(L)
  OBVIOUS
<1>5. SumOf(L, v) = Cardinality(within(L))
  BY <1>3
<1> HIDE DEF within
<1> QED
  BY <1>4, <1>5

(***************************** concatenation *******************************)

\* f[i] is the concatenation of the first i of n sequences: the equation that
\* FlattenSeq is defined by.
Flattening(seqs, n, f) ==
  f = [i \in 1..n |-> IF i = 1 THEN seqs[i] ELSE f[i - 1] \o seqs[i]]

LEMMA FlatteningExists ==
  ASSUME NEW seqs, NEW n \in Nat
  PROVE  \E f : Flattening(seqs, n, f)
<1> DEFINE U == {k \in Nat : \E f : Flattening(seqs, k, f)}
<1>1. 0 \in U
  <2>1. Flattening(seqs, 0, [i \in 1..0 |-> seqs[i]])
    BY DEF Flattening
  <2> QED
    BY <2>1
<1>2. ASSUME NEW k \in U
      PROVE  k + 1 \in U
  <2>1. PICK f : Flattening(seqs, k, f)
    OBVIOUS
  <2> DEFINE last == IF k = 0 THEN seqs[1] ELSE f[k] \o seqs[k + 1]
             g == [i \in 1..(k + 1) |-> IF i = k + 1 THEN last ELSE f[i]]
  <2>2. \A i \in 2..(k + 1) : g[i - 1] = f[i - 1]
    OBVIOUS
  <2>3. \A i \in 1..k : f[i] = IF i = 1 THEN seqs[i] ELSE f[i - 1] \o seqs[i]
    BY <2>1 DEF Flattening
  <2>4. \A i \in 1..(k + 1) : g[i] = IF i = 1 THEN seqs[i] ELSE g[i - 1] \o seqs[i]
    BY <2>2, <2>3
  <2>5. Flattening(seqs, k + 1, g)
    <3> HIDE DEF U, last
    <3> QED
      BY <2>4 DEF Flattening
  <2> HIDE DEF g
  <2> QED
    BY <2>5
<1>3. U = Nat
  <2>1. U \in SUBSET Nat
    OBVIOUS
  <2> HIDE DEF U
  <2> QED
    BY <1>1, <1>2, <2>1, NatSetInduction
<1> QED
  BY <1>3

LEMMA FlattenIs ==
  ASSUME NEW seqs, Len(seqs) \in Nat \ {0}
  PROVE  \E f : Flattening(seqs, Len(seqs), f) /\ FlattenSeq(seqs) = f[Len(seqs)]
<1>1. \E f : Flattening(seqs, Len(seqs), f)
  BY FlatteningExists
<1> QED
  BY <1>1 DEF Flattening, FlattenSeq

LEMMA ConcatAppend ==
  ASSUME NEW T, NEW q \in Seq(T), NEW r \in Seq(T), NEW p \in T
  PROVE  /\ q \o r \in Seq(T) /\ Append(q, p) \in Seq(T)
         /\ q \o Append(r, p) = Append(q \o r, p)
         /\ r = <<>> => q \o r = q /\ Append(q, p) \o r = Append(q, p)
<1>1. q \o r \in Seq(T) /\ Append(q, p) \in Seq(T)
  OBVIOUS
<1>2. q \o Append(r, p) = Append(q \o r, p)
  OBVIOUS
<1>3. r = <<>> => q \o r = q /\ Append(q, p) \o r = Append(q, p)
  OBVIOUS
<1> QED
  BY <1>1, <1>2, <1>3

\* A new last element of one of the sequences, where those after it are empty,
\* is a new last element of the concatenation.
LEMMA FlattenAppend ==
  ASSUME NEW T, NEW L \in Seq(Seq(T)), NEW M \in Seq(Seq(T)), Len(M) = Len(L),
         NEW s \in 1..Len(L), NEW p \in T,
         \A i \in 1..Len(L) : M[i] = IF i = s THEN Append(L[i], p) ELSE L[i],
         \A i \in 1..Len(L) : i > s => L[i] = <<>>
  PROVE  FlattenSeq(L) \in Seq(T) /\ FlattenSeq(M) = Append(FlattenSeq(L), p)
<1>0. Len(L) \in Nat \ {0} /\ \A i \in 1..Len(L) : L[i] \in Seq(T)
  OBVIOUS
<1>1. PICK f : Flattening(L, Len(L), f) /\ FlattenSeq(L) = f[Len(L)]
  BY <1>0, FlattenIs
<1>2. PICK m : Flattening(M, Len(L), m) /\ FlattenSeq(M) = m[Len(L)]
  BY <1>0, FlattenIs
<1> DEFINE good(i) == f[i] \in Seq(T) /\ m[i] = IF i < s THEN f[i] ELSE Append(f[i], p)
           U == {0} \cup {i \in 1..Len(L) : good(i)}
<1>3. ASSUME NEW i \in 0..(Len(L) - 1), i \in U
      PROVE  i + 1 \in U
  <2> DEFINE j == i + 1
  <2>1. /\ j \in 1..Len(L) /\ s \in Nat /\ L[j] \in Seq(T)
        /\ M[j] = IF j = s THEN Append(L[j], p) ELSE L[j]
        /\ j > s => L[j] = <<>>
    BY <1>0
  <2>2. CASE i = 0
    <3>1. f[j] = L[j] /\ m[j] = M[j]
      BY <1>0, <1>1, <1>2, <2>2 DEF Flattening
    <3>2. j = 1
      BY <2>2
    <3>3. good(j)
      BY <2>1, <3>1, <3>2
    <3> QED
      BY <2>1, <3>3
  <2>3. CASE i # 0
    <3>1. f[j] = f[i] \o L[j] /\ m[j] = m[i] \o M[j]
      <4>1. i \in Nat /\ j # 1 /\ j - 1 = i
        BY <2>3
      <4> QED
        <5>1. /\ f[j] = IF j = 1 THEN L[j] ELSE f[j - 1] \o L[j]
              /\ m[j] = IF j = 1 THEN M[j] ELSE m[j - 1] \o M[j]
          BY <1>1, <1>2, <2>1 DEF Flattening
        <5> QED
          BY <4>1, <5>1
    <3>2. i \in Nat /\ j = i + 1 /\ f[i] \in Seq(T) /\ m[i] = IF i < s THEN f[i] ELSE Append(f[i], p)
      BY <2>3, <1>3
    <3> HIDE DEF j
    <3> DEFINE q == f[i]
               r == L[j]
    <3>3. q \in Seq(T) /\ r \in Seq(T) /\ p \in T
      BY <2>1, <3>2
    <3> HIDE DEF q, r, U, good
    <3>4. /\ q \o r \in Seq(T) /\ q \o Append(r, p) = Append(q \o r, p)
          /\ r = <<>> => q \o r = q /\ Append(q, p) \o r = Append(q, p)
      <4>1. q \o r \in Seq(T)
        BY <3>3, ConcatAppend
      <4>2. q \o Append(r, p) = Append(q \o r, p)
        BY <3>3, ConcatAppend, SMTT(30)
      <4>3. r = <<>> => q \o r = q /\ Append(q, p) \o r = Append(q, p)
        BY <3>3, ConcatAppend
      <4> QED
        BY <4>1, <4>2, <4>3
    <3>5. f[j] \in Seq(T)
      BY <3>1, <3>4 DEF q, r
    <3>6. ASSUME j < s PROVE good(j)
      <4>1. i < s /\ M[j] = L[j]
        BY <2>1, <3>2, <3>6
      <4>2. m[j] = f[j]
        BY <3>1, <3>2, <4>1
      <4> QED
        BY <3>5, <3>6, <4>2 DEF good
    <3>7. ASSUME j = s PROVE good(j)
      <4>1. i < s /\ M[j] = Append(L[j], p) /\ ~(j < s)
        BY <2>1, <3>2, <3>7
      <4>2. m[j] = Append(f[j], p)
        BY <3>1, <3>2, <3>4, <4>1 DEF q, r
      <4> QED
        BY <3>5, <4>1, <4>2 DEF good
    <3>8. ASSUME j > s PROVE good(j)
      <4>1. ~(i < s) /\ M[j] = L[j] /\ L[j] = <<>> /\ ~(j < s)
        <5>1. s \in Nat /\ i \in Nat /\ j = i + 1
          BY <2>1, <3>2
        <5> QED
          BY <2>1, <3>8, <5>1
      <4>2. m[j] = Append(f[j], p)
        BY <3>1, <3>2, <3>4, <4>1 DEF q, r
      <4> QED
        BY <3>5, <4>1, <4>2 DEF good
    <3>9. good(j)
      <4>1. s \in Nat /\ j \in Nat
        BY <2>1, <3>2
      <4> QED
        BY <3>6, <3>7, <3>8, <4>1
    <3> QED
      BY <2>1, <3>9 DEF U, j
  <2> QED
    BY <2>2, <2>3
<1>4. 0..Len(L) \subseteq U
  <2> HIDE DEF U
  <2>1. 0 \in U
    BY DEF U
  <2> QED
    BY <1>0, <1>3, <2>1, IntervalSetInduction
<1>5. good(Len(L))
  <2> HIDE DEF good
  <2> QED
    BY <1>0, <1>4
<1> QED
  BY <1>0, <1>1, <1>2, <1>5

LEMMA FlattenEmpty ==
  ASSUME NEW L \in Seq({<<>>}), Len(L) # 0
  PROVE  FlattenSeq(L) = <<>>
<1>0. Len(L) \in Nat \ {0} /\ \A i \in 1..Len(L) : L[i] = <<>>
  OBVIOUS
<1>1. PICK f : Flattening(L, Len(L), f) /\ FlattenSeq(L) = f[Len(L)]
  BY <1>0, FlattenIs
<1> DEFINE U == {0} \cup {i \in 1..Len(L) : f[i] = <<>>}
<1>2. ASSUME NEW i \in 0..(Len(L) - 1), i \in U
      PROVE  i + 1 \in U
  <2> DEFINE j == i + 1
  <2>1. j \in 1..Len(L) /\ L[j] = <<>>
    BY <1>0
  <2>2. f[j] = IF j = 1 THEN L[j] ELSE f[j - 1] \o L[j]
    BY <1>1, <2>1 DEF Flattening
  <2>3. j = 1 \/ f[j - 1] = <<>>
    BY <1>2
  <2>4. f[j] = <<>>
    BY <2>1, <2>2, <2>3
  <2> QED
    BY <2>1, <2>4
<1>3. 0..Len(L) \subseteq U
  <2>1. 0 \in U
    OBVIOUS
  <2> HIDE DEF U
  <2> QED
    BY <1>0, <1>2, <2>1, IntervalSetInduction
<1> QED
  BY <1>0, <1>1, <1>3

LEMMA LinesTyped ==
  ASSUME NEW facts, NEW T, \A f \in Frames : Deliveries(facts, f) \in T
  PROVE  Lines(facts) \in Seq(T) /\ Len(Lines(facts)) = FrameCount
<1> DEFINE s == [f \in Frames |-> Deliveries(facts, f)]
<1>1. s \in Seq(T) /\ Len(s) = FrameCount
  BY ScoringAssumption DEF Frames
<1>2. Lines(facts) = Listed(s)
  BY DEF Lines
<1>3. Listed(s) = s
  <2> HIDE DEF s
  <2> QED
    BY <1>1, ListedIs
<1> QED
  BY <1>1, <1>2, <1>3

(***************************** one more ball *******************************)

\* The frames before the next slot's take no ball.
LEMMA NextSlotFirst ==
  ASSUME NEW facts, NextLegalSlot(facts) # NoSlot,
         NEW f \in Frames, f < NextLegalSlot(facts).frame
  PROVE  ~Takes(f, Deliveries(facts, f))
<1> DEFINE d == Lines(facts)
           open == {e \in Frames : Takes(e, d[e])}
           first == CHOOSE e \in open : \A g \in open : e <= g
<1>1. open # {} /\ NextLegalSlot(facts) = [frame |-> first, roll |-> Len(d[first]) + 1]
  BY DEF NextLegalSlot, Takes
<1>2. \E e \in open : \A g \in open : e <= g
  <2>1. open \in SUBSET Nat
    BY DEF Frames
  <2> HIDE DEF open
  <2> QED
    BY <1>1, <2>1, LeastNumber
<1>3. first \in open /\ \A g \in open : first <= g
  <2> HIDE DEF open
  <2> QED
    BY <1>2
<1>4. first \in Nat /\ f \in Nat
  BY <1>3 DEF Frames
<1>5. f < first
  <2> HIDE DEF first
  <2> QED
    BY <1>1
<1>6. f \notin open
  <2> HIDE DEF open, first
  <2> QED
    BY <1>3, <1>4, <1>5
<1>7. d[f] = Deliveries(facts, f)
  BY LinesAre
<1> HIDE DEF d
<1> QED
  BY <1>6, <1>7

\* A game with its balls in order, and the same with one more ball x that comes
\* next in its frame.
Joined(old, new, x) ==
  /\ new = old \cup {x} /\ x.frame \in Frames /\ x.pins \in 0..Pins
  /\ \A f \in Frames : /\ Told(old, f, Deliveries(old, f))
                       /\ Told(new, f, Deliveries(new, f))
  /\ x.roll = Len(Deliveries(old, x.frame)) + 1

LEMMA DeliveriesJoined ==
  ASSUME NEW old, NEW new, NEW x, Joined(old, new, x), NEW f \in Frames
  PROVE  Deliveries(new, f) = IF f = x.frame THEN Append(Deliveries(old, f), x.pins)
                                             ELSE Deliveries(old, f)
<1>1. CASE f # x.frame
  <2>1. InFrame(new, f) = InFrame(old, f)
    BY <1>1 DEF Joined, InFrame
  <2> QED
    BY <1>1, <2>1 DEF Deliveries
<1>2. CASE f = x.frame
  <2> DEFINE d == Deliveries(old, f)
             e == Deliveries(new, f)
             n == Len(d)
             S == InFrame(old, f)
  <2>1. /\ d \in Seq(0..Pins) /\ n \in 0..3 /\ {y.roll : y \in S} = 1..n
        /\ \A y \in S : y.pins = d[y.roll]
    BY DEF Joined, Told
  <2>2. /\ e \in Seq(0..Pins) /\ Len(e) \in 0..3 /\ {y.roll : y \in S \cup {x}} = 1..Len(e)
        /\ \A y \in S \cup {x} : y.pins = e[y.roll]
    <3>1. InFrame(new, f) = S \cup {x}
      BY <1>2 DEF Joined, InFrame
    <3> QED
      BY <3>1 DEF Joined, Told
  <2>3. x.roll = n + 1 /\ x.pins \in 0..Pins
    BY <1>2 DEF Joined
  <2> HIDE DEF d, e, S
  <2>4. Len(e) = n + 1
    <3>1. n + 1 \in 1..Len(e)
      BY <2>2, <2>3
    <3>2. Len(e) \in 1..n \/ Len(e) = n + 1
      <4>1. PICK y \in S \cup {x} : y.roll = Len(e)
        BY <2>2, <3>1
      <4> QED
        BY <2>1, <2>3, <4>1
    <3> QED
      BY <2>1, <2>2, <3>1, <3>2
  <2>5. \A i \in 1..n : e[i] = d[i]
    <3> TAKE i \in 1..n
    <3>1. PICK y \in S : y.roll = i
      BY <2>1
    <3> QED
      BY <2>1, <2>2, <3>1
  <2>6. e[n + 1] = x.pins
    BY <2>2, <2>3
  <2>7. e = Append(d, x.pins)
    <3> HIDE DEF n
    <3>1. Append(d, x.pins) \in Seq(0..Pins) /\ Len(Append(d, x.pins)) = n + 1
      BY <2>1, <2>3 DEF n
    <3>2. \A i \in 1..(n + 1) : Append(d, x.pins)[i] = e[i]
      BY <2>1, <2>3, <2>5, <2>6 DEF n
    <3> QED
      BY <2>2, <2>4, <3>1, <3>2
  <2> QED
    BY <1>2, <2>7 DEF d, e
<1> QED
  BY <1>1, <1>2

\* Where no later frame holds a ball, the balls of the game in their order are
\* those before and the new one.
LEMMA LinesJoined ==
  ASSUME NEW old, NEW new, NEW x, Joined(old, new, x),
         \A y \in old : y.frame <= x.frame
  PROVE  /\ FlattenSeq(Lines(old)) \in Seq(0..Pins)
         /\ FlattenSeq(Lines(new)) = Append(FlattenSeq(Lines(old)), x.pins)
<1> DEFINE L == Lines(old)
           M == Lines(new)
           s == x.frame
<1>1. \A f \in Frames : Deliveries(old, f) \in Seq(0..Pins) /\ Deliveries(new, f) \in Seq(0..Pins)
  BY DEF Joined, Told
<1>2. L \in Seq(Seq(0..Pins)) /\ Len(L) = FrameCount
  BY <1>1, LinesTyped
<1>3. M \in Seq(Seq(0..Pins)) /\ Len(M) = FrameCount
  BY <1>1, LinesTyped
<1>4. s \in 1..FrameCount /\ x.pins \in 0..Pins
  BY DEF Joined, Frames
<1>5. \A f \in 1..FrameCount : M[f] = IF f = s THEN Append(L[f], x.pins) ELSE L[f]
  <2> SUFFICES ASSUME NEW f \in Frames
               PROVE  M[f] = IF f = s THEN Append(L[f], x.pins) ELSE L[f]
    BY DEF Frames
  <2>1. M[f] = Deliveries(new, f) /\ L[f] = Deliveries(old, f)
    BY LinesAre
  <2>2. Deliveries(new, f) = IF f = s THEN Append(Deliveries(old, f), x.pins)
                                      ELSE Deliveries(old, f)
    BY DeliveriesJoined
  <2> HIDE DEF L, M, s
  <2> QED
    BY <2>1, <2>2
<1>6. \A f \in 1..FrameCount : f > s => L[f] = <<>>
  <2> SUFFICES ASSUME NEW f \in Frames, f > s
               PROVE  Deliveries(old, f) = <<>>
    BY LinesAre DEF Frames
  <2>1. InFrame(old, f) = {}
    BY <1>4 DEF InFrame, Frames
  <2>2. Told(old, f, Deliveries(old, f))
    BY DEF Joined
  <2> DEFINE d == Deliveries(old, f)
  <2> HIDE DEF d
  <2>3. d \in Seq(0..Pins) /\ Len(d) \in 0..3 /\ {} = 1..Len(d)
    BY <2>1, <2>2 DEF Told, d
  <2>4. Len(d) = 0
    <3>1. Len(d) \notin 1..Len(d)
      BY <2>3
    <3> QED
      BY <2>3, <3>1
  <2>5. d = <<>>
    BY <2>3, <2>4
  <2> QED
    BY <2>5 DEF d
<1> HIDE DEF L, M, s
<1>7. /\ Len(M) = Len(L) /\ s \in 1..Len(L)
      /\ \A f \in 1..Len(L) : M[f] = IF f = s THEN Append(L[f], x.pins) ELSE L[f]
      /\ \A f \in 1..Len(L) : f > s => L[f] = <<>>
  BY <1>2, <1>3, <1>4, <1>5, <1>6
<1>8. FlattenSeq(L) \in Seq(0..Pins) /\ FlattenSeq(M) = Append(FlattenSeq(L), x.pins)
  <2> DEFINE T == 0..Pins
  <2>1. L \in Seq(Seq(T)) /\ M \in Seq(Seq(T)) /\ x.pins \in T
    BY <1>2, <1>3, <1>4
  <2> HIDE DEF T
  <2>2. FlattenSeq(L) \in Seq(T) /\ FlattenSeq(M) = Append(FlattenSeq(L), x.pins)
    BY <1>7, <2>1, FlattenAppend
  <2> QED
    BY <2>2 DEF T
<1> QED
  BY <1>8 DEF L, M

LEMMA NoBalls ==
  ASSUME NEW f \in Frames
  PROVE  Told({}, f, Deliveries({}, f)) /\ Deliveries({}, f) = <<>>
<1> DEFINE d == Deliveries({}, f)
<1>1. InFrame({}, f) = {} /\ Balls({}) /\ Cardinality({}) = 0
  BY FS_EmptySet DEF InFrame, Balls
<1>2. {x.roll : x \in {}} = 1..0
  OBVIOUS
<1>3. Told({}, f, d)
  BY <1>1, <1>2, DeliveriesTell
<1> HIDE DEF d
<1>4. d \in Seq(0..Pins) /\ Len(d) \in 0..3 /\ {} = 1..Len(d)
  BY <1>1, <1>3 DEF Told
<1>5. Len(d) = 0
  <2>1. Len(d) \notin 1..Len(d)
    BY <1>4
  <2> QED
    BY <1>4, <2>1
<1>6. d = <<>>
  BY <1>4, <1>5
<1> QED
  BY <1>3, <1>6 DEF d

LEMMA NoLines == FlattenSeq(Lines({})) = <<>>
<1>1. \A f \in Frames : Deliveries({}, f) \in {<<>>}
  BY NoBalls
<1>2. Lines({}) \in Seq({<<>>}) /\ Len(Lines({})) = FrameCount
  BY <1>1, LinesTyped
<1> QED
  BY <1>2, FlattenEmpty, ScoringAssumption

(**************************** the score of a frame *************************)

\* What the balls after a frame are, when one more ball has been bowled.
Longer(n, m, p) == m = Append(n, p) \/ n = <<>>

LEMMA BonusStays ==
  ASSUME NEW d, NEW n \in Seq(0..Pins), NEW p \in 0..Pins, NEW m, Longer(n, m, p),
         Strike(d) \/ Spare(d), Bonus(d, n) # Null
  PROVE  Bonus(d, m) = Bonus(d, n) /\ Bonus(d, n) \in Nat
<1>1. Len(n) \in Nat /\ \A i \in 1..Len(n) : n[i] \in 0..Pins /\ n[i] # Null
  <2>1. \A i \in 1..Len(n) : n[i] \in 0..Pins
    BY ElementsOf
  <2> QED
    BY <2>1, ScoringAssumption DEF Null
<1>2. Len(n) >= 2
  <2>1. Len(n) < 2 => Bonus(d, n) = Null
    BY <1>1 DEF Bonus
  <2> QED
    BY <1>1, <2>1
<1>3. n[1] \in 0..Pins /\ n[2] \in 0..Pins /\ n[2] # Null
  BY <1>1, <1>2
<1>4. n # <<>>
  BY <1>2
<1>5. m = Append(n, p)
  BY <1>4 DEF Longer
<1>6. Len(m) = Len(n) + 1 /\ m[1] = n[1] /\ m[2] = n[2]
  BY <1>1, <1>2, <1>5
<1>7. Bonus(d, n) = IF Strike(d) THEN n[1] + n[2] ELSE n[2]
  BY <1>1, <1>2, <1>3 DEF Bonus
<1>8. Bonus(d, m) = IF Strike(d) THEN n[1] + n[2] ELSE n[2]
  BY <1>1, <1>2, <1>3, <1>6 DEF Bonus
<1> QED
  BY <1>3, <1>7, <1>8, ScoringAssumption

LEMMA ProjectionStays ==
  ASSUME NEW f \in Frames, f < FrameCount, NEW d \in Seq(0..Pins),
         NEW n \in Seq(0..Pins), NEW p \in 0..Pins, NEW m, Longer(n, m, p),
         Projection(f, d, n).resolved
  PROVE  Projection(f, d, m) = Projection(f, d, n) /\ Projection(f, d, n).score \in Nat
<1>1. \A i \in 1..Len(d) : d[i] \in 0..Pins
  BY ElementsOf
<1>2. Len(d) \in Nat /\ f # FrameCount
  BY DEF Frames
<1>3. CASE Open(d)
  <2>1. d[1] + d[2] \in Nat
    BY <1>1, <1>2, <1>3, ScoringAssumption DEF Open
  <2>2. Projection(f, d, n).score = d[1] + d[2]
    BY <1>3 DEF Projection
  <2>3. Projection(f, d, m) = Projection(f, d, n)
    BY <1>3 DEF Projection
  <2> QED
    BY <2>1, <2>2, <2>3
<1>4. CASE ~Open(d)
  <2>1. Strike(d) \/ Spare(d)
    BY <1>4 DEF Projection
  <2>2. Bonus(d, n) # Null
    BY <1>2, <1>4, <2>1 DEF Projection
  <2>3. Bonus(d, m) = Bonus(d, n) /\ Bonus(d, n) \in Nat
    BY <2>1, <2>2, BonusStays
  <2>4. Projection(f, d, n).score = Pins + Bonus(d, n)
    BY <1>2, <1>4, <2>1, <2>2 DEF Projection
  <2>5. Projection(f, d, m) = Projection(f, d, n)
    BY <2>3 DEF Projection
  <2> QED
    BY <2>3, <2>4, <2>5, ScoringAssumption
<1> QED
  BY <1>3, <1>4

\* A frame that can take a ball, or has none, is not resolved.
LEMMA UnfinishedUnresolved ==
  ASSUME NEW f \in Frames, NEW d \in Seq(0..Pins), Takes(f, d) \/ Len(d) = 0, NEW n
  PROVE  ~Projection(f, d, n).resolved
<1>1. Len(d) \in Nat
  OBVIOUS
<1>2. CASE f # FrameCount
  <2>1. f < FrameCount
    BY <1>2, ScoringAssumption DEF Frames
  <2>2. ~Strike(d) /\ ~Spare(d) /\ ~Open(d)
    BY <1>1, <2>1 DEF Takes, Strike, Spare, Open
  <2>3. Projection(f, d, n).score = Null
    BY <2>2 DEF Projection
  <2> QED
    BY <2>3 DEF Projection
<1>3. CASE f = FrameCount
  <2>1. ~(f < FrameCount)
    BY <1>3, ScoringAssumption
  <2>2. ~FrameComplete(f, d)
    <3>1. Len(d) < 2 \/ (Len(d) = 2 /\ (Strike(d) \/ Spare(d)))
      BY <1>1, <2>1 DEF Takes
    <3>2. CASE Strike(d) \/ Spare(d)
      BY <1>1, <2>1, <3>1, <3>2 DEF FrameComplete
    <3>3. CASE ~(Strike(d) \/ Spare(d))
      <4>1. Len(d) < 2
        BY <3>1, <3>3
      <4>2. FrameComplete(f, d) => Len(d) = 2
        BY <2>1, <3>3 DEF FrameComplete
      <4> QED
        BY <4>1, <4>2
    <3> QED
      BY <3>2, <3>3
  <2> QED
    BY <1>3, <2>2 DEF Projection
<1> QED
  BY <1>2, <1>3

(******************************* the score sheet ***************************)

\* The balls after the first one of frame f, as deriveGame takes them.
After(facts, f) ==
  LET stream == FlattenSeq([i \in 1..(FrameCount - f + 1) |-> Lines(facts)[f + i - 1]])
  IN  IF stream = <<>> THEN <<>> ELSE Tail(stream)

\* deriveGame scores the game.
Scored(facts) ==
  Status(facts) \notin {"NOT_STARTED", "DOMAIN_INVALID_REQUIRING_REPAIR"}

LEMMA UnscoredSheet ==
  ASSUME NEW facts, ~Scored(facts), NEW f \in Frames
  PROVE  ~DeriveGame(facts).frames[f].resolved
<1>1. DeriveGame(facts) = Unscored(Lines(facts), Status(facts))
  BY DEF DeriveGame, Scored, Status
<1> QED
  BY <1>1 DEF Unscored

LEMMA ListedFrames ==
  ASSUME NEW s, s = [f \in Frames |-> s[f]]
  PROVE  Listed(s) = s
<1> DEFINE T == {s[f] : f \in Frames}
<1>1. \A f \in Frames : s[f] \in T
  OBVIOUS
<1> HIDE DEF T
<1>2. s \in [Frames -> T]
  BY <1>1
<1>3. s \in Seq(T)
  BY <1>2, ScoringAssumption DEF Frames
<1> QED
  BY <1>3, ListedIs

LEMMA SheetIs ==
  ASSUME NEW facts, Scored(facts)
  PROVE  \E frames :
           /\ DeriveGame(facts).frames = frames
           /\ DeriveGame(facts).totals = RunningTotals(frames)
           /\ \A f \in Frames :
                frames[f] = Projection(f, Deliveries(facts, f), After(facts, f))
<1> DEFINE d == Lines(facts)
           after(f) == LET stream == FlattenSeq([i \in 1..(FrameCount - f + 1) |-> d[f + i - 1]])
                       IN  IF stream = <<>> THEN <<>> ELSE Tail(stream)
           s == [f \in Frames |-> Projection(f, d[f], after(f))]
           frames == Listed(s)
<1>1. s = [f \in Frames |-> s[f]]
  OBVIOUS
<1>2. frames = s
  <2> HIDE DEF s
  <2> QED
    BY <1>1, ListedFrames
<1>3. /\ DeriveGame(facts).frames = frames
      /\ DeriveGame(facts).totals = RunningTotals(frames)
  BY DEF DeriveGame, Scored, Status
<1>4. ASSUME NEW f \in Frames
      PROVE  frames[f] = Projection(f, Deliveries(facts, f), After(facts, f))
  <2>1. after(f) = After(facts, f)
    BY DEF After
  <2>2. d[f] = Deliveries(facts, f)
    BY LinesAre
  <2>3. s[f] = Projection(f, d[f], after(f))
    <3> HIDE DEF d, after
    <3> QED
      OBVIOUS
  <2> HIDE DEF d, after, s
  <2> QED
    BY <1>2, <2>1, <2>2, <2>3
<1> QED
  BY <1>3, <1>4

ScoreSum(S, a) == LET value(f) == a[f].score IN Sum(S, value)

LEMMA ScoreSumIs ==
  ASSUME NEW S, IsFiniteSet(S), NEW a
  PROVE  \E g : Totaling([x \in S |-> a[x].score], S, g) /\ ScoreSum(S, a) = g[S]
<1> DEFINE u(x) == a[x].score
           v == [x \in S |-> a[x].score]
<1>1. \A s \in SUBSET S : s # {} => (CHOOSE x \in s : TRUE) \in S
  OBVIOUS
<1>2. PICK h : Totaling(v, S, h)
  BY TotalExists
<1>3. h = [s \in SUBSET S |->
             IF s = {} THEN 0
             ELSE u(CHOOSE x \in s : TRUE) + h[s \ {CHOOSE x \in s : TRUE}]]
  BY <1>1, <1>2, Zenon DEF Totaling
<1>4. PICK g : /\ g = [s \in SUBSET S |->
                         IF s = {} THEN 0
                         ELSE u(CHOOSE x \in s : TRUE) + g[s \ {CHOOSE x \in s : TRUE}]]
               /\ ScoreSum(S, a) = g[S]
  BY <1>3 DEF ScoreSum, Sum, MapThenSumSet, MapThenFoldSet
<1>5. Totaling(v, S, g)
  BY <1>1, <1>4, Zenon DEF Totaling
<1> QED
  BY <1>4, <1>5

LEMMA SameSums ==
  ASSUME NEW S, IsFiniteSet(S), NEW a, NEW b,
         \A x \in S : a[x].score \in Int /\ b[x].score = a[x].score
  PROVE  ScoreSum(S, a) = ScoreSum(S, b)
<1> DEFINE v == [x \in S |-> a[x].score]
           w == [x \in S |-> b[x].score]
<1>1. PICK g : Totaling(v, S, g) /\ ScoreSum(S, a) = g[S]
  BY ScoreSumIs
<1>2. PICK h : Totaling(w, S, h) /\ ScoreSum(S, b) = h[S]
  BY ScoreSumIs
<1>3. \A x \in S : v[x] \in Int /\ w[x] = v[x]
  OBVIOUS
<1> HIDE DEF v, w
<1>4. h[S] = g[S]
  BY <1>1, <1>2, <1>3, EqualTotals
<1> QED
  BY <1>1, <1>2, <1>4

\* The total of a frame after frames that all have a score.
LEMMA TotalIs ==
  ASSUME NEW a, NEW f \in Frames, \A e \in 1..f : a[e].score \in Nat
  PROVE  RunningTotals(a)[f] = ScoreSum(1..f, a)
<1> DEFINE u(x) == a[x].score
           scored(i) == {e \in 1..i : a[e].score # Null}
           s == [i \in Frames |-> IF a[i].score = Null THEN Null ELSE Sum(scored(i), u)]
<1>1. RunningTotals(a) = Listed(s)
  BY DEF RunningTotals
<1>2. s = [i \in Frames |-> s[i]]
  OBVIOUS
<1>3. Listed(s) = s
  <2> HIDE DEF s
  <2> QED
    BY <1>2, ListedFrames
<1>4. scored(f) = 1..f /\ a[f].score # Null
  BY ScoringAssumption DEF Null, Frames
<1>5. s[f] = Sum(scored(f), u)
  <2> HIDE DEF scored
  <2> QED
    BY <1>4
<1>6. s[f] = Sum(1..f, u)
  BY <1>4, <1>5
<1> HIDE DEF s
<1> QED
  BY <1>1, <1>3, <1>6 DEF ScoreSum

LEMMA TotalsStay ==
  ASSUME NEW a, NEW b, NEW f \in Frames,
         \A e \in 1..f : a[e].score \in Nat /\ b[e] = a[e]
  PROVE  RunningTotals(b)[f] = RunningTotals(a)[f]
<1>1. IsFiniteSet(1..f)
  BY FS_Interval, ScoringAssumption DEF Frames
<1> DEFINE S == 1..f
<1>2. \A x \in S : a[x].score \in Int /\ b[x].score = a[x].score /\ b[x].score \in Nat
  OBVIOUS
<1>3. ScoreSum(S, a) = ScoreSum(S, b)
  <2> HIDE DEF S
  <2> QED
    BY <1>1, <1>2, SameSums DEF S
<1>4. RunningTotals(a)[f] = ScoreSum(S, a)
  BY TotalIs
<1>5. RunningTotals(b)[f] = ScoreSum(S, b)
  BY <1>2, TotalIs
<1> QED
  BY <1>3, <1>4, <1>5

LEMMA AfterJoined ==
  ASSUME NEW old, NEW new, NEW x, Joined(old, new, x),
         \A y \in old : y.frame <= x.frame, NEW f \in Frames, f < x.frame
  PROVE  /\ After(old, f) \in Seq(0..Pins)
         /\ Longer(After(old, f), After(new, f), x.pins)
<1> DEFINE n == FrameCount - f + 1
           L == [i \in 1..n |-> Lines(old)[f + i - 1]]
           M == [i \in 1..n |-> Lines(new)[f + i - 1]]
           s == x.frame - f + 1
           T == 0..Pins
<1>1. x.frame \in Frames /\ x.pins \in T
  BY DEF Joined
<1>2. n \in Nat /\ s \in 1..n /\ \A i \in 1..n : f + i - 1 \in Frames
  BY <1>1, ScoringAssumption DEF Frames
<1>3. \A i \in 1..n : L[i] = Deliveries(old, f + i - 1) /\ M[i] = Deliveries(new, f + i - 1)
  BY <1>2, LinesAre
<1>4. \A e \in Frames : /\ Deliveries(old, e) \in Seq(T) /\ Deliveries(new, e) \in Seq(T)
                        /\ Deliveries(new, e) = IF e = x.frame
                                                THEN Append(Deliveries(old, e), x.pins)
                                                ELSE Deliveries(old, e)
  <2> SUFFICES ASSUME NEW e \in Frames
               PROVE  /\ Deliveries(old, e) \in Seq(T) /\ Deliveries(new, e) \in Seq(T)
                      /\ Deliveries(new, e) = IF e = x.frame
                                              THEN Append(Deliveries(old, e), x.pins)
                                              ELSE Deliveries(old, e)
    OBVIOUS
  <2>1. Deliveries(old, e) \in Seq(T) /\ Deliveries(new, e) \in Seq(T)
    BY DEF Joined, Told
  <2>2. Deliveries(new, e) = IF e = x.frame THEN Append(Deliveries(old, e), x.pins)
                                            ELSE Deliveries(old, e)
    BY DeliveriesJoined
  <2> QED
    BY <2>1, <2>2
<1>5. \A e \in Frames : e > x.frame => Deliveries(old, e) = <<>>
  <2> SUFFICES ASSUME NEW e \in Frames, e > x.frame
               PROVE  Deliveries(old, e) = <<>>
    OBVIOUS
  <2>1. InFrame(old, e) = {}
    BY <1>1 DEF InFrame, Frames
  <2>2. Told(old, e, Deliveries(old, e))
    BY DEF Joined
  <2> DEFINE d == Deliveries(old, e)
  <2> HIDE DEF d
  <2>3. d \in Seq(0..Pins) /\ Len(d) \in 0..3 /\ {} = 1..Len(d)
    BY <2>1, <2>2 DEF Told, d
  <2>4. Len(d) = 0
    <3>1. Len(d) \notin 1..Len(d)
      BY <2>3
    <3> QED
      BY <2>3, <3>1
  <2>5. d = <<>>
    BY <2>3, <2>4
  <2> QED
    BY <2>5 DEF d
<1>6. L \in Seq(Seq(T)) /\ M \in Seq(Seq(T)) /\ Len(L) = n /\ Len(M) = n
  <2>1. \A i \in 1..n : L[i] \in Seq(T) /\ M[i] \in Seq(T)
    BY <1>2, <1>3, <1>4
  <2> HIDE DEF T, n
  <2> QED
    BY <1>2, <2>1
<1>7. \A i \in 1..n : /\ M[i] = IF i = s THEN Append(L[i], x.pins) ELSE L[i]
                      /\ i > s => L[i] = <<>>
  <2> SUFFICES ASSUME NEW i \in 1..n
               PROVE  /\ M[i] = IF i = s THEN Append(L[i], x.pins) ELSE L[i]
                      /\ i > s => L[i] = <<>>
    OBVIOUS
  <2> DEFINE e == f + i - 1
  <2>1. e \in Frames /\ (e = x.frame <=> i = s) /\ (i > s => e > x.frame)
    BY <1>1, <1>2 DEF Frames
  <2>2. L[i] = Deliveries(old, e) /\ M[i] = Deliveries(new, e)
    BY <1>3
  <2> HIDE DEF e, L, M, s
  <2> QED
    BY <1>4, <1>5, <2>1, <2>2
<1>8. FlattenSeq(L) \in Seq(T) /\ FlattenSeq(M) = Append(FlattenSeq(L), x.pins)
  <2> HIDE DEF T, n, L, M, s
  <2>1. /\ Len(M) = Len(L) /\ s \in 1..Len(L) /\ x.pins \in T
        /\ \A i \in 1..Len(L) : M[i] = IF i = s THEN Append(L[i], x.pins) ELSE L[i]
        /\ \A i \in 1..Len(L) : i > s => L[i] = <<>>
    BY <1>1, <1>2, <1>6, <1>7
  <2> QED
    BY <1>6, <2>1, FlattenAppend
<1> DEFINE stream == FlattenSeq(L)
           longer == FlattenSeq(M)
<1>9. /\ After(old, f) = IF stream = <<>> THEN <<>> ELSE Tail(stream)
      /\ After(new, f) = IF longer = <<>> THEN <<>> ELSE Tail(longer)
  BY DEF After
<1> HIDE DEF stream, longer, L, M, s, n
<1>10. CASE stream = <<>>
  <2>1. After(old, f) = <<>>
    BY <1>9, <1>10
  <2> QED
    BY <2>1 DEF Longer
<1>11. CASE stream # <<>>
  <2>1. stream \in Seq(T) /\ longer = Append(stream, x.pins)
    BY <1>8 DEF stream, longer
  <2> HIDE DEF T
  <2>2. Tail(stream) \in Seq(T) /\ longer # <<>>
    BY <1>1, <1>11, <2>1
  <2>3. Tail(longer) = Append(Tail(stream), x.pins)
    BY <1>1, <1>11, <2>1
  <2>4. After(old, f) = Tail(stream) /\ After(new, f) = Tail(longer)
    BY <1>9, <1>11, <2>2
  <2> QED
    BY <2>2, <2>3, <2>4 DEF Longer, T
<1> QED
  BY <1>10, <1>11

\* A ball at the next slot leaves resolved frames and their totals alone.
LEMMA SheetStays ==
  ASSUME NEW old, NEW new, NEW x, Joined(old, new, x), Scored(old), Scored(new),
         \A y \in old : y.frame <= x.frame, Takes(x.frame, Deliveries(old, x.frame)),
         NEW f \in Frames, DeriveGame(old).frames[f].resolved
  PROVE  /\ DeriveGame(new).frames[f] = DeriveGame(old).frames[f]
         /\ (\A e \in 1..f : DeriveGame(old).frames[e].resolved) =>
              DeriveGame(new).totals[f] = DeriveGame(old).totals[f]
<1>1. PICK a : /\ DeriveGame(old).frames = a /\ DeriveGame(old).totals = RunningTotals(a)
               /\ \A e \in Frames : a[e] = Projection(e, Deliveries(old, e), After(old, e))
  BY SheetIs
<1>2. PICK b : /\ DeriveGame(new).frames = b /\ DeriveGame(new).totals = RunningTotals(b)
               /\ \A e \in Frames : b[e] = Projection(e, Deliveries(new, e), After(new, e))
  BY SheetIs
<1>3. ASSUME NEW e \in Frames, a[e].resolved
      PROVE  b[e] = a[e] /\ a[e].score \in Nat
  <2> DEFINE d == Deliveries(old, e)
             n == After(old, e)
             m == After(new, e)
  <2>1. d \in Seq(0..Pins) /\ x.frame \in Frames /\ x.pins \in 0..Pins
    BY DEF Joined, Told
  <2>2. a[e] = Projection(e, d, n)
    BY <1>1
  <2>3. ~(e > x.frame)
    <3>1. ASSUME e > x.frame
          PROVE  Len(d) = 0
      <4>1. InFrame(old, e) = {}
        BY <2>1, <3>1 DEF InFrame, Frames
      <4>2. Told(old, e, d)
        BY DEF Joined
      <4> HIDE DEF d
      <4>3. Len(d) \in 0..3 /\ {} = 1..Len(d)
        BY <4>1, <4>2 DEF Told
      <4>4. Len(d) \notin 1..Len(d)
        BY <4>3
      <4> QED
        BY <4>3, <4>4
    <3> HIDE DEF d, n
    <3> QED
      BY <1>3, <2>1, <2>2, <3>1, UnfinishedUnresolved
  <2>4. e # x.frame
    <3>1. e = x.frame => Takes(e, d)
      OBVIOUS
    <3> HIDE DEF d, n
    <3> QED
      BY <1>3, <2>1, <2>2, <3>1, UnfinishedUnresolved
  <2>5. e < x.frame /\ e < FrameCount
    BY <2>1, <2>3, <2>4, ScoringAssumption DEF Frames
  <2>6. n \in Seq(0..Pins) /\ Longer(n, m, x.pins)
    BY <2>5, AfterJoined
  <2>7. b[e] = Projection(e, d, m)
    BY <1>2, <2>4, DeliveriesJoined
  <2> HIDE DEF d, n, m
  <2>8. Projection(e, d, m) = Projection(e, d, n) /\ Projection(e, d, n).score \in Nat
    BY <1>3, <2>1, <2>2, <2>5, <2>6, ProjectionStays
  <2> QED
    BY <2>2, <2>7, <2>8
<1>4. b[f] = a[f]
  BY <1>1, <1>3
<1>5. ASSUME \A e \in 1..f : a[e].resolved
      PROVE  RunningTotals(b)[f] = RunningTotals(a)[f]
  <2>1. 1..f \subseteq Frames
    BY ScoringAssumption DEF Frames
  <2>2. \A e \in 1..f : a[e].score \in Nat /\ b[e] = a[e]
    BY <1>3, <1>5, <2>1
  <2> QED
    BY <2>2, TotalsStay
<1> QED
  BY <1>1, <1>2, <1>4, <1>5
LEMMA SumNat ==
  ASSUME NEW S, IsFiniteSet(S), NEW v, \A x \in S : v[x] \in Nat
  PROVE  SumOf(S, v) \in Nat
<1> DEFINE U == {s \in SUBSET S : SumOf(s, v) \in Nat}
<1>1. {} \in U
  BY SumNone
<1>2. ASSUME NEW s \in SUBSET S, s \in U, NEW x \in S \ s
      PROVE  s \cup {x} \in U
  <2>1. IsFiniteSet(s) /\ x \notin s /\ s \cup {x} \in SUBSET S
    BY <1>2, FS_Subset
  <2>2. \A y \in s \cup {x} : v[y] \in Int
    BY <2>1
  <2>3. SumOf(s \cup {x}, v) = SumOf(s, v) + v[x]
    BY <2>1, <2>2, SumAdd
  <2>4. SumOf(s \cup {x}, v) \in Nat
    BY <1>2, <2>3
  <2> QED
    BY <2>1, <2>4
<1> HIDE DEF U
<1>3. S \in U
  BY <1>1, <1>2, PartInduction
<1> QED
  BY <1>3 DEF U

\* A finite set of numbers has its largest and its smallest.
LEMMA ExtremesExist ==
  ASSUME NEW S \in SUBSET Nat, IsFiniteSet(S), S # {}
  PROVE  (\E x \in S : \A y \in S : x >= y) /\ (\E x \in S : \A y \in S : x <= y)
<1> DEFINE U == {s \in SUBSET S : s # {} => /\ \E x \in s : \A y \in s : x >= y
                                           /\ \E x \in s : \A y \in s : x <= y}
<1>1. {} \in U
  OBVIOUS
<1>2. ASSUME NEW s \in SUBSET S, s \in U, NEW a \in S \ s
      PROVE  s \cup {a} \in U
  <2> DEFINE t == s \cup {a}
  <2>1. CASE s = {}
    BY <2>1
  <2>2. CASE s # {}
    <3>1. PICK x \in s : \A y \in s : x >= y
      BY <1>2, <2>2
    <3>2. PICK z \in s : \A y \in s : z <= y
      BY <1>2, <2>2
    <3>3. \E w \in t : \A y \in t : w >= y
      <4>1. CASE x >= a
        BY <3>1, <4>1
      <4>2. CASE ~(x >= a)
        BY <3>1, <4>2
      <4> QED
        BY <4>1, <4>2
    <3>4. \E w \in t : \A y \in t : w <= y
      <4>1. CASE z <= a
        BY <3>2, <4>1
      <4>2. CASE ~(z <= a)
        BY <3>2, <4>2
      <4> QED
        BY <4>1, <4>2
    <3>5. t \in SUBSET S
      OBVIOUS
    <3> QED
      BY <3>3, <3>4, <3>5
  <2> QED
    BY <2>1, <2>2
<1> HIDE DEF U
<1>3. S \in U
  BY <1>1, <1>2, PartInduction
<1> QED
  BY <1>3 DEF U

LEMMA ExtremesAre ==
  ASSUME NEW S \in SUBSET Nat, IsFiniteSet(S), S # {}
  PROVE  /\ Max(S) \in S /\ \A y \in S : y <= Max(S)
         /\ Min(S) \in S /\ \A y \in S : Min(S) <= y
<1>1. (\E x \in S : \A y \in S : x >= y) /\ (\E x \in S : \A y \in S : x <= y)
  BY ExtremesExist
<1>2. Max(S) \in S /\ \A y \in S : Max(S) >= y
  BY <1>1 DEF Max
<1>3. Min(S) \in S /\ \A y \in S : Min(S) <= y
  BY <1>1 DEF Min
<1> QED
  BY <1>2, <1>3

=============================================================================

------------------------ MODULE ScoringSessionProofs ------------------------
(***************************************************************************)
(* Proofs about the scoring operations of one device, for every number of  *)
(* games, frames and pins and every bound on the work done.                *)
(***************************************************************************)
EXTENDS ScoringSession, ScoringProofs

(************************** the inductive invariant ************************)

\* Rows are numbered in the order in which they were made.
Numbered(T) ==
  /\ IsFiniteSet(T)
  /\ \A x \in T : x.id \in 1..Cardinality(T)
  /\ \A x, y \in T : x.id = y.id => x = y

\* A ball has at most one pin detail that was not removed.
OneDetailPerBall(R, D) ==
  /\ \A d \in D : d.roll \in 1..Cardinality(R)
  /\ \A d, e \in D : d.roll = e.roll /\ ~d.deleted /\ ~e.deleted => d = e

\* Entries and corrections are about rows that exist.
KeysKnown(S, rollCount, detailCount) ==
  \A e \in S : \A i \in Nat :
    /\ e.key = RollKey(i) => i <= rollCount
    /\ e.key = DetailKey(i) => i <= detailCount

About(S, key) == {e \in S : e.key = key}

\* The entries E and the corrections C of one row tell how it came to its
\* value: an entry for each version from first on, and a correction for each
\* change of value.
Story(E, C, first, version, value, deleted) ==
  LET last == version - (IF deleted THEN 2 ELSE 1)
      after(c, v) == \E d \in C : d.prior = c.prior + 1 /\ d.from = v
  IN  /\ IsFiniteSet(E) /\ Cardinality(E) = version - first
      /\ {e.expected : e \in E} = first..(version - 1)
      /\ {c.prior : c \in C} = 1..last
      /\ \A e \in E : e.expected = last => e.value = value
      /\ \A e \in E : e.op = "DELETE" <=> e.expected > last
      /\ \A e \in E : e.op = "CREATE" =>
           (\E c \in C : c.prior = 1 /\ c.from = e.value) \/ (C = {} /\ value = e.value)
      /\ \A c \in C : after(c, c.to) \/ (c.to = value /\ \A d \in C : d.prior <= c.prior)

RollStory(x, out, cor) ==
  Story(About(out, RollKey(x.id)), About(cor, RollKey(x.id)),
        IF x.own THEN 0 ELSE 1, x.version, Value(x.pins, NoSet), FALSE)

DetailStory(d, out, cor) ==
  Story(About(out, DetailKey(d.id)), About(cor, DetailKey(d.id)),
        0, d.version, Value(Null, d.standing), d.deleted)

RollRow == [id: Nat, game: Game, frame: Frames, roll: 1..3, pins: 0..Pins,
            version: Nat \ {0}, own: BOOLEAN]

DetailRow == [id: Nat, roll: Nat, standing: SUBSET Rack, basis: Nat \ {0},
              version: Nat \ {0}, deleted: BOOLEAN]

\* The rolls R and the pin detail D are explained by the entries and the
\* corrections.
Books(R, D, out, cor) ==
  /\ R \subseteq RollRow /\ Numbered(R)
  /\ D \subseteq DetailRow /\ Numbered(D)
  /\ OneDetailPerBall(R, D)
  /\ KeysKnown(out, Cardinality(R), Cardinality(D))
  /\ KeysKnown(cor, Cardinality(R), Cardinality(D))
  /\ \A x \in R : RollStory(x, out, cor)
  /\ \A d \in D : DetailStory(d, out, cor)

BooksKept == Books(rolls, details, outbox, corrections)

\* What the operation between two of its transactions remembers.
Operation ==
  /\ busy \in {Idle} \cup [op: {"start"}, game: Game]
                     \cup [op: {"standing"}, roll: Nat, standing: SUBSET Rack]
  /\ busy.op = "start" =>
       /\ games[busy.game] = "live"
       /\ \E k \in 0..(FrameCount - 1) : frames[busy.game] = 1..k

\* Only live games have frames, and the device's own balls are in them.
OwnBallsLive ==
  /\ \A g \in Game : games[g] # "live" => frames[g] = {}
  /\ \A x \in rolls : x.own => x.frame \in frames[x.game]

Made(g, f) == Entry(FrameKey(g, f), "CREATE", 0, NoValue)
Gone(g, f) == Entry(FrameKey(g, f), "DELETE", 1, NoValue)

\* A frame that the server will hear of is there, or is deleted again.
FramesAccounted ==
  \A g \in Game, f \in Frames : Made(g, f) \in outbox =>
    \/ f \in frames[g]
    \/ games[g] = "archived" /\ Gone(g, f) \in outbox

IInv ==
  /\ TypeOK
  /\ BooksKept
  /\ Operation
  /\ OwnBallsLive
  /\ FramesAccounted

(************************** the rows and their keys ************************)

LEMMA KeysDiffer ==
  ASSUME NEW i \in Nat, NEW j \in Nat, NEW g, NEW f
  PROVE  /\ RollKey(i) # DetailKey(j)
         /\ RollKey(i) = RollKey(j) => i = j
         /\ DetailKey(i) = DetailKey(j) => i = j
         /\ RollKey(i) # FrameKey(g, f) /\ RollKey(i) # GameKey(g)
         /\ DetailKey(i) # FrameKey(g, f) /\ DetailKey(i) # GameKey(g)
BY DEF RollKey, FrameKey, DetailKey, GameKey

LEMMA FrameKeysDiffer ==
  ASSUME NEW g \in Nat, NEW h \in Nat, NEW f \in Nat, NEW e \in Nat
  PROVE  /\ FrameKey(g, f) # GameKey(h)
         /\ FrameKey(g, f) = FrameKey(h, e) => g = h /\ f = e
BY DEF FrameKey, GameKey

LEMMA EntryFields ==
  ASSUME NEW k, NEW o, NEW n, NEW v
  PROVE  /\ Entry(k, o, n, v).key = k /\ Entry(k, o, n, v).op = o
         /\ Entry(k, o, n, v).expected = n /\ Entry(k, o, n, v).value = v
BY DEF Entry

LEMMA NumberedAdd ==
  ASSUME NEW T, Numbered(T), NEW r, r.id = Cardinality(T) + 1
  PROVE  /\ Numbered(T \cup {r}) /\ r \notin T
         /\ Cardinality(T \cup {r}) = Cardinality(T) + 1
         /\ Cardinality(T) \in Nat
<1>1. IsFiniteSet(T) /\ Cardinality(T) \in Nat
  BY FS_CardinalityType DEF Numbered
<1>2. \A x \in T : x.id # r.id
  BY <1>1 DEF Numbered
<1>3. r \notin T
  BY <1>2
<1>4. /\ IsFiniteSet(T \cup {r})
      /\ Cardinality(T \cup {r}) = Cardinality(T) + 1
  BY <1>1, <1>3, FS_AddElement
<1>5. \A x \in T \cup {r} : x.id \in 1..(Cardinality(T) + 1)
  BY <1>1 DEF Numbered
<1>6. \A x, y \in T \cup {r} : x.id = y.id => x = y
  BY <1>2 DEF Numbered
<1> QED
  BY <1>1, <1>3, <1>4, <1>5, <1>6 DEF Numbered

LEMMA NumberedReplace ==
  ASSUME NEW T, Numbered(T), NEW x \in T, NEW r, r.id = x.id
  PROVE  /\ Numbered((T \ {x}) \cup {r})
         /\ Cardinality((T \ {x}) \cup {r}) = Cardinality(T)
<1> DEFINE R == T \ {x}
<1>1. IsFiniteSet(T) /\ Cardinality(T) \in Nat
  BY FS_CardinalityType DEF Numbered
<1>2. IsFiniteSet(R) /\ Cardinality(R) = Cardinality(T) - 1
  BY <1>1, FS_RemoveElement
<1>3. r \notin R
  BY DEF Numbered
<1>4. IsFiniteSet(R \cup {r}) /\ Cardinality(R \cup {r}) = Cardinality(R) + 1
  <2> HIDE DEF R
  <2> QED
    BY <1>2, <1>3, FS_AddElement
<1>5. Cardinality(R \cup {r}) = Cardinality(T)
  BY <1>1, <1>2, <1>4
<1>6. /\ \A y \in R \cup {r} : y.id \in 1..Cardinality(T)
      /\ \A y, z \in R \cup {r} : y.id = z.id => y = z
  BY DEF Numbered
<1> QED
  BY <1>4, <1>5, <1>6 DEF Numbered

(*************************** the story of a row ****************************)

LEMMA StoryBegins ==
  ASSUME NEW e, e.op = "CREATE", e.expected = 0
  PROVE  Story({e}, {}, 0, 1, e.value, FALSE)
<1>1. IsFiniteSet({e}) /\ Cardinality({e}) = 1
  BY FS_Singleton
<1>2. {x.expected : x \in {e}} = 0..0 /\ {c.prior : c \in {}} = 1..0
  OBVIOUS
<1> QED
  BY <1>1, <1>2 DEF Story

LEMMA StoryReceived ==
  ASSUME NEW v
  PROVE  Story({}, {}, 1, 1, v, FALSE)
BY FS_EmptySet DEF Story

LEMMA StoryCorrected ==
  ASSUME NEW E, NEW C, NEW first \in {0, 1}, NEW version \in Nat \ {0}, NEW value,
         Story(E, C, first, version, value, FALSE),
         NEW e, e.op = "CORRECT", e.expected = version,
         NEW c, c.prior = version, c.from = value, c.to = e.value
  PROVE  Story(E \cup {e}, C \cup {c}, first, version + 1, e.value, FALSE)
<1>1. /\ IsFiniteSet(E) /\ Cardinality(E) = version - first
      /\ {x.expected : x \in E} = first..(version - 1)
      /\ {x.prior : x \in C} = 1..(version - 1)
      /\ \A x \in E : x.expected = version - 1 => x.value = value
      /\ \A x \in E : x.op = "DELETE" <=> x.expected > version - 1
      /\ \A x \in E : x.op = "CREATE" =>
           \/ \E d \in C : d.prior = 1 /\ d.from = x.value
           \/ C = {} /\ value = x.value
      /\ \A d \in C : \/ \E b \in C : b.prior = d.prior + 1 /\ b.from = d.to
                      \/ d.to = value /\ \A b \in C : b.prior <= d.prior
  BY DEF Story
<1>2. /\ \A x \in E : x.expected \in first..(version - 1)
      /\ \A n \in first..(version - 1) : \E x \in E : x.expected = n
      /\ \A d \in C : d.prior \in 1..(version - 1)
      /\ \A n \in 1..(version - 1) : \E d \in C : d.prior = n
  BY <1>1
<1>3. e \notin E
  BY <1>2
<1>4. IsFiniteSet(E \cup {e}) /\ Cardinality(E \cup {e}) = version + 1 - first
  BY <1>1, <1>3, FS_AddElement
<1>5. {x.expected : x \in E \cup {e}} = first..version
  <2>1. \A n : n \in first..version <=> n \in first..(version - 1) \/ n = version
    OBVIOUS
  <2>2. \A n : n \in {x.expected : x \in E \cup {e}}
                <=> n \in {x.expected : x \in E} \/ n = version
    OBVIOUS
  <2> QED
    BY <1>1, <2>1, <2>2
<1>6. {d.prior : d \in C \cup {c}} = 1..version
  <2>1. \A n : n \in 1..version <=> n \in 1..(version - 1) \/ n = version
    OBVIOUS
  <2>2. \A n : n \in {d.prior : d \in C \cup {c}}
                <=> n \in {d.prior : d \in C} \/ n = version
    OBVIOUS
  <2> QED
    BY <1>1, <2>1, <2>2
<1>7. \A x \in E \cup {e} : x.expected = version => x.value = e.value
  BY <1>2
<1>8. \A x \in E \cup {e} : x.op = "DELETE" <=> x.expected > version
  BY <1>1, <1>2
<1>9. \A x \in E \cup {e} : x.op = "CREATE" =>
        \E d \in C \cup {c} : d.prior = 1 /\ d.from = x.value
  <2> SUFFICES ASSUME NEW x \in E, x.op = "CREATE",
                      ~\E d \in C : d.prior = 1 /\ d.from = x.value
               PROVE  c.prior = 1 /\ c.from = x.value
    OBVIOUS
  <2>1. C = {} /\ value = x.value
    BY <1>1
  <2>2. version = 1
    BY <1>2, <2>1
  <2> QED
    BY <2>1, <2>2
<1>10. ASSUME NEW d \in C
       PROVE  \E b \in C \cup {c} : b.prior = d.prior + 1 /\ b.from = d.to
  <2>1. CASE \E b \in C : b.prior = d.prior + 1 /\ b.from = d.to
    BY <2>1
  <2>2. CASE d.to = value /\ \A b \in C : b.prior <= d.prior
    <3>1. d.prior \in 1..(version - 1) /\ version - 1 \in 1..(version - 1)
      BY <1>2
    <3>2. version - 1 <= d.prior
      BY <1>2, <2>2, <3>1
    <3> QED
      BY <2>2, <3>1, <3>2
  <2> QED
    BY <1>1, <2>1, <2>2
<1>11. c.to = e.value /\ \A b \in C \cup {c} : b.prior <= c.prior
  BY <1>2
<1> DEFINE E1 == E \cup {e}
           C1 == C \cup {c}
<1>12. (version + 1) - 1 = version
  OBVIOUS
<1>13. /\ IsFiniteSet(E1) /\ Cardinality(E1) = version + 1 - first
       /\ {x.expected : x \in E1} = first..((version + 1) - 1)
       /\ {x.prior : x \in C1} = 1..((version + 1) - 1)
       /\ \A x \in E1 : x.expected = (version + 1) - 1 => x.value = e.value
       /\ \A x \in E1 : x.op = "DELETE" <=> x.expected > (version + 1) - 1
       /\ \A x \in E1 : x.op = "CREATE" =>
            \/ \E d \in C1 : d.prior = 1 /\ d.from = x.value
            \/ C1 = {} /\ e.value = x.value
       /\ \A d \in C1 : \/ \E b \in C1 : b.prior = d.prior + 1 /\ b.from = d.to
                        \/ d.to = e.value /\ \A b \in C1 : b.prior <= d.prior
  BY <1>4, <1>5, <1>6, <1>7, <1>8, <1>9, <1>10, <1>11, <1>12
<1> QED
  <2> HIDE DEF E1, C1
  <2>1. Story(E1, C1, first, version + 1, e.value, FALSE)
    BY <1>13 DEF Story
  <2> QED
    BY <2>1 DEF E1, C1

LEMMA StoryDeleted ==
  ASSUME NEW E, NEW C, NEW version \in Nat \ {0}, NEW value,
         Story(E, C, 0, version, value, FALSE),
         NEW e, e.op = "DELETE", e.expected = version
  PROVE  Story(E \cup {e}, C, 0, version + 1, value, TRUE)
<1>1. /\ IsFiniteSet(E) /\ Cardinality(E) = version - 0
      /\ {x.expected : x \in E} = 0..(version - 1)
      /\ {x.prior : x \in C} = 1..(version - 1)
      /\ \A x \in E : x.expected = version - 1 => x.value = value
      /\ \A x \in E : x.op = "DELETE" <=> x.expected > version - 1
      /\ \A x \in E : x.op = "CREATE" =>
           \/ \E d \in C : d.prior = 1 /\ d.from = x.value
           \/ C = {} /\ value = x.value
      /\ \A d \in C : \/ \E b \in C : b.prior = d.prior + 1 /\ b.from = d.to
                      \/ d.to = value /\ \A b \in C : b.prior <= d.prior
  BY DEF Story
<1>2. \A x \in E : x.expected \in 0..(version - 1)
  BY <1>1
<1>3. e \notin E
  BY <1>2
<1>4. IsFiniteSet(E \cup {e}) /\ Cardinality(E \cup {e}) = version + 1
  BY <1>1, <1>3, FS_AddElement
<1>5. {x.expected : x \in E \cup {e}} = 0..version
  <2>1. \A n : n \in 0..version <=> n \in 0..(version - 1) \/ n = version
    OBVIOUS
  <2>2. \A n : n \in {x.expected : x \in E \cup {e}}
                <=> n \in {x.expected : x \in E} \/ n = version
    OBVIOUS
  <2> QED
    BY <1>1, <2>1, <2>2
<1>6. \A x \in E \cup {e} : x.expected = version - 1 => x.value = value
  BY <1>1
<1>7. \A x \in E \cup {e} : x.op = "DELETE" <=> x.expected > version - 1
  BY <1>1
<1>8. \A x \in E \cup {e} : x.op = "CREATE" => x \in E
  OBVIOUS
<1> DEFINE E1 == E \cup {e}
<1>9. (version + 1) - 1 = version /\ (version + 1) - 2 = version - 1
  OBVIOUS
<1>10. /\ IsFiniteSet(E1) /\ Cardinality(E1) = (version + 1) - 0
       /\ {x.expected : x \in E1} = 0..((version + 1) - 1)
       /\ {x.prior : x \in C} = 1..((version + 1) - 2)
       /\ \A x \in E1 : x.expected = (version + 1) - 2 => x.value = value
       /\ \A x \in E1 : x.op = "DELETE" <=> x.expected > (version + 1) - 2
       /\ \A x \in E1 : x.op = "CREATE" =>
            \/ \E d \in C : d.prior = 1 /\ d.from = x.value
            \/ C = {} /\ value = x.value
       /\ \A d \in C : \/ \E b \in C : b.prior = d.prior + 1 /\ b.from = d.to
                       \/ d.to = value /\ \A b \in C : b.prior <= d.prior
  BY <1>1, <1>4, <1>5, <1>6, <1>7, <1>8, <1>9
<1> QED
  <2> HIDE DEF E1
  <2>1. Story(E1, C, 0, version + 1, value, TRUE)
    BY <1>10 DEF Story
  <2> QED
    BY <2>1 DEF E1

(****************************** shapes of rows *****************************)

LEMMA WithPins ==
  ASSUME NEW x \in RollRow, NEW new \in 0..Pins
  PROVE  LET r == [x EXCEPT !.pins = new]
         IN  /\ r \in RollRow
             /\ r.id = x.id /\ r.game = x.game /\ r.frame = x.frame /\ r.roll = x.roll
             /\ r.pins = new /\ r.version = x.version /\ r.own = x.own
BY DEF RollRow

LEMMA WithVersion ==
  ASSUME NEW x \in RollRow, NEW new \in Nat \ {0}
  PROVE  LET r == [x EXCEPT !.version = new]
         IN  /\ r \in RollRow
             /\ r.id = x.id /\ r.game = x.game /\ r.frame = x.frame /\ r.roll = x.roll
             /\ r.pins = x.pins /\ r.version = new /\ r.own = x.own
BY DEF RollRow

RollWith(x, pins) == [x EXCEPT !.pins = pins, !.version = @ + 1]

LEMMA CorrectedRollIs ==
  ASSUME NEW x \in RollRow, NEW pins \in 0..Pins
  PROVE  /\ RollWith(x, pins) \in RollRow /\ RollWith(x, pins).id = x.id
         /\ RollWith(x, pins).game = x.game /\ RollWith(x, pins).frame = x.frame
         /\ RollWith(x, pins).roll = x.roll /\ RollWith(x, pins).pins = pins
         /\ RollWith(x, pins).version = x.version + 1 /\ RollWith(x, pins).own = x.own
<1> DEFINE y == [x EXCEPT !.pins = pins]
           v == x.version + 1
           z == [y EXCEPT !.version = v]
<1>1. /\ y \in RollRow /\ y.id = x.id /\ y.game = x.game /\ y.frame = x.frame
      /\ y.roll = x.roll /\ y.pins = pins /\ y.own = x.own
  BY WithPins
<1>2. v \in Nat \ {0}
  BY DEF RollRow
<1> HIDE DEF y, v
<1>3. /\ z \in RollRow /\ z.id = y.id /\ z.game = y.game /\ z.frame = y.frame
      /\ z.roll = y.roll /\ z.pins = y.pins /\ z.version = v /\ z.own = y.own
  BY <1>1, <1>2, WithVersion
<1>4. z = RollWith(x, pins)
  BY Zenon DEF RollWith, y, v
<1> HIDE DEF z
<1> QED
  BY <1>1, <1>3, <1>4, Zenon DEF v

LEMMA WithStanding ==
  ASSUME NEW d \in DetailRow, NEW new \in SUBSET Rack
  PROVE  LET r == [d EXCEPT !.standing = new]
         IN  /\ r \in DetailRow
             /\ r.id = d.id /\ r.roll = d.roll /\ r.standing = new
             /\ r.basis = d.basis /\ r.version = d.version /\ r.deleted = d.deleted
BY DEF DetailRow

LEMMA WithBasis ==
  ASSUME NEW d \in DetailRow, NEW new \in Nat \ {0}
  PROVE  LET r == [d EXCEPT !.basis = new]
         IN  /\ r \in DetailRow
             /\ r.id = d.id /\ r.roll = d.roll /\ r.standing = d.standing
             /\ r.basis = new /\ r.version = d.version /\ r.deleted = d.deleted
BY DEF DetailRow

LEMMA WithDetailVersion ==
  ASSUME NEW d \in DetailRow, NEW new \in Nat \ {0}
  PROVE  LET r == [d EXCEPT !.version = new]
         IN  /\ r \in DetailRow
             /\ r.id = d.id /\ r.roll = d.roll /\ r.standing = d.standing
             /\ r.basis = d.basis /\ r.version = new /\ r.deleted = d.deleted
BY DEF DetailRow

LEMMA WithDeleted ==
  ASSUME NEW d \in DetailRow, NEW new \in BOOLEAN
  PROVE  LET r == [d EXCEPT !.deleted = new]
         IN  /\ r \in DetailRow
             /\ r.id = d.id /\ r.roll = d.roll /\ r.standing = d.standing
             /\ r.basis = d.basis /\ r.version = d.version /\ r.deleted = new
BY DEF DetailRow

DetailWith(d, s, b) == [d EXCEPT !.standing = s, !.basis = b, !.version = @ + 1]

LEMMA CorrectedDetailIs ==
  ASSUME NEW d \in DetailRow, NEW s \in SUBSET Rack, NEW b \in Nat \ {0}
  PROVE  /\ DetailWith(d, s, b) \in DetailRow /\ DetailWith(d, s, b).id = d.id
         /\ DetailWith(d, s, b).roll = d.roll /\ DetailWith(d, s, b).standing = s
         /\ DetailWith(d, s, b).basis = b /\ DetailWith(d, s, b).version = d.version + 1
         /\ DetailWith(d, s, b).deleted = d.deleted
<1> DEFINE x == [d EXCEPT !.standing = s]
           y == [x EXCEPT !.basis = b]
           v == d.version + 1
           z == [y EXCEPT !.version = v]
<1>1. /\ x \in DetailRow /\ x.id = d.id /\ x.roll = d.roll /\ x.standing = s
      /\ x.deleted = d.deleted
  BY WithStanding
<1>2. v \in Nat \ {0}
  BY DEF DetailRow
<1> HIDE DEF x, v
<1>3. /\ y \in DetailRow /\ y.id = x.id /\ y.roll = x.roll /\ y.standing = x.standing
      /\ y.basis = b /\ y.deleted = x.deleted
  BY <1>1, WithBasis
<1> HIDE DEF y
<1>4. /\ z \in DetailRow /\ z.id = y.id /\ z.roll = y.roll /\ z.standing = y.standing
      /\ z.basis = y.basis /\ z.version = v /\ z.deleted = y.deleted
  BY <1>2, <1>3, WithDetailVersion
<1>5. z = DetailWith(d, s, b)
  BY Zenon DEF DetailWith, x, y, v
<1> HIDE DEF z
<1> QED
  BY <1>1, <1>3, <1>4, <1>5, Zenon DEF v

DetailWithout(d) == [d EXCEPT !.deleted = TRUE, !.version = @ + 1]

LEMMA RemovedDetailIs ==
  ASSUME NEW d \in DetailRow
  PROVE  /\ DetailWithout(d) \in DetailRow /\ DetailWithout(d).id = d.id
         /\ DetailWithout(d).roll = d.roll /\ DetailWithout(d).standing = d.standing
         /\ DetailWithout(d).basis = d.basis /\ DetailWithout(d).version = d.version + 1
         /\ DetailWithout(d).deleted = TRUE
<1> DEFINE y == [d EXCEPT !.deleted = TRUE]
           v == d.version + 1
           z == [y EXCEPT !.version = v]
<1>1. /\ y \in DetailRow /\ y.id = d.id /\ y.roll = d.roll /\ y.standing = d.standing
      /\ y.basis = d.basis /\ y.deleted = TRUE
  BY WithDeleted
<1>2. v \in Nat \ {0}
  BY DEF DetailRow
<1> HIDE DEF y, v
<1>3. /\ z \in DetailRow /\ z.id = y.id /\ z.roll = y.roll /\ z.standing = y.standing
      /\ z.basis = y.basis /\ z.version = v /\ z.deleted = y.deleted
  BY <1>1, <1>2, WithDetailVersion
<1>4. z = DetailWithout(d)
  BY Zenon DEF DetailWithout, y, v
<1> HIDE DEF z
<1> QED
  BY <1>1, <1>3, <1>4, Zenon DEF v

(************************ entries of other entities ************************)

LEMMA OtherEntries ==
  ASSUME NEW S, NEW more,
         \A e \in more : \A i \in Nat : e.key # RollKey(i) /\ e.key # DetailKey(i)
  PROVE  /\ \A i \in Nat : /\ About(S \cup more, RollKey(i)) = About(S, RollKey(i))
                           /\ About(S \cup more, DetailKey(i)) = About(S, DetailKey(i))
         /\ \A m, n : KeysKnown(S, m, n) => KeysKnown(S \cup more, m, n)
<1>1. \A i \in Nat : /\ About(S \cup more, RollKey(i)) = About(S, RollKey(i))
                     /\ About(S \cup more, DetailKey(i)) = About(S, DetailKey(i))
  BY DEF About
<1>2. \A m, n : KeysKnown(S, m, n) => KeysKnown(S \cup more, m, n)
  BY DEF KeysKnown
<1> QED
  BY <1>1, <1>2

\* Steps on games and frames leave the rows and their stories alone.
LEMMA RowsUntouched ==
  ASSUME IInv, NEW more, outbox' = outbox \cup more,
         \A e \in more : \A i \in Nat : e.key # RollKey(i) /\ e.key # DetailKey(i),
         UNCHANGED <<rolls, details, corrections>>
  PROVE  BooksKept'
<1>1. Books(rolls, details, outbox, corrections)
  BY DEF IInv, BooksKept
<1>2. KeysKnown(outbox', Cardinality(rolls), Cardinality(details))
  BY <1>1, OtherEntries DEF Books
<1>3. /\ \A x \in rolls : x.id \in Nat
      /\ \A d \in details : d.id \in Nat
  BY DEF IInv, TypeOK
<1>4. \A i \in Nat : /\ About(outbox', RollKey(i)) = About(outbox, RollKey(i))
                     /\ About(outbox', DetailKey(i)) = About(outbox, DetailKey(i))
  BY OtherEntries
<1>5. \A x \in rolls : RollStory(x, outbox', corrections)
  BY <1>1, <1>3, <1>4 DEF Books, RollStory
<1>6. \A d \in details : DetailStory(d, outbox', corrections)
  BY <1>1, <1>3, <1>4 DEF Books, DetailStory
<1>7. Books(rolls, details, outbox', corrections)
  BY <1>1, <1>2, <1>5, <1>6 DEF Books
<1> QED
  BY <1>7 DEF BooksKept

\* Steps on balls and pin detail leave the frames and their entries alone.
LEMMA FramesUntouched ==
  ASSUME IInv, NEW more, outbox' = outbox \cup more,
         \A e \in more : \E i \in Nat : e.key \in {RollKey(i), DetailKey(i)},
         UNCHANGED <<games, frames>>
  PROVE  FramesAccounted'
<1>1. \A g \in Game, f \in Frames : Made(g, f) \notin more
  BY KeysDiffer, EntryFields DEF Made
<1>2. \A g \in Game, f \in Frames : Made(g, f) \in outbox' => Made(g, f) \in outbox
  BY <1>1
<1> QED
  BY <1>2 DEF IInv, FramesAccounted, Made, Gone

LEMMA OperationEnds ==
  ASSUME busy' = Idle
  PROVE  Operation'
BY DEF Operation, Idle

(************************* steps on games and frames ***********************)

LEMMA InitOK == Init => IInv
<1> SUFFICES ASSUME Init
             PROVE  IInv
  OBVIOUS
<1>1. TypeOK
  BY DEF Init, TypeOK, Idle
<1>2. Numbered({})
  BY FS_EmptySet DEF Numbered
<1>3. BooksKept
  <2>1. Books({}, {}, {}, {})
    BY <1>2 DEF Books, OneDetailPerBall, KeysKnown
  <2> QED
    BY <2>1 DEF Init, BooksKept
<1>4. OwnBallsLive /\ FramesAccounted
  BY DEF Init, OwnBallsLive, FramesAccounted
<1>5. Operation
  BY DEF Init, Operation, Idle
<1> QED
  BY <1>1, <1>3, <1>4, <1>5 DEF IInv

LEMMA StartGameStep ==
  ASSUME IInv, NEW g \in Game, StartGame(g)
  PROVE  IInv'
<1> DEFINE e == Entry(GameKey(g), "CREATE", 0, NoValue)
<1>1. /\ games[g] = "none" /\ games' = [games EXCEPT ![g] = "live"]
      /\ outbox' = outbox \cup {e}
      /\ busy' = [op |-> "start", game |-> g]
      /\ UNCHANGED <<frames, rolls, details, corrections>>
  BY DEF StartGame
<1>2. e.key = GameKey(g)
  BY EntryFields
<1> HIDE DEF e
<1>3. TypeOK'
  BY <1>1 DEF IInv, TypeOK
<1>4. BooksKept'
  <2> DEFINE more == {e}
  <2>1. \A x \in more : \A i \in Nat : x.key # RollKey(i) /\ x.key # DetailKey(i)
    BY <1>2, KeysDiffer
  <2>2. outbox' = outbox \cup more
    BY <1>1
  <2> HIDE DEF more
  <2> QED
    BY <1>1, <2>1, <2>2, RowsUntouched
<1>5. games \in [Game -> {"none", "live", "archived"}]
  BY DEF IInv, TypeOK
<1>6. frames[g] = {}
  BY <1>1 DEF IInv, OwnBallsLive
<1>7. Operation'
  <2>1. {} = 1..0 /\ 0 \in 0..(FrameCount - 1)
    BY ScoringAssumption
  <2>2. games'[g] = "live" /\ frames'[g] = {}
    BY <1>1, <1>5, <1>6
  <2>3. \E k \in 0..(FrameCount - 1) : frames'[g] = 1..k
    BY <2>1, <2>2
  <2>4. busy'.op = "start" /\ busy'.game = g
    BY <1>1
  <2>5. busy' \in [op: {"start"}, game: Game]
    BY <1>1
  <2> QED
    BY <2>2, <2>3, <2>4, <2>5 DEF Operation
<1>8. OwnBallsLive'
  BY <1>1, <1>5, <1>6 DEF IInv, OwnBallsLive
<1>9. FramesAccounted'
  <2> SUFFICES ASSUME NEW h \in Game, NEW f \in Frames, Made(h, f) \in outbox'
               PROVE  \/ f \in frames'[h]
                      \/ games'[h] = "archived" /\ Gone(h, f) \in outbox'
    BY DEF FramesAccounted, Made, Gone
  <2>1. h \in Nat /\ f \in Nat /\ g \in Nat
    BY DEF Game, Frames
  <2>2. Made(h, f).key = FrameKey(h, f)
    BY EntryFields DEF Made
  <2>3. Made(h, f) # e
    BY <1>2, <2>1, <2>2, FrameKeysDiffer
  <2>4. Made(h, f) \in outbox
    BY <1>1, <2>3
  <2>5. \/ f \in frames[h]
        \/ games[h] = "archived" /\ Gone(h, f) \in outbox
    BY <2>4 DEF IInv, FramesAccounted
  <2> QED
    BY <1>1, <1>5, <2>5
<1> QED
  BY <1>3, <1>4, <1>7, <1>8, <1>9 DEF IInv

LEMMA StartFrameStep ==
  ASSUME IInv, StartFrame
  PROVE  IInv'
<1> DEFINE g == busy.game
           f == Cardinality(frames[g]) + 1
           e == Entry(FrameKey(g, f), "CREATE", 0, NoValue)
<1>1. /\ busy.op = "start"
      /\ frames' = [frames EXCEPT ![g] = @ \cup {f}]
      /\ outbox' = outbox \cup {e}
      /\ busy' = IF f = FrameCount THEN Idle ELSE busy
      /\ UNCHANGED <<games, rolls, details, corrections>>
  BY DEF StartFrame
<1>2. g \in Game /\ games[g] = "live"
  BY <1>1 DEF IInv, Operation, Idle
<1>3. PICK k \in 0..(FrameCount - 1) : frames[g] = 1..k
  BY <1>1 DEF IInv, Operation
<1>4. f = k + 1 /\ f \in Frames
  <2>1. Cardinality(1..k) = k
    BY <1>3, FS_Interval, ScoringAssumption
  <2> QED
    BY <1>3, <2>1, ScoringAssumption DEF Frames
<1>5. frames \in [Game -> SUBSET Frames]
  BY DEF IInv, TypeOK
<1>6. e.key = FrameKey(g, f) /\ e = Made(g, f)
  BY EntryFields DEF Made
<1> HIDE DEF g, f, e
<1>7. frames' \in [Game -> SUBSET Frames]
  BY <1>1, <1>2, <1>4, <1>5
<1>8. TypeOK'
  BY <1>1, <1>7 DEF IInv, TypeOK, Idle
<1>9. BooksKept'
  <2> DEFINE more == {e}
  <2>1. \A x \in more : \A i \in Nat : x.key # RollKey(i) /\ x.key # DetailKey(i)
    BY <1>6, KeysDiffer
  <2>2. outbox' = outbox \cup more
    BY <1>1
  <2> HIDE DEF more
  <2> QED
    BY <1>1, <2>1, <2>2, RowsUntouched
<1>10. frames'[g] = 1..(k + 1)
  <2>1. frames'[g] = (1..k) \cup {k + 1}
    BY <1>1, <1>2, <1>3, <1>4, <1>5
  <2> QED
    BY <1>3, <2>1
<1>11. Operation'
  <2>1. CASE f = FrameCount
    BY <1>1, <2>1, OperationEnds
  <2>2. CASE f # FrameCount
    <3>1. k + 1 \in 0..(FrameCount - 1)
      BY <1>3, <1>4, <2>2, ScoringAssumption DEF Frames
    <3>2. busy' = busy /\ games' = games
      BY <1>1, <2>2
    <3>3. busy'.game = g
      BY <3>2 DEF g
    <3>4. /\ busy \in {Idle} \cup [op: {"start"}, game: Game]
                       \cup [op: {"standing"}, roll: Nat, standing: SUBSET Rack]
      BY DEF IInv, Operation
    <3>5. games'[busy'.game] = "live"
      BY <1>2, <3>2, <3>3
    <3>6. \E j \in 0..(FrameCount - 1) : frames'[busy'.game] = 1..j
      BY <1>10, <3>1, <3>3
    <3> QED
      BY <3>2, <3>4, <3>5, <3>6 DEF Operation
  <2> QED
    BY <2>1, <2>2
<1>12. \A h \in Game : frames[h] \subseteq frames'[h]
  BY <1>1, <1>5
<1>13. OwnBallsLive'
  <2>1. \A x \in rolls : x.game \in Game
    BY DEF IInv, TypeOK
  <2>2. \A h \in Game : games'[h] # "live" => frames'[h] = {}
    BY <1>1, <1>2, <1>5 DEF IInv, OwnBallsLive
  <2>3. \A x \in rolls' : x.own => x.frame \in frames'[x.game]
    BY <1>1, <1>12, <2>1 DEF IInv, OwnBallsLive
  <2> QED
    BY <2>2, <2>3 DEF OwnBallsLive
<1>14. FramesAccounted'
  <2> SUFFICES ASSUME NEW h \in Game, NEW j \in Frames, Made(h, j) \in outbox'
               PROVE  \/ j \in frames'[h]
                      \/ games'[h] = "archived" /\ Gone(h, j) \in outbox'
    BY DEF FramesAccounted, Made, Gone
  <2>1. CASE Made(h, j) \in outbox
    <3>1. \/ j \in frames[h]
          \/ games[h] = "archived" /\ Gone(h, j) \in outbox
      BY <2>1 DEF IInv, FramesAccounted
    <3> QED
      BY <1>1, <1>12, <3>1
  <2>2. CASE Made(h, j) = e
    <3>1. FrameKey(h, j) = FrameKey(g, f)
      BY <1>6, <2>2, EntryFields DEF Made
    <3>2. h = g /\ j = f
      BY <1>2, <1>4, <3>1, FrameKeysDiffer DEF Game, Frames
    <3> QED
      BY <1>3, <1>4, <1>10, <3>2
  <2> QED
    BY <1>1, <2>1, <2>2
<1> QED
  BY <1>8, <1>9, <1>11, <1>13, <1>14 DEF IInv

LEMMA DiscardStep ==
  ASSUME IInv, NEW g \in Game, Discard(g)
  PROVE  IInv'
<1> DEFINE dead == {Entry(FrameKey(g, f), "DELETE", 1, NoValue) : f \in frames[g]}
           more == {Entry(GameKey(g), "DELETE", 1, NoValue)} \cup dead
<1>1. /\ busy = Idle /\ games[g] = "live" /\ Facts(g) = {}
      /\ games' = [games EXCEPT ![g] = "archived"]
      /\ frames' = [frames EXCEPT ![g] = {}]
      /\ outbox' = outbox \cup more
      /\ UNCHANGED <<rolls, details, corrections, busy>>
  BY DEF Discard, DiscardGuard
<1>2. /\ games \in [Game -> {"none", "live", "archived"}]
      /\ frames \in [Game -> SUBSET Frames]
  BY DEF IInv, TypeOK
<1>3. \A e \in more : \/ e.key = GameKey(g) /\ e.op = "DELETE"
                      \/ \E f \in frames[g] : e.key = FrameKey(g, f) /\ e.op = "DELETE"
  BY EntryFields
<1>4. \A f \in frames[g] : Gone(g, f) \in more
  BY DEF Gone
<1> HIDE DEF more
<1>5. TypeOK'
  BY <1>1, <1>2 DEF IInv, TypeOK
<1>6. BooksKept'
  <2>1. \A e \in more : \A i \in Nat : e.key # RollKey(i) /\ e.key # DetailKey(i)
    BY <1>3, KeysDiffer
  <2> QED
    BY <1>1, <2>1, RowsUntouched
<1>7. Operation'
  BY <1>1, OperationEnds
<1>8. OwnBallsLive'
  <2>1. \A h \in Game : games'[h] # "live" => frames'[h] = {}
    BY <1>1, <1>2 DEF IInv, OwnBallsLive
  <2>2. ASSUME NEW x \in rolls, x.own
        PROVE  x.frame \in frames'[x.game]
    <3>1. x.game \in Game /\ x.frame \in frames[x.game]
      BY <2>2 DEF IInv, TypeOK, OwnBallsLive
    <3>2. x.game # g
      BY <1>1, <3>1 DEF Facts
    <3> QED
      BY <1>1, <1>2, <3>1, <3>2
  <2> QED
    BY <1>1, <2>1, <2>2 DEF OwnBallsLive
<1>9. FramesAccounted'
  <2> SUFFICES ASSUME NEW h \in Game, NEW j \in Frames, Made(h, j) \in outbox'
               PROVE  \/ j \in frames'[h]
                      \/ games'[h] = "archived" /\ Gone(h, j) \in outbox'
    BY DEF FramesAccounted, Made, Gone
  <2>1. Made(h, j).op = "CREATE"
    BY EntryFields DEF Made
  <2>2. Made(h, j) \in outbox
    BY <1>1, <1>3, <2>1
  <2>3. \/ j \in frames[h]
        \/ games[h] = "archived" /\ Gone(h, j) \in outbox
    BY <2>2 DEF IInv, FramesAccounted
  <2>4. CASE h = g
    <3>1. games'[h] = "archived"
      BY <1>1, <1>2, <2>4
    <3>2. Gone(h, j) \in outbox'
      BY <1>1, <1>4, <2>3, <2>4
    <3> QED
      BY <3>1, <3>2
  <2>5. CASE h # g
    BY <1>1, <1>2, <2>3, <2>5
  <2> QED
    BY <2>4, <2>5
<1> QED
  BY <1>5, <1>6, <1>7, <1>8, <1>9 DEF IInv

(**************************** keeping the books ****************************)

LEMMA KeysKnownAdd ==
  ASSUME NEW S, NEW e, NEW i \in Nat,
         NEW m \in Nat, NEW n \in Nat, NEW m2 \in Nat, NEW n2 \in Nat,
         KeysKnown(S, m, n), m <= m2, n <= n2,
         (e.key = RollKey(i) /\ i <= m2) \/ (e.key = DetailKey(i) /\ i <= n2)
  PROVE  KeysKnown(S \cup {e}, m2, n2)
<1>1. \A x \in S : \A j \in Nat : /\ x.key = RollKey(j) => j <= m
                                  /\ x.key = DetailKey(j) => j <= n
  BY DEF KeysKnown
<1>2. \A x \in S : \A j \in Nat : /\ x.key = RollKey(j) => j <= m2
                                  /\ x.key = DetailKey(j) => j <= n2
  BY <1>1
<1>3. ASSUME NEW j \in Nat
      PROVE  /\ e.key = RollKey(j) => j <= m2
             /\ e.key = DetailKey(j) => j <= n2
  BY KeysDiffer
<1> QED
  BY <1>2, <1>3 DEF KeysKnown

LEMMA KeysKnownMore ==
  ASSUME NEW S, NEW m \in Nat, NEW n \in Nat, NEW m2 \in Nat, NEW n2 \in Nat,
         KeysKnown(S, m, n), m <= m2, n <= n2
  PROVE  KeysKnown(S, m2, n2)
BY DEF KeysKnown

LEMMA NewKeys ==
  ASSUME NEW S, NEW m \in Nat, NEW n \in Nat, KeysKnown(S, m, n)
  PROVE  About(S, RollKey(m + 1)) = {} /\ About(S, DetailKey(n + 1)) = {}
<1>1. \A x \in S : x.key # RollKey(m + 1) /\ x.key # DetailKey(n + 1)
  BY DEF KeysKnown
<1> QED
  BY <1>1 DEF About

LEMMA AboutOthers ==
  ASSUME NEW S, NEW e
  PROVE  \A k : k # e.key => About(S \cup {e}, k) = About(S, k)
BY DEF About

LEMMA BooksCounts ==
  ASSUME NEW R, NEW D, NEW out, NEW cor, Books(R, D, out, cor)
  PROVE  /\ Cardinality(R) \in Nat /\ Cardinality(D) \in Nat
         /\ \A x \in R : x.id \in Nat /\ x.id <= Cardinality(R) /\ x.version \in Nat \ {0}
         /\ \A d \in D : d.id \in Nat /\ d.id <= Cardinality(D) /\ d.version \in Nat \ {0}
<1>1. Cardinality(R) \in Nat /\ Cardinality(D) \in Nat
  BY FS_CardinalityType DEF Books, Numbered
<1> QED
  BY <1>1 DEF Books, Numbered, RollRow, DetailRow

\* A ball is recorded: a row of version 1 with its CREATE entry.
LEMMA RollRecorded ==
  ASSUME NEW R, NEW D, NEW out, NEW cor, Books(R, D, out, cor),
         NEW x \in RollRow, x.id = Cardinality(R) + 1, x.version = 1, x.own,
         NEW e, e.key = RollKey(x.id), e.op = "CREATE", e.expected = 0,
         e.value = Value(x.pins, NoSet)
  PROVE  Books(R \cup {x}, D, out \cup {e}, cor)
<1> DEFINE m == Cardinality(R)
           n == Cardinality(D)
           R1 == R \cup {x}
           out1 == out \cup {e}
<1>1. /\ m \in Nat /\ n \in Nat
      /\ \A y \in R : y.id \in Nat /\ y.id <= m
      /\ \A d \in D : d.id \in Nat
  BY BooksCounts
<1>2. Numbered(R1) /\ Cardinality(R1) = m + 1
  BY NumberedAdd DEF Books
<1>3. OneDetailPerBall(R1, D)
  BY <1>1, <1>2 DEF Books, OneDetailPerBall
<1>4. KeysKnown(out, m, n) /\ KeysKnown(cor, m, n)
  BY DEF Books
<1>5. KeysKnown(out1, m + 1, n) /\ KeysKnown(cor, m + 1, n)
  <2>1. m + 1 \in Nat /\ m <= m + 1 /\ n <= n
    BY <1>1
  <2> HIDE DEF m, n
  <2>2. e.key = RollKey(m + 1)
    BY DEF m
  <2> QED
    BY <1>1, <1>4, <2>1, <2>2, KeysKnownAdd, KeysKnownMore
<1>6. \A k : k # RollKey(x.id) => About(out1, k) = About(out, k)
  BY AboutOthers
<1>7. /\ \A y \in R : RollKey(y.id) # RollKey(x.id) => RollStory(y, out1, cor)
      /\ \A d \in D : DetailKey(d.id) # RollKey(x.id) => DetailStory(d, out1, cor)
  <2>1. /\ \A y \in R : RollStory(y, out, cor)
        /\ \A b \in D : DetailStory(b, out, cor)
    BY DEF Books
  <2> QED
    BY <1>6, <2>1 DEF RollStory, DetailStory
<1>8. /\ \A y \in R : RollStory(y, out1, cor)
      /\ \A d \in D : DetailStory(d, out1, cor)
  <2> HIDE DEF out1
  <2> QED
    BY <1>1, <1>7, KeysDiffer
<1>9. RollStory(x, out1, cor)
  <2>1. About(out, RollKey(x.id)) = {} /\ About(cor, RollKey(x.id)) = {}
    BY <1>1, <1>4, NewKeys
  <2>2. About(out1, RollKey(x.id)) = {e}
    BY <2>1 DEF About
  <2>3. Story({e}, {}, 0, 1, e.value, FALSE)
    BY StoryBegins
  <2> HIDE DEF out1
  <2> QED
    BY <2>1, <2>2, <2>3 DEF RollStory
<1>10. /\ R1 \subseteq RollRow /\ \A y \in R1 : RollStory(y, out1, cor)
       /\ D \subseteq DetailRow /\ Numbered(D)
  BY <1>8, <1>9 DEF Books
<1> HIDE DEF R1, out1, m, n
<1>11. Books(R1, D, out1, cor)
  BY <1>2, <1>3, <1>5, <1>8, <1>10 DEF Books, n
<1> QED
  BY <1>11 DEF R1, out1

\* A ball arrives from another device: a row without entries.
LEMMA RollReceived ==
  ASSUME NEW R, NEW D, NEW out, NEW cor, Books(R, D, out, cor),
         NEW x \in RollRow, x.id = Cardinality(R) + 1, x.version = 1, ~x.own
  PROVE  Books(R \cup {x}, D, out, cor)
<1> DEFINE m == Cardinality(R)
           n == Cardinality(D)
           R1 == R \cup {x}
<1>1. m \in Nat /\ n \in Nat
  BY BooksCounts
<1>2. Numbered(R1) /\ Cardinality(R1) = m + 1
  BY NumberedAdd DEF Books
<1>3. OneDetailPerBall(R1, D)
  BY <1>1, <1>2 DEF Books, OneDetailPerBall
<1>4. KeysKnown(out, m, n) /\ KeysKnown(cor, m, n)
  BY DEF Books
<1>5. KeysKnown(out, m + 1, n) /\ KeysKnown(cor, m + 1, n)
  <2>1. m + 1 \in Nat /\ m <= m + 1 /\ n <= n
    BY <1>1
  <2> HIDE DEF m, n
  <2> QED
    BY <1>1, <1>4, <2>1, KeysKnownMore
<1>6. RollStory(x, out, cor)
  <2>1. About(out, RollKey(x.id)) = {} /\ About(cor, RollKey(x.id)) = {}
    BY <1>1, <1>4, NewKeys
  <2>2. Story({}, {}, 1, 1, Value(x.pins, NoSet), FALSE)
    BY StoryReceived
  <2> QED
    BY <2>1, <2>2 DEF RollStory
<1>7. /\ R1 \subseteq RollRow /\ \A y \in R1 : RollStory(y, out, cor)
      /\ D \subseteq DetailRow /\ Numbered(D)
      /\ \A d \in D : DetailStory(d, out, cor)
  BY <1>6 DEF Books
<1> HIDE DEF R1, m, n
<1>8. Books(R1, D, out, cor)
  BY <1>2, <1>3, <1>5, <1>7 DEF Books, n
<1> QED
  BY <1>8 DEF R1

\* A ball is corrected: the next version, with its entry and its record.
LEMMA RollCorrected ==
  ASSUME NEW R, NEW D, NEW out, NEW cor, Books(R, D, out, cor),
         NEW x \in R, NEW r \in RollRow,
         r.id = x.id, r.version = x.version + 1, r.own = x.own,
         NEW e, e.key = RollKey(x.id), e.op = "CORRECT", e.expected = x.version,
         e.value = Value(r.pins, NoSet),
         NEW c, c.key = RollKey(x.id), c.prior = x.version,
         c.from = Value(x.pins, NoSet), c.to = e.value
  PROVE  Books((R \ {x}) \cup {r}, D, out \cup {e}, cor \cup {c})
<1> DEFINE m == Cardinality(R)
           n == Cardinality(D)
           R1 == (R \ {x}) \cup {r}
           out1 == out \cup {e}
           cor1 == cor \cup {c}
           key == RollKey(x.id)
           first == IF x.own THEN 0 ELSE 1
<1>1. /\ m \in Nat /\ n \in Nat /\ x.id \in Nat /\ x.id <= m
      /\ \A y \in R : y.id \in Nat
      /\ \A d \in D : d.id \in Nat
      /\ x.version \in Nat \ {0}
  BY BooksCounts
<1>2. Numbered(R1) /\ Cardinality(R1) = m
  BY NumberedReplace DEF Books
<1>3. OneDetailPerBall(R1, D)
  BY <1>2 DEF Books, OneDetailPerBall
<1>4. KeysKnown(out1, m, n) /\ KeysKnown(cor1, m, n)
  <2>1. KeysKnown(out, m, n) /\ KeysKnown(cor, m, n)
    BY DEF Books
  <2>2. m <= m /\ n <= n
    BY <1>1
  <2> HIDE DEF m, n
  <2> QED
    BY <1>1, <2>1, <2>2, KeysKnownAdd
<1>5. \A k : k # key => About(out1, k) = About(out, k) /\ About(cor1, k) = About(cor, k)
  BY AboutOthers
<1>6. /\ \A y \in R : RollKey(y.id) # key => RollStory(y, out1, cor1)
      /\ \A d \in D : DetailKey(d.id) # key => DetailStory(d, out1, cor1)
  <2>1. /\ \A y \in R : RollStory(y, out, cor)
        /\ \A b \in D : DetailStory(b, out, cor)
    BY DEF Books
  <2> QED
    BY <1>5, <2>1 DEF RollStory, DetailStory
<1>7. /\ \A y \in R \ {x} : RollStory(y, out1, cor1)
      /\ \A d \in D : DetailStory(d, out1, cor1)
  <2>1. \A y \in R \ {x} : y.id # x.id
    BY DEF Books, Numbered
  <2> HIDE DEF out1, cor1
  <2> QED
    BY <1>1, <1>6, <2>1, KeysDiffer
<1>8. RollStory(r, out1, cor1)
  <2>1. Story(About(out, key), About(cor, key), first, x.version, Value(x.pins, NoSet), FALSE)
    BY DEF Books, RollStory
  <2>2. About(out1, key) = About(out, key) \cup {e}
    BY DEF About
  <2>3. About(cor1, key) = About(cor, key) \cup {c}
    BY DEF About
  <2>4. Story(About(out, key) \cup {e}, About(cor, key) \cup {c}, first, x.version + 1,
              e.value, FALSE)
    <3>1. first \in {0, 1}
      OBVIOUS
    <3> HIDE DEF first, key
    <3> QED
      BY <1>1, <2>1, <3>1, StoryCorrected
  <2> HIDE DEF out1, cor1
  <2> QED
    BY <2>2, <2>3, <2>4 DEF RollStory
<1>9. /\ R1 \subseteq RollRow /\ \A y \in R1 : RollStory(y, out1, cor1)
      /\ D \subseteq DetailRow /\ Numbered(D)
  BY <1>7, <1>8 DEF Books
<1> HIDE DEF R1, out1, cor1, m, n
<1>10. Books(R1, D, out1, cor1)
  BY <1>2, <1>3, <1>4, <1>7, <1>9 DEF Books, n
<1> QED
  BY <1>10 DEF R1, out1, cor1

\* Pin detail is added to a ball that has none.
LEMMA DetailAdded ==
  ASSUME NEW R, NEW D, NEW out, NEW cor, Books(R, D, out, cor),
         NEW d \in DetailRow, d.id = Cardinality(D) + 1, d.version = 1, ~d.deleted,
         d.roll \in 1..Cardinality(R),
         \A b \in D : b.roll = d.roll => b.deleted,
         NEW e, e.key = DetailKey(d.id), e.op = "CREATE", e.expected = 0,
         e.value = Value(Null, d.standing)
  PROVE  Books(R, D \cup {d}, out \cup {e}, cor)
<1> DEFINE m == Cardinality(R)
           n == Cardinality(D)
           D1 == D \cup {d}
           out1 == out \cup {e}
<1>1. /\ m \in Nat /\ n \in Nat
      /\ \A y \in R : y.id \in Nat
      /\ \A b \in D : b.id \in Nat /\ b.id <= n
  BY BooksCounts
<1>2. Numbered(D1) /\ Cardinality(D1) = n + 1
  BY NumberedAdd DEF Books
<1>3. OneDetailPerBall(R, D1)
  BY DEF Books, OneDetailPerBall
<1>4. KeysKnown(out, m, n) /\ KeysKnown(cor, m, n)
  BY DEF Books
<1>5. KeysKnown(out1, m, n + 1) /\ KeysKnown(cor, m, n + 1)
  <2>1. n + 1 \in Nat /\ m <= m /\ n <= n + 1
    BY <1>1
  <2> HIDE DEF m, n
  <2>2. e.key = DetailKey(n + 1)
    BY DEF n
  <2> QED
    BY <1>1, <1>4, <2>1, <2>2, KeysKnownAdd, KeysKnownMore
<1>6. \A k : k # DetailKey(d.id) => About(out1, k) = About(out, k)
  BY AboutOthers
<1>7. /\ \A y \in R : RollKey(y.id) # DetailKey(d.id) => RollStory(y, out1, cor)
      /\ \A b \in D : DetailKey(b.id) # DetailKey(d.id) => DetailStory(b, out1, cor)
  <2>1. /\ \A y \in R : RollStory(y, out, cor)
        /\ \A b \in D : DetailStory(b, out, cor)
    BY DEF Books
  <2> QED
    BY <1>6, <2>1 DEF RollStory, DetailStory
<1>8. /\ \A y \in R : RollStory(y, out1, cor)
      /\ \A b \in D : DetailStory(b, out1, cor)
  <2> HIDE DEF out1
  <2> QED
    BY <1>1, <1>7, KeysDiffer
<1>9. DetailStory(d, out1, cor)
  <2>1. About(out, DetailKey(d.id)) = {} /\ About(cor, DetailKey(d.id)) = {}
    BY <1>1, <1>4, NewKeys
  <2>2. About(out1, DetailKey(d.id)) = {e}
    BY <2>1 DEF About
  <2>3. Story({e}, {}, 0, 1, e.value, FALSE)
    BY StoryBegins
  <2>4. d.deleted = FALSE
    BY DEF DetailRow
  <2> HIDE DEF out1
  <2> QED
    BY <2>1, <2>2, <2>3, <2>4 DEF DetailStory
<1>10. /\ R \subseteq RollRow /\ Numbered(R)
       /\ D1 \subseteq DetailRow /\ \A b \in D1 : DetailStory(b, out1, cor)
  BY <1>8, <1>9 DEF Books
<1> HIDE DEF D1, out1, m, n
<1>11. Books(R, D1, out1, cor)
  BY <1>2, <1>3, <1>5, <1>8, <1>10 DEF Books, m
<1> QED
  BY <1>11 DEF D1, out1

\* Pin detail takes its next version, by a correction or by its removal:
\* whichever, its own story goes on.
LEMMA DetailChanged ==
  ASSUME NEW R, NEW D, NEW out, NEW cor, Books(R, D, out, cor),
         NEW d \in D, ~d.deleted, NEW r \in DetailRow, r.id = d.id, r.roll = d.roll,
         NEW e, e.key = DetailKey(d.id),
         NEW cor1, KeysKnown(cor1, Cardinality(R), Cardinality(D)),
         \A k : k # DetailKey(d.id) => About(cor1, k) = About(cor, k),
         DetailStory(r, out \cup {e}, cor1)
  PROVE  Books(R, (D \ {d}) \cup {r}, out \cup {e}, cor1)
<1> DEFINE m == Cardinality(R)
           n == Cardinality(D)
           D1 == (D \ {d}) \cup {r}
           out1 == out \cup {e}
           key == DetailKey(d.id)
<1>1. /\ m \in Nat /\ n \in Nat /\ d.id \in Nat /\ d.id <= n
      /\ \A y \in R : y.id \in Nat
      /\ \A b \in D : b.id \in Nat
  BY BooksCounts
<1>2. Numbered(D1) /\ Cardinality(D1) = n
  BY NumberedReplace DEF Books
<1>3. OneDetailPerBall(R, D1)
  BY DEF Books, OneDetailPerBall
<1>4. KeysKnown(out1, m, n)
  <2>1. KeysKnown(out, m, n)
    BY DEF Books
  <2>2. m <= m /\ n <= n
    BY <1>1
  <2> HIDE DEF m, n
  <2> QED
    BY <1>1, <2>1, <2>2, KeysKnownAdd
<1>5. \A k : k # key => About(out1, k) = About(out, k) /\ About(cor1, k) = About(cor, k)
  BY AboutOthers
<1>6. /\ \A y \in R : RollKey(y.id) # key => RollStory(y, out1, cor1)
      /\ \A b \in D : DetailKey(b.id) # key => DetailStory(b, out1, cor1)
  <2>1. /\ \A y \in R : RollStory(y, out, cor)
        /\ \A b \in D : DetailStory(b, out, cor)
    BY DEF Books
  <2> QED
    BY <1>5, <2>1 DEF RollStory, DetailStory
<1>7. /\ \A y \in R : RollStory(y, out1, cor1)
      /\ \A b \in D \ {d} : DetailStory(b, out1, cor1)
  <2>1. \A b \in D \ {d} : b.id # d.id
    BY DEF Books, Numbered
  <2> HIDE DEF out1
  <2> QED
    BY <1>1, <1>6, <2>1, KeysDiffer
<1>8. /\ R \subseteq RollRow /\ Numbered(R)
      /\ D1 \subseteq DetailRow /\ \A b \in D1 : DetailStory(b, out1, cor1)
  BY <1>7 DEF Books
<1> HIDE DEF D1, out1, m, n
<1>9. Books(R, D1, out1, cor1)
  BY <1>2, <1>3, <1>4, <1>7, <1>8 DEF Books, m, n
<1> QED
  BY <1>9 DEF D1, out1

LEMMA DetailCorrected ==
  ASSUME NEW R, NEW D, NEW out, NEW cor, Books(R, D, out, cor),
         NEW d \in D, ~d.deleted, NEW r \in DetailRow, r.id = d.id, r.roll = d.roll,
         r.version = d.version + 1, ~r.deleted,
         NEW e, e.key = DetailKey(d.id), e.op = "CORRECT", e.expected = d.version,
         e.value = Value(Null, r.standing),
         NEW c, c.key = DetailKey(d.id), c.prior = d.version,
         c.from = Value(Null, d.standing), c.to = e.value
  PROVE  Books(R, (D \ {d}) \cup {r}, out \cup {e}, cor \cup {c})
<1> DEFINE m == Cardinality(R)
           n == Cardinality(D)
           key == DetailKey(d.id)
<1>1. m \in Nat /\ n \in Nat /\ d.id \in Nat /\ d.id <= n /\ d.version \in Nat \ {0}
  BY BooksCounts
<1>2. KeysKnown(cor \cup {c}, m, n)
  <2>1. KeysKnown(cor, m, n)
    BY DEF Books
  <2>2. m <= m /\ n <= n
    BY <1>1
  <2> HIDE DEF m, n
  <2> QED
    BY <1>1, <2>1, <2>2, KeysKnownAdd
<1>3. \A k : k # key => About(cor \cup {c}, k) = About(cor, k)
  BY AboutOthers
<1>4. DetailStory(r, out \cup {e}, cor \cup {c})
  <2>0. d.deleted = FALSE /\ r.deleted = FALSE
    BY DEF Books, DetailRow
  <2>1. Story(About(out, key), About(cor, key), 0, d.version, Value(Null, d.standing), FALSE)
    BY <2>0 DEF Books, DetailStory
  <2>2. About(out \cup {e}, key) = About(out, key) \cup {e}
    BY DEF About
  <2>3. About(cor \cup {c}, key) = About(cor, key) \cup {c}
    BY DEF About
  <2>4. Story(About(out, key) \cup {e}, About(cor, key) \cup {c}, 0, d.version + 1,
              e.value, FALSE)
    <3> HIDE DEF key
    <3> QED
      BY <1>1, <2>1, StoryCorrected
  <2> QED
    BY <2>0, <2>2, <2>3, <2>4 DEF DetailStory
<1> QED
  BY <1>2, <1>3, <1>4, DetailChanged

LEMMA DetailRemoved ==
  ASSUME NEW R, NEW D, NEW out, NEW cor, Books(R, D, out, cor),
         NEW d \in D, ~d.deleted, NEW r \in DetailRow, r.id = d.id, r.roll = d.roll,
         r.version = d.version + 1, r.standing = d.standing, r.deleted,
         NEW e, e.key = DetailKey(d.id), e.op = "DELETE", e.expected = d.version
  PROVE  Books(R, (D \ {d}) \cup {r}, out \cup {e}, cor)
<1> DEFINE key == DetailKey(d.id)
<1>1. d.version \in Nat \ {0} /\ KeysKnown(cor, Cardinality(R), Cardinality(D))
  BY BooksCounts DEF Books
<1>2. DetailStory(r, out \cup {e}, cor)
  <2>0. d.deleted = FALSE /\ r.deleted = TRUE
    BY DEF Books, DetailRow
  <2>1. Story(About(out, key), About(cor, key), 0, d.version, Value(Null, d.standing), FALSE)
    BY <2>0 DEF Books, DetailStory
  <2>2. About(out \cup {e}, key) = About(out, key) \cup {e}
    BY DEF About
  <2>3. Story(About(out, key) \cup {e}, About(cor, key), 0, d.version + 1,
              Value(Null, d.standing), TRUE)
    <3> HIDE DEF key
    <3> QED
      BY <1>1, <2>1, StoryDeleted
  <2> QED
    BY <2>0, <2>2, <2>3 DEF DetailStory
<1> QED
  BY <1>1, <1>2, DetailChanged

(************************ steps on balls and pin detail ********************)

\* A slot and a pinfall that validateNextRoll takes.
LEMMA LegalBall ==
  ASSUME NEW facts, \A x \in facts : x.roll \in 1..3,
         NEW slot, NEW p, RollLegal(facts, slot, p)
  PROVE  slot.frame \in Frames /\ slot.roll \in 1..3 /\ p \in 0..Pins
<1> DEFINE T == {x.roll : x \in InFrame(facts, slot.frame)}
           last == CHOOSE r \in T : \A s \in T : s <= r
<1>1. /\ slot.frame \in Frames /\ p \in 0..Pins
      /\ slot.roll = (IF T = {} THEN 1 ELSE 1 + last)
      /\ (IF T = {} THEN 1 ELSE 1 + last) <= 3
  BY DEF RollLegal
<1>2. T \subseteq 1..3
  BY DEF InFrame
<1>3. ASSUME T # {}
      PROVE  last \in 1..3
  <2> HIDE DEF T
  <2>1. \E r \in T : \A s \in T : s <= r
    <3>1. CASE 3 \in T
      BY <1>2, <3>1
    <3>2. CASE 3 \notin T /\ 2 \in T
      BY <1>2, <3>2
    <3>3. CASE 3 \notin T /\ 2 \notin T
      <4>1. \A s \in T : s = 1
        BY <1>2, <3>3
      <4> QED
        BY <1>3, <4>1
    <3> QED
      BY <3>1, <3>2, <3>3
  <2>2. last \in T
    BY <2>1
  <2> QED
    BY <1>2, <2>2
<1> HIDE DEF T, last
<1> QED
  BY <1>1, <1>3

\* What is left to show of a step that changes rows only.
LEMMA RowStep ==
  ASSUME IInv, UNCHANGED <<games, frames>>,
         NEW more, outbox' = outbox \cup more,
         \A e \in more : \E i \in Nat : e.key \in {RollKey(i), DetailKey(i)},
         BooksKept', Operation',
         \A x \in rolls' : x.own => x.frame \in frames[x.game]
  PROVE  IInv'
<1>1. rolls' \subseteq RollRow /\ details' \subseteq DetailRow
  BY DEF BooksKept, Books
<1>2. busy'.op \in {"idle", "start", "standing"}
  BY DEF Operation, Idle
<1>3. TypeOK'
  BY <1>1, <1>2 DEF IInv, TypeOK, RollRow, DetailRow
<1>4. OwnBallsLive'
  BY DEF IInv, OwnBallsLive
<1>5. FramesAccounted'
  BY FramesUntouched
<1> QED
  BY <1>3, <1>4, <1>5 DEF IInv

LEMMA OperationStays ==
  ASSUME IInv, UNCHANGED <<games, frames, busy>>
  PROVE  Operation'
BY DEF IInv, Operation

LEMMA RecordRollStep ==
  ASSUME IInv, NEW g \in Game, NEW slot, NEW pins \in 0..Pins,
         NEW standing \in (SUBSET Rack) \cup {NoSet},
         RecordRoll(g, slot, pins, standing)
  PROVE  IInv'
<1> DEFINE m == Cardinality(rolls)
           n == Cardinality(details)
           x == [id |-> m + 1, game |-> g, frame |-> slot.frame,
                 roll |-> slot.roll, pins |-> pins, version |-> 1, own |-> TRUE]
           d == NewDetail(x, standing)
           re == Entry(RollKey(x.id), "CREATE", 0, Value(pins, NoSet))
           de == Entry(DetailKey(d.id), "CREATE", 0, Value(Null, standing))
           rolls1 == rolls \cup {x}
           out1 == outbox \cup {re}
<1>0. Books(rolls, details, outbox, corrections)
  BY DEF IInv, BooksKept
<1>1. /\ busy = Idle /\ Accepts(g, slot, pins, standing)
      /\ rolls' = rolls1
      /\ details' = IF standing = NoSet THEN details ELSE details \cup {d}
      /\ outbox' = out1 \cup (IF standing = NoSet THEN {} ELSE {de})
      /\ UNCHANGED <<games, frames, corrections, busy>>
  BY DEF RecordRoll
<1>2. m \in Nat /\ n \in Nat
  BY <1>0, BooksCounts
<1>3. slot.frame \in frames[g] /\ slot.frame \in Frames /\ slot.roll \in 1..3
  <2>1. \A y \in Facts(g) : y.roll \in 1..3
    BY <1>0 DEF Facts, Books, RollRow
  <2> QED
    BY <1>1, <2>1, LegalBall DEF Accepts
<1>4. /\ x \in RollRow /\ x.id = m + 1 /\ x.game = g /\ x.frame = slot.frame
      /\ x.pins = pins /\ x.version = 1 /\ x.own = TRUE
  <2> HIDE DEF m
  <2> QED
    BY <1>2, <1>3 DEF RollRow
<1>5. /\ re.key = RollKey(x.id) /\ re.op = "CREATE" /\ re.expected = 0
      /\ re.value = Value(pins, NoSet)
  BY EntryFields
<1>6. /\ d.id = n + 1 /\ d.roll = x.id /\ d.standing = standing
      /\ d.version = 1 /\ d.deleted = FALSE
      /\ standing # NoSet => d \in DetailRow
  <2> HIDE DEF n, x
  <2> QED
    BY <1>2, <1>4 DEF NewDetail, DetailRow, n
<1>7. /\ de.key = DetailKey(d.id) /\ de.op = "CREATE" /\ de.expected = 0
      /\ de.value = Value(Null, standing)
  BY EntryFields
<1> HIDE DEF x, d, re, de
<1>8. Books(rolls1, details, out1, corrections)
  BY <1>0, <1>4, <1>5, RollRecorded
<1>9. Cardinality(rolls1) = m + 1
  BY <1>0, <1>4, NumberedAdd DEF Books
<1>10. BooksKept' /\ outbox' \subseteq outbox \cup {re, de}
       /\ (de \in outbox' => standing # NoSet \/ de \in outbox \cup {re})
  <2>1. CASE standing = NoSet
    <3>1. rolls' = rolls1 /\ details' = details /\ outbox' = out1
          /\ corrections' = corrections
      BY <1>1, <2>1
    <3> QED
      BY <1>8, <3>1 DEF BooksKept
  <2>2. CASE standing # NoSet
    <3>1. /\ d \in DetailRow /\ d.id = n + 1 /\ d.roll = x.id /\ d.standing = standing
          /\ d.version = 1 /\ d.deleted = FALSE
      BY <1>6, <2>2
    <3>2. d.roll \in 1..Cardinality(rolls1)
      BY <1>2, <1>4, <1>9, <3>1
    <3>3. \A b \in details : b.roll # d.roll
      BY <1>0, <1>2, <1>4, <3>1 DEF Books, OneDetailPerBall
    <3>4. Books(rolls1, details \cup {d}, out1 \cup {de}, corrections)
      <4> HIDE DEF rolls1, out1
      <4> QED
        BY <1>7, <1>8, <3>1, <3>2, <3>3, DetailAdded
    <3>5. rolls' = rolls1 /\ details' = details \cup {d} /\ outbox' = out1 \cup {de}
          /\ corrections' = corrections
      BY <1>1, <2>2
    <3> HIDE DEF rolls1, out1
    <3>6. BooksKept'
      BY <3>4, <3>5 DEF BooksKept
    <3> QED
      BY <2>2, <3>5, <3>6 DEF out1
  <2> QED
    BY <2>1, <2>2
<1>11. Operation'
  BY <1>1, OperationEnds
<1>12. \A y \in rolls' : y.own => y.frame \in frames[y.game]
  BY <1>1, <1>3, <1>4 DEF IInv, OwnBallsLive
<1> DEFINE more == {re} \cup (IF standing = NoSet THEN {} ELSE {de})
<1>13. outbox' = outbox \cup more
  BY <1>1
<1>14. \A e \in more : \E i \in Nat : e.key \in {RollKey(i), DetailKey(i)}
  <2>1. x.id \in Nat /\ re.key = RollKey(x.id)
    BY <1>2, <1>4, <1>5
  <2>2. standing # NoSet => de.key = DetailKey(n + 1) /\ n + 1 \in Nat
    BY <1>2, <1>6, <1>7
  <2> QED
    BY <2>1, <2>2
<1> HIDE DEF more
<1> QED
  BY <1>1, <1>10, <1>11, <1>12, <1>13, <1>14, RowStep

LEMMA ReceiveRollStep ==
  ASSUME IInv, NEW g \in Game, ReceiveRoll(g)
  PROVE  IInv'
<1> DEFINE m == Cardinality(rolls)
<1>0. Books(rolls, details, outbox, corrections)
  BY DEF IInv, BooksKept
<1>1. PICK last \in 0..m, pins \in 0..Pins :
        LET seen == {x \in rolls : x.game = g /\ x.id <= last}
        IN \E slot \in {NextLegalSlot(seen)} :
            /\ RollLegal(seen, slot, pins)
            /\ rolls' = rolls \cup
                 {[id |-> m + 1, game |-> g, frame |-> slot.frame, roll |-> slot.roll,
                   pins |-> pins, version |-> 1, own |-> FALSE]}
  BY DEF ReceiveRoll
<1> DEFINE seen == {x \in rolls : x.game = g /\ x.id <= last}
<1>2. PICK slot :
        /\ RollLegal(seen, slot, pins)
        /\ rolls' = rolls \cup
             {[id |-> m + 1, game |-> g, frame |-> slot.frame, roll |-> slot.roll,
               pins |-> pins, version |-> 1, own |-> FALSE]}
  BY <1>1
<1> DEFINE x == [id |-> m + 1, game |-> g, frame |-> slot.frame, roll |-> slot.roll,
                 pins |-> pins, version |-> 1, own |-> FALSE]
<1>3. /\ busy = Idle /\ rolls' = rolls \cup {x}
      /\ UNCHANGED <<games, frames, details, corrections, outbox, busy>>
  BY <1>2 DEF ReceiveRoll
<1>4. slot.frame \in Frames /\ slot.roll \in 1..3
  <2>1. \A y \in seen : y.roll \in 1..3
    BY <1>0 DEF Books, RollRow
  <2> HIDE DEF seen
  <2> QED
    BY <1>2, <2>1, LegalBall
<1>5. x \in RollRow /\ x.id = m + 1 /\ x.version = 1 /\ x.own = FALSE
  <2>1. m \in Nat
    BY <1>0, BooksCounts
  <2> HIDE DEF m
  <2> QED
    BY <1>4, <2>1 DEF RollRow
<1> HIDE DEF x
<1>6. Books(rolls \cup {x}, details, outbox, corrections)
  BY <1>0, <1>5, RollReceived
<1>7. BooksKept'
  BY <1>3, <1>6 DEF BooksKept
<1>8. Operation'
  BY <1>3, OperationEnds
<1>9. \A y \in rolls' : y.own => y.frame \in frames[y.game]
  BY <1>3, <1>5 DEF IInv, OwnBallsLive
<1> DEFINE more == {}
<1>10. outbox' = outbox \cup more
  BY <1>3
<1>11. \A e \in more : \E i \in Nat : e.key \in {RollKey(i), DetailKey(i)}
  OBVIOUS
<1> HIDE DEF more
<1> QED
  BY <1>3, <1>7, <1>8, <1>9, <1>10, <1>11, RowStep

LEMMA CorrectRollStep ==
  ASSUME IInv, NEW x \in rolls, NEW pins \in 0..Pins,
         NEW then \in {Idle} \cup [op: {"standing"}, roll: Nat, standing: SUBSET Rack],
         CorrectRoll(x, pins, then)
  PROVE  IInv'
<1> DEFINE r == RollWith(x, pins)
           from == Value(x.pins, NoSet)
           to == Value(pins, NoSet)
           e == Entry(RollKey(x.id), "CORRECT", x.version, to)
           c == [key |-> RollKey(x.id), prior |-> x.version, from |-> from, to |-> to]
<1>0. Books(rolls, details, outbox, corrections)
  BY DEF IInv, BooksKept
<1>1. /\ rolls' = (rolls \ {x}) \cup {r}
      /\ corrections' = corrections \cup {c}
      /\ outbox' = outbox \cup {e}
      /\ busy' = then
      /\ UNCHANGED <<games, frames, details>>
  BY DEF CorrectRoll, Audit, RollWith
<1>2. x \in RollRow /\ x.id \in Nat
  BY <1>0 DEF Books, RollRow
<1>3. /\ r \in RollRow /\ r.id = x.id /\ r.game = x.game /\ r.frame = x.frame
      /\ r.pins = pins /\ r.version = x.version + 1 /\ r.own = x.own
  BY <1>2, CorrectedRollIs
<1>4. e.key = RollKey(x.id) /\ e.op = "CORRECT" /\ e.expected = x.version /\ e.value = to
  BY EntryFields
<1>5. c.key = RollKey(x.id) /\ c.prior = x.version /\ c.from = from /\ c.to = to
  OBVIOUS
<1> HIDE DEF r, e, c
<1>6. Books((rolls \ {x}) \cup {r}, details, outbox \cup {e}, corrections \cup {c})
  BY <1>0, <1>3, <1>4, <1>5, RollCorrected
<1>7. BooksKept'
  BY <1>1, <1>6 DEF BooksKept
<1>8. Operation'
  BY <1>1 DEF Operation, Idle
<1>9. \A y \in rolls' : y.own => y.frame \in frames[y.game]
  BY <1>1, <1>3 DEF IInv, OwnBallsLive
<1> DEFINE more == {e}
<1>10. outbox' = outbox \cup more
  BY <1>1
<1>11. \A y \in more : \E i \in Nat : y.key \in {RollKey(i), DetailKey(i)}
  BY <1>2, <1>4
<1> HIDE DEF more
<1> QED
  BY <1>1, <1>7, <1>8, <1>9, <1>10, <1>11, RowStep

LEMMA AddPinDetailStep ==
  ASSUME IInv, NEW x, NEW standing \in SUBSET Rack, AddPinDetail(x, standing), Operation'
  PROVE  IInv'
<1> DEFINE n == Cardinality(details)
           d == NewDetail(x, standing)
           e == Entry(DetailKey(d.id), "CREATE", 0, Value(Null, standing))
<1>0. Books(rolls, details, outbox, corrections)
  BY DEF IInv, BooksKept
<1>1. /\ ActiveDetails(x) = {} /\ x \in Facts(x.game)
      /\ details' = details \cup {d}
      /\ outbox' = outbox \cup {e}
      /\ UNCHANGED <<games, frames, rolls, corrections>>
  BY DEF AddPinDetail
<1>2. x \in rolls
  BY <1>1 DEF Facts
<1>3. /\ n \in Nat /\ x.id \in Nat /\ x.id \in 1..Cardinality(rolls)
      /\ x.version \in Nat \ {0}
  <2>1. x.id \in 1..Cardinality(rolls)
    BY <1>0, <1>2 DEF Books, Numbered
  <2> QED
    BY <1>0, <1>2, <2>1, BooksCounts
<1>4. /\ d \in DetailRow /\ d.id = n + 1 /\ d.roll = x.id /\ d.standing = standing
      /\ d.version = 1 /\ d.deleted = FALSE
  <2> HIDE DEF n
  <2> QED
    BY <1>3 DEF NewDetail, DetailRow, n
<1>5. /\ e.key = DetailKey(d.id) /\ e.op = "CREATE" /\ e.expected = 0
      /\ e.value = Value(Null, standing)
  BY EntryFields
<1> HIDE DEF d, e
<1>6. \A b \in details : b.roll = d.roll => b.deleted
  <2>1. \A b \in details : b.deleted \in BOOLEAN
    BY <1>0 DEF Books, DetailRow
  <2> QED
    BY <1>1, <1>4, <2>1 DEF ActiveDetails
<1>7. Books(rolls, details \cup {d}, outbox \cup {e}, corrections)
  BY <1>0, <1>3, <1>4, <1>5, <1>6, DetailAdded
<1>8. BooksKept'
  BY <1>1, <1>7 DEF BooksKept
<1>9. \A y \in rolls' : y.own => y.frame \in frames[y.game]
  BY <1>1 DEF IInv, OwnBallsLive
<1> DEFINE more == {e}
<1>10. outbox' = outbox \cup more
  BY <1>1
<1>11. \A y \in more : \E i \in Nat : y.key \in {RollKey(i), DetailKey(i)}
  <2>1. n + 1 \in Nat
    BY <1>3
  <2> QED
    BY <1>4, <1>5, <2>1
<1> HIDE DEF more
<1> QED
  BY <1>1, <1>8, <1>9, <1>10, <1>11, RowStep

LEMMA DetailIs ==
  ASSUME IInv, NEW x, ActiveDetails(x) # {}
  PROVE  /\ Detail(x) \in details /\ Detail(x).roll = x.id /\ ~Detail(x).deleted
         /\ Detail(x) \in DetailRow /\ Detail(x).id \in Nat
<1>1. Detail(x) \in ActiveDetails(x)
  BY DEF Detail
<1>2. details \subseteq DetailRow
  BY DEF IInv, BooksKept, Books
<1> QED
  BY <1>1, <1>2 DEF ActiveDetails, DetailRow

LEMMA CorrectPinDetailStep ==
  ASSUME IInv, NEW x, NEW standing \in SUBSET Rack, CorrectPinDetail(x, standing), Operation'
  PROVE  IInv'
<1> DEFINE d == Detail(x)
           r == DetailWith(d, standing, x.version)
           from == Value(Null, d.standing)
           to == Value(Null, standing)
           e == Entry(DetailKey(d.id), "CORRECT", d.version, to)
           c == [key |-> DetailKey(d.id), prior |-> d.version, from |-> from, to |-> to]
<1>0. Books(rolls, details, outbox, corrections)
  BY DEF IInv, BooksKept
<1>1. /\ ActiveDetails(x) # {} /\ x \in Facts(x.game)
      /\ details' = (details \ {d}) \cup {r}
      /\ corrections' = corrections \cup {c}
      /\ outbox' = outbox \cup {e}
      /\ UNCHANGED <<games, frames, rolls>>
  BY DEF CorrectPinDetail, Audit, DetailWith
<1>2. x \in rolls /\ x.version \in Nat \ {0}
  BY <1>0, <1>1 DEF Facts, Books, RollRow
<1>3. d \in details /\ ~d.deleted /\ d \in DetailRow /\ d.id \in Nat
  BY <1>1, DetailIs
<1> HIDE DEF d
<1>4. /\ r \in DetailRow /\ r.id = d.id /\ r.roll = d.roll /\ r.standing = standing
      /\ r.version = d.version + 1 /\ ~r.deleted
  BY <1>2, <1>3, CorrectedDetailIs
<1>5. /\ e.key = DetailKey(d.id) /\ e.op = "CORRECT" /\ e.expected = d.version
      /\ e.value = to
  BY EntryFields
<1>6. c.key = DetailKey(d.id) /\ c.prior = d.version /\ c.from = from /\ c.to = to
  OBVIOUS
<1> HIDE DEF r, e, c
<1>7. Books(rolls, (details \ {d}) \cup {r}, outbox \cup {e}, corrections \cup {c})
  BY <1>0, <1>3, <1>4, <1>5, <1>6, DetailCorrected
<1>8. BooksKept'
  BY <1>1, <1>7 DEF BooksKept
<1>9. \A y \in rolls' : y.own => y.frame \in frames[y.game]
  BY <1>1 DEF IInv, OwnBallsLive
<1> DEFINE more == {e}
<1>10. outbox' = outbox \cup more
  BY <1>1
<1>11. \A y \in more : \E i \in Nat : y.key \in {RollKey(i), DetailKey(i)}
  BY <1>3, <1>5
<1> HIDE DEF more
<1> QED
  BY <1>1, <1>8, <1>9, <1>10, <1>11, RowStep

LEMMA RemovePinDetailStep ==
  ASSUME IInv, NEW x, RemovePinDetail(x)
  PROVE  IInv'
<1> DEFINE d == Detail(x)
           r == DetailWithout(d)
           e == Entry(DetailKey(d.id), "DELETE", d.version, NoValue)
<1>0. Books(rolls, details, outbox, corrections)
  BY DEF IInv, BooksKept
<1>1. /\ busy = Idle /\ ActiveDetails(x) # {}
      /\ details' = (details \ {d}) \cup {r}
      /\ outbox' = outbox \cup {e}
      /\ UNCHANGED <<games, frames, rolls, corrections, busy>>
  BY DEF RemovePinDetail, DetailWithout
<1>2. d \in details /\ ~d.deleted /\ d \in DetailRow /\ d.id \in Nat
  BY <1>1, DetailIs
<1> HIDE DEF d
<1>3. /\ r \in DetailRow /\ r.id = d.id /\ r.roll = d.roll /\ r.standing = d.standing
      /\ r.version = d.version + 1 /\ r.deleted
  BY <1>2, RemovedDetailIs
<1>4. e.key = DetailKey(d.id) /\ e.op = "DELETE" /\ e.expected = d.version
  BY EntryFields
<1> HIDE DEF r, e
<1>5. Books(rolls, (details \ {d}) \cup {r}, outbox \cup {e}, corrections)
  BY <1>0, <1>2, <1>3, <1>4, DetailRemoved
<1>6. BooksKept'
  BY <1>1, <1>5 DEF BooksKept
<1>7. Operation'
  BY <1>1, OperationEnds
<1>8. \A y \in rolls' : y.own => y.frame \in frames[y.game]
  BY <1>1 DEF IInv, OwnBallsLive
<1> DEFINE more == {e}
<1>9. outbox' = outbox \cup more
  BY <1>1
<1>10. \A y \in more : \E i \in Nat : y.key \in {RollKey(i), DetailKey(i)}
  BY <1>2, <1>4
<1> HIDE DEF more
<1> QED
  BY <1>1, <1>6, <1>7, <1>8, <1>9, <1>10, RowStep

LEMMA CorrectBothStep ==
  ASSUME IInv, NEW x \in rolls, NEW pins \in 0..Pins, NEW standing \in SUBSET Rack,
         CorrectRollWithStanding(x, pins, standing)
  PROVE  IInv'
<1>1. CorrectRoll(x, pins, [op |-> "standing", roll |-> x.id, standing |-> standing])
  BY DEF CorrectRollWithStanding
<1>2. x.id \in Nat
  BY DEF IInv, TypeOK
<1>3. PICK then \in [op: {"standing"}, roll: Nat, standing: SUBSET Rack] :
        CorrectRoll(x, pins, then)
  BY <1>1, <1>2
<1> QED
  BY <1>3, CorrectRollStep

LEMMA SaveStandingStep ==
  ASSUME IInv, SaveStanding
  PROVE  IInv'
<1> DEFINE x == CHOOSE y \in rolls : y.id = busy.roll
<1>1. /\ busy.op = "standing" /\ busy' = Idle
      /\ AddPinDetail(x, busy.standing) \/ CorrectPinDetail(x, busy.standing)
  BY DEF SaveStanding
<1>2. busy.standing \in SUBSET Rack
  BY <1>1 DEF IInv, Operation, Idle
<1>3. Operation'
  BY <1>1, OperationEnds
<1> HIDE DEF x
<1>4. PICK z : AddPinDetail(z, busy.standing) \/ CorrectPinDetail(z, busy.standing)
  BY <1>1
<1>5. PICK standing \in SUBSET Rack :
        AddPinDetail(z, standing) \/ CorrectPinDetail(z, standing)
  BY <1>2, <1>4
<1> QED
  BY <1>3, <1>5, AddPinDetailStep, CorrectPinDetailStep

\* An operation that is cut short leaves the store as it is.
LEMMA InterruptedStep ==
  ASSUME IInv, busy' = Idle, UNCHANGED store
  PROVE  IInv'
<1> DEFINE more == {}
<1>1. /\ UNCHANGED <<games, frames>> /\ outbox' = outbox \cup more /\ rolls' = rolls
      /\ \A e \in more : \E i \in Nat : e.key \in {RollKey(i), DetailKey(i)}
  BY DEF store
<1>2. BooksKept'
  BY DEF store, IInv, BooksKept
<1>3. Operation'
  BY OperationEnds
<1>4. \A x \in rolls' : x.own => x.frame \in frames[x.game]
  BY <1>1 DEF IInv, OwnBallsLive
<1> HIDE DEF more
<1> QED
  BY <1>1, <1>2, <1>3, <1>4, RowStep

LEMMA StutterStep ==
  ASSUME IInv, UNCHANGED vars
  PROVE  IInv'
<1> DEFINE more == {}
<1>1. /\ UNCHANGED <<games, frames, busy>> /\ outbox' = outbox \cup more
      /\ rolls' = rolls /\ details' = details /\ corrections' = corrections
      /\ \A e \in more : \E i \in Nat : e.key \in {RollKey(i), DetailKey(i)}
  BY DEF vars
<1>2. BooksKept'
  BY <1>1 DEF IInv, BooksKept
<1>3. Operation'
  BY <1>1, OperationStays
<1>4. \A x \in rolls' : x.own => x.frame \in frames[x.game]
  BY <1>1 DEF IInv, OwnBallsLive
<1> HIDE DEF more
<1> QED
  BY <1>1, <1>2, <1>3, <1>4, RowStep

(****************************** the invariant ******************************)

LEMMA NextOK == IInv /\ [Next]_vars => IInv'
<1> SUFFICES ASSUME IInv, [Next]_vars
             PROVE  IInv'
  OBVIOUS
<1>1. CASE \E g \in Game : StartGame(g) \/ Discard(g)
  BY <1>1, StartGameStep, DiscardStep
<1>2. CASE \E g \in Game : ReceiveRoll(g)
  BY <1>2, ReceiveRollStep
<1>3. CASE StartFrame
  BY <1>3, StartFrameStep
<1>4. CASE SaveStanding
  BY <1>4, SaveStandingStep
<1>5. CASE Interrupt
  BY <1>5, InterruptedStep DEF Interrupt
<1>6. CASE \E g \in Game : \E slot \in {NextLegalSlot(Facts(g))} :
             \E pins \in 0..Pins, standing \in (SUBSET Rack) \cup {NoSet} :
               RecordRoll(g, slot, pins, standing)
  <2>1. PICK g \in Game : \E slot \in {NextLegalSlot(Facts(g))} :
             \E pins \in 0..Pins, standing \in (SUBSET Rack) \cup {NoSet} :
               RecordRoll(g, slot, pins, standing)
    BY <1>6
  <2>2. PICK slot \in {NextLegalSlot(Facts(g))} :
             \E pins \in 0..Pins, standing \in (SUBSET Rack) \cup {NoSet} :
               RecordRoll(g, slot, pins, standing)
    BY <2>1
  <2> QED
    BY <2>2, RecordRollStep
<1>7. CASE \E x \in rolls, pins \in 0..Pins :
             \/ CorrectRoll(x, pins, Idle)
             \/ \E standing \in SUBSET Rack : CorrectRollWithStanding(x, pins, standing)
  <2>1. PICK x \in rolls, pins \in 0..Pins :
             \/ CorrectRoll(x, pins, Idle)
             \/ \E standing \in SUBSET Rack : CorrectRollWithStanding(x, pins, standing)
    BY <1>7
  <2>2. CASE CorrectRoll(x, pins, Idle)
    BY <2>2, CorrectRollStep
  <2>3. CASE \E standing \in SUBSET Rack : CorrectRollWithStanding(x, pins, standing)
    BY <2>3, CorrectBothStep
  <2> QED
    BY <2>1, <2>2, <2>3
<1>8. CASE \E x \in rolls, standing \in SUBSET Rack : ChangeDetail(x, standing)
  <2>1. PICK x \in rolls, standing \in SUBSET Rack : ChangeDetail(x, standing)
    BY <1>8
  <2>2. /\ AddPinDetail(x, standing) \/ CorrectPinDetail(x, standing)
        /\ UNCHANGED <<games, frames, busy>>
    BY <2>1 DEF ChangeDetail, AddPinDetail, CorrectPinDetail
  <2>3. Operation'
    BY <2>2, OperationStays
  <2> QED
    BY <2>2, <2>3, AddPinDetailStep, CorrectPinDetailStep
<1>9. CASE \E x \in rolls : RemovePinDetail(x)
  BY <1>9, RemovePinDetailStep
<1>10. CASE UNCHANGED vars
  BY <1>10, StutterStep
<1> QED
  BY <1>1, <1>2, <1>3, <1>4, <1>5, <1>6, <1>7, <1>8, <1>9, <1>10 DEF Next

\* Whatever the device does, in whatever order and wherever an operation of
\* several transactions is cut short: every row is explained by its entries
\* and its corrections, a ball has at most one pin detail, and only live
\* games have frames.
THEOREM Invariance == Spec => []IInv
<1>1. Init => IInv
  BY InitOK
<1>2. IInv /\ [Next]_vars => IInv'
  BY NextOK
<1> QED
  BY <1>1, <1>2, PTL DEF Spec

(****************************** what follows *******************************)

\* Every row of the store has the shape the schema gives it, and frame
\* numbers stay in the game (session.ts startGame, recordRoll).
THEOREM TypeCorrect == Spec => []TypeOK
<1>1. IInv => TypeOK
  BY DEF IInv
<1> QED
  BY <1>1, Invariance, PTL

LEMMA RowStory ==
  ASSUME IInv, NEW row \in Rows
  PROVE  Story(About(outbox, row.key), About(corrections, row.key),
               row.first, row.version, row.value, row.deleted)
<1>0. Books(rolls, details, outbox, corrections)
  BY DEF IInv, BooksKept
<1>1. CASE \E x \in rolls :
             row = [key |-> RollKey(x.id), first |-> IF x.own THEN 0 ELSE 1,
                    version |-> x.version, value |-> Value(x.pins, NoSet),
                    deleted |-> FALSE]
  <2>1. PICK x \in rolls :
             row = [key |-> RollKey(x.id), first |-> IF x.own THEN 0 ELSE 1,
                    version |-> x.version, value |-> Value(x.pins, NoSet),
                    deleted |-> FALSE]
    BY <1>1
  <2>2. RollStory(x, outbox, corrections)
    BY <1>0 DEF Books
  <2>3. /\ row.key = RollKey(x.id) /\ row.first = (IF x.own THEN 0 ELSE 1)
        /\ row.version = x.version /\ row.value = Value(x.pins, NoSet)
        /\ row.deleted = FALSE
    BY <2>1
  <2> QED
    BY <2>2, <2>3 DEF RollStory
<1>2. CASE \E d \in details :
             row = [key |-> DetailKey(d.id), first |-> 0, version |-> d.version,
                    value |-> Value(Null, d.standing), deleted |-> d.deleted]
  <2>1. PICK d \in details :
             row = [key |-> DetailKey(d.id), first |-> 0, version |-> d.version,
                    value |-> Value(Null, d.standing), deleted |-> d.deleted]
    BY <1>2
  <2>2. DetailStory(d, outbox, corrections)
    BY <1>0 DEF Books
  <2>3. /\ row.key = DetailKey(d.id) /\ row.first = 0
        /\ row.version = d.version /\ row.value = Value(Null, d.standing)
        /\ row.deleted = d.deleted
    BY <2>1
  <2> QED
    BY <2>2, <2>3 DEF DetailStory
<1> QED
  BY <1>1, <1>2 DEF Rows

\* The outbox replays to the rows: one entry for each version that a row
\* went through here, the last value being the row's (session.ts with
\* applyLocalMutations and applyCorrection).
THEOREM OutboxReplays == Spec => []OutboxReplaysToRows
<1>1. IInv => OutboxReplaysToRows
  <2> SUFFICES ASSUME IInv, NEW row \in Rows
               PROVE  LET last == row.version - (IF row.deleted THEN 2 ELSE 1)
                      IN  /\ {e.expected : e \in Entries(row.key)}
                               = row.first..(row.version - 1)
                          /\ Cardinality(Entries(row.key)) = row.version - row.first
                          /\ \A e \in Entries(row.key) :
                               e.expected = last => e.value = row.value
                          /\ \A e \in Entries(row.key) :
                               e.op = "DELETE" <=> e.expected > last
    BY DEF OutboxReplaysToRows
  <2>1. Entries(row.key) = About(outbox, row.key)
    BY DEF Entries, About
  <2> QED
    BY <2>1, RowStory DEF Story
<1> QED
  BY <1>1, Invariance, PTL

\* The corrections of a row form one chain from the value it was recorded
\* with to the value it has (applyCorrection's audit records).
THEOREM CorrectionsTraceable == Spec => []CorrectionsFormAChain
<1>1. IInv => CorrectionsFormAChain
  <2> SUFFICES ASSUME IInv, NEW row \in Rows
               PROVE  LET of == {c \in corrections : c.key = row.key}
                          after(c, value) ==
                            \E d \in of : d.prior = c.prior + 1 /\ d.from = value
                      IN  /\ \A e \in Entries(row.key) : e.op = "CREATE" =>
                               \/ \E c \in of : c.prior = 1 /\ c.from = e.value
                               \/ of = {} /\ row.value = e.value
                          /\ \A c \in of :
                               \/ after(c, c.to)
                               \/ c.to = row.value /\ \A d \in of : d.prior <= c.prior
    BY DEF CorrectionsFormAChain
  <2>1. Entries(row.key) = About(outbox, row.key)
    BY DEF Entries, About
  <2>2. {c \in corrections : c.key = row.key} = About(corrections, row.key)
    BY DEF About
  <2> QED
    BY <2>1, <2>2, RowStory DEF Story
<1> QED
  BY <1>1, Invariance, PTL

\* Discarding hides no ball of this device and leaves no frame of the game
\* behind on the server (discardEmptyGame).
THEOREM DiscardIsHarmless == Spec => []DiscardKeepsBalls
<1>1. IInv => DiscardKeepsBalls
  <2> SUFFICES ASSUME IInv, NEW g \in Game, games[g] = "archived"
               PROVE  /\ ~\E x \in rolls : x.game = g /\ x.own
                      /\ \A f \in Frames : Made(g, f) \in outbox => Gone(g, f) \in outbox
    BY DEF DiscardKeepsBalls, Made, Gone
  <2>1. frames[g] = {}
    BY DEF IInv, OwnBallsLive
  <2> QED
    BY <2>1 DEF IInv, OwnBallsLive, FramesAccounted
<1> QED
  BY <1>1, Invariance, PTL

(**************************** the balls of a game **************************)

LEMMA FactsAreBalls ==
  ASSUME IInv, NEW g \in Game
  PROVE  /\ Balls(Facts(g)) /\ Facts(g) \subseteq rolls
         /\ \A x \in Facts(g) : /\ x.frame \in Frames /\ x.roll \in 1..3 /\ x.pins \in 0..Pins
                                /\ x.version \in Nat \ {0} /\ x.id \in Nat
<1>1. Facts(g) \subseteq rolls
  BY DEF Facts
<1>2. rolls \subseteq RollRow /\ IsFiniteSet(rolls)
  BY DEF IInv, BooksKept, Books, Numbered
<1>3. IsFiniteSet(Facts(g))
  BY <1>1, <1>2, FS_Subset
<1>4. \A x \in Facts(g) : /\ x.frame \in Frames /\ x.roll \in 1..3 /\ x.pins \in 0..Pins
                          /\ x.version \in Nat \ {0} /\ x.id \in Nat
  BY <1>1, <1>2 DEF RollRow
<1>5. \A x \in Facts(g) : x.frame \in Nat /\ x.roll \in Nat /\ x.pins \in Nat
  BY <1>4, ScoringAssumption DEF Frames
<1> QED
  BY <1>1, <1>3, <1>4, <1>5 DEF Balls

LEMMA NeverStuck ==
  ASSUME IInv
  PROVE  NoDeadEnd
<1> SUFFICES ASSUME NEW g \in Game, Started(g),
                    Status(Facts(g)) \notin {"COMPLETED", "DOMAIN_INVALID_REQUIRING_REPAIR"}
             PROVE  Accepts(g, NextLegalSlot(Facts(g)), 0, NoSet)
  BY ScoringAssumption DEF NoDeadEnd
<1> DEFINE slot == NextLegalSlot(Facts(g))
<1>1. Balls(Facts(g))
  BY FactsAreBalls
<1>2. slot # NoSlot
  BY <1>1, NextSlotExists
<1>3. slot.frame \in Frames
  BY <1>2, NextSlotIs
<1>4. RollLegal(Facts(g), slot, 0)
  <2>1. /\ RemainingBefore(Facts(g), slot.frame, slot.roll) \in 0..Pins
        /\ \A p \in 0..RemainingBefore(Facts(g), slot.frame, slot.roll) :
             RollLegal(Facts(g), slot, p)
    BY <1>1, <1>2, NextRack
  <2> HIDE DEF slot
  <2>2. 0 \in 0..RemainingBefore(Facts(g), slot.frame, slot.roll)
    BY <2>1, ScoringAssumption
  <2> QED
    BY <2>1, <2>2
<1> QED
  BY <1>2, <1>3, <1>4 DEF Accepts, Started

\* The bowler is never stuck (frameComplete, nextLegalSlot,
\* frameTopologyIllegal and validateNextRoll agree): a game that is neither
\* complete nor broken has a next ball that recordRoll takes.
THEOREM BowlerIsNeverStuck == Spec => []NoDeadEnd
<1>1. IInv => NoDeadEnd
  BY NeverStuck
<1> QED
  BY <1>1, Invariance, PTL

(******************************* pin detail ********************************)

\* A ball has one effective detail at most, so its classification says which.
LEMMA StatusMeans ==
  ASSUME IInv, NEW y \in rolls, ActiveDetails(y) # {}, NEW facts
  PROVE  /\ ActiveDetails(y) = {Detail(y)} /\ Detail(y).standing \in SUBSET Rack
         /\ DetailStatus(facts, y) =
              IF Detail(y).basis # y.version THEN "STALE_DETAIL"
              ELSE IF Fits(facts, y.frame, y.roll, y.pins, Detail(y).standing)
                   THEN "EFFECTIVE" ELSE "INVALID_OBSERVATION"
<1>1. Detail(y) \in ActiveDetails(y)
  BY DEF Detail
<1>2. \A e \in ActiveDetails(y) : e = Detail(y)
  BY <1>1 DEF IInv, BooksKept, Books, OneDetailPerBall, ActiveDetails
<1>3. ActiveDetails(y) = {Detail(y)}
  BY <1>1, <1>2
<1>4. Cardinality(ActiveDetails(y)) = 1
  BY <1>3, FS_Singleton
<1>5. Detail(y).standing \in SUBSET Rack
  BY <1>1 DEF ActiveDetails, IInv, BooksKept, Books, DetailRow
<1> QED
  BY <1>3, <1>4, <1>5 DEF DetailStatus

\* The ball before a ball that meets a used rack, when its standing pins are
\* known and not proven wrong: they are the rack.
LEMMA PriorKnown ==
  ASSUME IInv, NEW g \in Game, NEW facts, facts = Facts(g),
         NEW f \in Frames, NEW d, Told(facts, f, d), NEW r \in {2, 3},
         RemainingBefore(facts, f, r) # Null, ~FreshRack(facts, f, r),
         ~AfterInvalid(g, f, r), PriorStanding(facts, f, r) # NoSet
  PROVE  /\ PriorStanding(facts, f, r) \in SUBSET Rack
         /\ IsFiniteSet(PriorStanding(facts, f, r))
         /\ Cardinality(PriorStanding(facts, f, r)) = RemainingBefore(facts, f, r)
<1> DEFINE previous == {x \in facts : x.frame = f /\ x.roll = r - 1}
<1>2. /\ r - 1 <= Len(d) /\ r - 1 \in 1..2
      /\ FreshRack(facts, f, r - 1)
      /\ RemainingBefore(facts, f, r - 1) = Pins
      /\ RemainingBefore(facts, f, r) = Pins - d[r - 1]
  BY UsedRack
<1>3. /\ d \in Seq(0..Pins) /\ Len(d) \in 0..3
      /\ {x.roll : x \in InFrame(facts, f)} = 1..Len(d)
      /\ \A x \in InFrame(facts, f) : x.pins = d[x.roll]
      /\ \A x, y \in InFrame(facts, f) : x.roll = y.roll => x = y
  BY DEF Told
<1>4. PICK y \in InFrame(facts, f) : y.roll = r - 1
  <2>1. r - 1 \in 1..Len(d)
    BY <1>2, <1>3
  <2>2. r - 1 \in {x.roll : x \in InFrame(facts, f)}
    BY ONLY <1>3, <2>1
  <2> QED
    BY ONLY <2>2
<1>5. previous = {y}
  BY <1>3, <1>4 DEF InFrame
<1>6. (CHOOSE x \in previous : TRUE) = y
  BY <1>5
<1>7. /\ ActiveDetails(y) # {} /\ Detail(y).basis = y.version
      /\ PriorStanding(facts, f, r) = Detail(y).standing
  BY <1>5, <1>6 DEF PriorStanding
<1>8. y \in Facts(g) /\ y \in rolls /\ y.frame = f
  BY <1>4 DEF InFrame, Facts
<1>9. Fits(facts, f, r - 1, y.pins, Detail(y).standing) /\ Detail(y).standing \in SUBSET Rack
  <2>1. /\ Detail(y).standing \in SUBSET Rack
        /\ DetailStatus(facts, y) =
             IF Detail(y).basis # y.version THEN "STALE_DETAIL"
             ELSE IF Fits(facts, y.frame, y.roll, y.pins, Detail(y).standing)
                  THEN "EFFECTIVE" ELSE "INVALID_OBSERVATION"
    BY <1>7, <1>8, StatusMeans
  <2>2. DetailStatus(facts, y) # "INVALID_OBSERVATION"
    BY <1>4, <1>8 DEF AfterInvalid
  <2> QED
    BY <1>4, <1>7, <1>8, <2>1, <2>2
<1>10. PriorStanding(facts, f, r - 1) = NoSet
  BY <1>2 DEF PriorStanding
<1>11. y.pins + Cardinality(Detail(y).standing) = Pins /\ y.pins = d[r - 1]
  BY <1>2, <1>3, <1>4, <1>9, <1>10 DEF Fits, DetailFits, FitsCount
<1>12. IsFiniteSet(Detail(y).standing) /\ Cardinality(Detail(y).standing) \in Nat
  <2>1. IsFiniteSet(Rack)
    BY ScoringAssumption, FS_Interval DEF Rack
  <2> QED
    BY <1>9, <2>1, FS_Subset, FS_CardinalityType
<1>13. y.pins \in Nat
  BY <1>8, FactsAreBalls
<1>14. Cardinality(Detail(y).standing) = Pins - d[r - 1]
  BY <1>11, <1>12, <1>13, ScoringAssumption
<1> QED
  BY <1>2, <1>7, <1>9, <1>12, <1>14

\* Detail shown as recorded accounts for every pin of the rack its ball met
\* (classifyPinDetail with rackOkFor, session.ts and pinDetail.ts).
THEOREM DetailFitsRack == Spec => []EffectiveDetailFitsRack
<1>1. IInv => EffectiveDetailFitsRack
  <2> SUFFICES ASSUME IInv, NEW g \in Game, NEW facts, facts = Facts(g),
                      Status(facts) # "DOMAIN_INVALID_REQUIRING_REPAIR",
                      NEW x \in facts, DetailStatus(facts, x) = "EFFECTIVE",
                      ~AfterInvalid(g, x.frame, x.roll)
               PROVE  x.pins + Cardinality(Detail(x).standing)
                        = RemainingBefore(facts, x.frame, x.roll)
    BY DEF EffectiveDetailFitsRack
  <2> DEFINE left == RemainingBefore(facts, x.frame, x.roll)
             prior == PriorStanding(facts, x.frame, x.roll)
             standing == Detail(x).standing
  <2>1. Legal(facts)
    BY FactsAreBalls, NoRepairMeansLegal
  <2>2. x.frame \in Frames /\ x.roll \in 1..3 /\ left \in 0..Pins
    BY <2>1, BallMetRack
  <2>3. x \in rolls /\ x.pins \in Nat
    BY FactsAreBalls
  <2>4. ActiveDetails(x) # {}
    BY DEF DetailStatus
  <2>5. standing \in SUBSET Rack /\ Fits(facts, x.frame, x.roll, x.pins, standing)
    BY <2>3, <2>4, StatusMeans
  <2>6. CASE prior = NoSet
    BY <2>5, <2>6 DEF Fits, DetailFits, FitsCount
  <2>7. CASE prior # NoSet
    <3>1. ~FreshRack(facts, x.frame, x.roll)
      BY <2>7 DEF PriorStanding
    <3>2. x.roll \in {2, 3}
      BY <2>2, <3>1 DEF FreshRack
    <3>3. left # Null
      BY <2>2, ScoringAssumption DEF Null
    <3>4. IsFiniteSet(prior) /\ Cardinality(prior) = left
      <4>1. Told(facts, x.frame, Deliveries(facts, x.frame))
        BY <2>1, <2>2, LegalLine DEF Line
      <4> QED
        BY <2>2, <2>7, <3>1, <3>2, <3>3, <4>1, PriorKnown
    <3> HIDE DEF left, prior, standing
    <3>5. standing \subseteq prior /\ x.pins = Cardinality(prior) - Cardinality(standing)
      BY <2>5, <2>7 DEF Fits, DetailFits, FitsPrior, prior
    <3>6. Cardinality(standing) \in Nat
      BY <3>4, <3>5, FS_Subset, FS_CardinalityType
    <3>7. x.pins + Cardinality(standing) = left
      BY <2>2, <3>4, <3>5, <3>6, ScoringAssumption
    <3> QED
      BY <3>7 DEF left, standing
  <2> QED
    BY <2>6, <2>7
<1> QED
  BY <1>1, Invariance, PTL

(************************** what the panel offers **************************)

\* The rolls of the view and the facts are the same balls.
LEMMA ViewsAreFacts ==
  ASSUME IInv, NEW g \in Game, NEW facts, facts = Facts(g), NEW f, NEW r,
         \A x, y \in InFrame(facts, f) : x.roll = y.roll => x = y
  PROVE  /\ Ball(Views(g), f, r) = Ball(facts, f, r)
         /\ \A y \in InFrame(facts, f) : y.roll = r =>
              \E v : /\ {w \in Views(g) : w.frame = f /\ w.roll = r} = {v}
                     /\ v.status = DetailStatus(facts, y)
                     /\ ActiveDetails(y) # {} => v.standing = Detail(y).standing
         /\ (\A y \in InFrame(facts, f) : y.roll # r) =>
              {w \in Views(g) : w.frame = f /\ w.roll = r} = {}
<1> DEFINE view(x) == [id |-> x.id, frame |-> x.frame, roll |-> x.roll, pins |-> x.pins,
                       version |-> x.version,
                       standing |-> IF ActiveDetails(x) = {} THEN NoSet ELSE Detail(x).standing,
                       basis |-> IF ActiveDetails(x) = {} THEN Null ELSE Detail(x).basis,
                       status |-> DetailStatus(facts, x)]
           S == {x \in InFrame(facts, f) : x.roll = r}
           T == {w \in InFrame(Views(g), f) : w.roll = r}
<1>1. Views(g) = {view(x) : x \in facts}
  BY DEF Views
<1>2. \A x : /\ view(x).id = x.id /\ view(x).frame = x.frame /\ view(x).roll = x.roll
             /\ view(x).pins = x.pins /\ view(x).status = DetailStatus(facts, x)
             /\ ActiveDetails(x) # {} => view(x).standing = Detail(x).standing
  OBVIOUS
<1> HIDE DEF view
<1>3. T = {view(x) : x \in S}
  BY <1>1, <1>2 DEF InFrame
<1>4. T = {w \in Views(g) : w.frame = f /\ w.roll = r}
  BY DEF InFrame
<1>5. CASE S = {}
  <2>1. T = {}
    BY <1>3, <1>5
  <2>2. Ball(Views(g), f, r) = Null /\ Ball(facts, f, r) = Null
    BY <1>5, <2>1 DEF Ball
  <2> QED
    BY <1>4, <1>5, <2>1, <2>2
<1>6. CASE S # {}
  <2>1. PICK y \in S : TRUE
    BY <1>6
  <2>2. S = {y}
    BY <2>1
  <2>3. T = {view(y)}
    BY <1>3, <2>2
  <2>4. y.id \in Nat
    BY <2>1, FactsAreBalls DEF InFrame
  <2> HIDE DEF S, T
  <2>5. (CHOOSE x \in S : \A z \in S : x.id <= z.id) = y
    BY <2>2, <2>4
  <2>6. (CHOOSE x \in T : \A z \in T : x.id <= z.id) = view(y)
    BY <1>2, <2>3, <2>4
  <2>7. Ball(facts, f, r) = y.pins
    BY <2>2, <2>5 DEF Ball, S
  <2>8. Ball(Views(g), f, r) = view(y).pins
    BY <2>3, <2>6 DEF Ball, T
  <2>9. \A z \in InFrame(facts, f) : z.roll = r => z = y
    BY <2>2 DEF S
  <2> QED
    BY <1>2, <1>4, <2>1, <2>3, <2>7, <2>8, <2>9 DEF S
<1> QED
  BY <1>5, <1>6

LEMMA FreshMeansFull ==
  ASSUME NEW facts, NEW f, NEW r, FreshRack(facts, f, r), RemainingBefore(facts, f, r) # Null
  PROVE  RemainingBefore(facts, f, r) = Pins
BY ScoringAssumption DEF FreshRack, RemainingBefore, Null

\* The rack the panel offers for a ball is the rack the store will check the
\* ball against.
LEMMA OfferedRackIsMet ==
  ASSUME IInv, NEW g \in Game, NEW facts, facts = Facts(g),
         NEW f \in Frames, NEW d, Told(facts, f, d), NEW r \in 1..3, ~AfterInvalid(g, f, r),
         NEW offered, offered = CaptureRack(Views(g), f, r), offered # NoSet
  PROVE  LET left == RemainingBefore(facts, f, r)
             prior == PriorStanding(facts, f, r)
         IN  /\ left \in 0..Pins /\ left # Null
             /\ IsFiniteSet(offered) /\ Cardinality(offered) = left
             /\ prior # NoSet => prior = offered
<1> DEFINE left == RemainingBefore(facts, f, r)
           prior == PriorStanding(facts, f, r)
<1>6. /\ Len(d) \in 0..3
      /\ {x.roll : x \in InFrame(facts, f)} = 1..Len(d)
      /\ \A x, y \in InFrame(facts, f) : x.roll = y.roll => x = y
  BY DEF Told
<1>8. /\ Ball(Views(g), f, 1) = Ball(facts, f, 1)
      /\ Ball(Views(g), f, 2) = Ball(facts, f, 2)
  BY <1>6, ViewsAreFacts
<1>9. RemainingBefore(Views(g), f, r) = left
  BY <1>8 DEF RemainingBefore
<1>10. IsFiniteSet(Rack) /\ Cardinality(Rack) = Pins
  BY ScoringAssumption, FS_Interval DEF Rack
<1>11. left # Null
  BY <1>9, ScoringAssumption DEF CaptureRack, Null
<1>12. ASSUME prior # NoSet
       PROVE  prior \in SUBSET Rack /\ IsFiniteSet(prior) /\ Cardinality(prior) = left
  <2>1. ~FreshRack(facts, f, r)
    BY <1>12 DEF PriorStanding
  <2>2. r \in {2, 3}
    BY <2>1 DEF FreshRack
  <2> QED
    BY <1>11, <1>12, <2>1, <2>2, PriorKnown
<1>13. CASE left = Pins
  <2>1. offered = Rack
    BY <1>9, <1>13 DEF CaptureRack
  <2>2. prior # NoSet => prior = Rack
    BY <1>10, <1>12, <1>13, FS_Subset
  <2> QED
    BY <1>10, <1>11, <1>13, <2>1, <2>2, ScoringAssumption
<1>14. CASE left # Pins
  <2> DEFINE before == {w \in Views(g) : w.frame = f /\ w.roll = r - 1}
  <2>1. before # {} /\ r # 1
    BY <1>9, <1>14 DEF CaptureRack
  <2> DEFINE q == r - 1
  <2>0. /\ \A y \in InFrame(facts, f) : y.roll = q =>
             \E v : /\ {w \in Views(g) : w.frame = f /\ w.roll = q} = {v}
                    /\ v.status = DetailStatus(facts, y)
                    /\ ActiveDetails(y) # {} => v.standing = Detail(y).standing
        /\ (\A y \in InFrame(facts, f) : y.roll # q) =>
             {w \in Views(g) : w.frame = f /\ w.roll = q} = {}
    <3> HIDE DEF q
    <3> QED
      BY <1>6, ViewsAreFacts
  <2>2. PICK y \in InFrame(facts, f) : y.roll = r - 1
    BY <2>0, <2>1
  <2>3. PICK v : /\ before = {v} /\ v.status = DetailStatus(facts, y)
                 /\ ActiveDetails(y) # {} => v.standing = Detail(y).standing
    BY <2>0, <2>2
  <2>4. (CHOOSE x \in before : TRUE) = v
    BY <2>3
  <2>5. offered = v.standing /\ v.status = "EFFECTIVE"
    BY <1>9, <1>11, <1>14, <2>1, <2>4 DEF CaptureRack
  <2>6. ActiveDetails(y) # {}
    BY <2>3, <2>5 DEF DetailStatus
  <2>7. y \in rolls /\ y \in facts /\ y.frame = f
    BY <2>2, FactsAreBalls DEF InFrame
  <2>8. Detail(y).basis = y.version
    BY <2>3, <2>5, <2>6, <2>7, StatusMeans
  <2>9. ~FreshRack(facts, f, r)
    BY <1>11, <1>14, FreshMeansFull
  <2>10. prior = offered
    <3>1. {x \in facts : x.frame = f /\ x.roll = r - 1} = {y}
      BY <1>6, <2>2, <2>7 DEF InFrame
    <3>2. (CHOOSE x \in {x \in facts : x.frame = f /\ x.roll = r - 1} : TRUE) = y
      BY <3>1
    <3>3. prior = Detail(y).standing
      BY <2>6, <2>8, <2>9, <3>1, <3>2 DEF PriorStanding
    <3> QED
      BY <2>3, <2>5, <2>6, <3>3
  <2>11. offered \in SUBSET Rack /\ IsFiniteSet(offered) /\ Cardinality(offered) = left
    BY <1>12, <2>10
  <2>12. left \in 0..Pins
    BY <1>10, <2>11, ScoringAssumption, FS_Subset, FS_CardinalityType
  <2> QED
    BY <1>11, <2>10, <2>11, <2>12
<1> QED
  BY <1>13, <1>14

LEMMA OfferedTaken ==
  ASSUME IInv
  PROVE  OfferedBallsAreAccepted
<1> SUFFICES ASSUME NEW g \in Game, Started(g),
                    NEW slot, slot = NextLegalSlot(Facts(g)), slot # NoSlot,
                    ~AfterInvalid(g, slot.frame, slot.roll),
                    NEW offered, offered = CaptureRack(Views(g), slot.frame, slot.roll),
                    offered # NoSet, NEW standing \in SUBSET offered
             PROVE  Accepts(g, slot, Cardinality(offered) - Cardinality(standing), standing)
  BY DEF OfferedBallsAreAccepted
<1> DEFINE left == RemainingBefore(Facts(g), slot.frame, slot.roll)
           prior == PriorStanding(Facts(g), slot.frame, slot.roll)
           pins == Cardinality(offered) - Cardinality(standing)
<1>1. /\ left \in 0..Pins /\ left # Null
      /\ IsFiniteSet(offered) /\ Cardinality(offered) = left
      /\ prior # NoSet => prior = offered
  <2>1. Balls(Facts(g))
    BY FactsAreBalls
  <2>2. /\ slot.frame \in Frames /\ slot.roll \in 1..3
        /\ Told(Facts(g), slot.frame, Deliveries(Facts(g), slot.frame))
    BY <2>1, NextSlotTold
  <2> QED
    BY <2>2, OfferedRackIsMet
<1>2. /\ IsFiniteSet(standing) /\ Cardinality(standing) \in Nat
      /\ Cardinality(standing) <= Cardinality(offered)
  BY <1>1, FS_Subset, FS_CardinalityType
<1>3. \A p \in 0..left : RollLegal(Facts(g), slot, p)
  BY FactsAreBalls, NextRack
<1>4. slot.frame \in frames[g]
  BY NextSlotIs DEF Started
<1> HIDE DEF left, prior
<1>5. pins \in 0..left /\ pins + Cardinality(standing) = left /\ left # Null
  BY <1>1, <1>2, ScoringAssumption
<1>6. CASE prior = NoSet
  BY <1>3, <1>4, <1>5, <1>6 DEF Accepts, Fits, DetailFits, FitsCount, left, prior
<1>7. CASE prior # NoSet
  BY <1>1, <1>3, <1>4, <1>5, <1>7 DEF Accepts, Fits, DetailFits, FitsPrior, left, prior
<1> QED
  BY <1>6, <1>7

\* Every ball the panel can offer for the next slot is one that recordRoll
\* takes (resolveCaptureRack against priorStandingForSlot).
THEOREM OfferedIsAccepted == Spec => []OfferedBallsAreAccepted
<1>1. IInv => OfferedBallsAreAccepted
  BY OfferedTaken
<1> QED
  BY <1>1, Invariance, PTL

(******************************* bowled games ******************************)

Bowled(facts) ==
  /\ Balls(facts) /\ Playable(facts)
  /\ \A x \in facts : x.frame \in Frames /\ x.roll \in 1..3 /\ x.pins \in 0..Pins

Earlier(facts, x) ==
  {y \in facts : y.frame < x.frame \/ (y.frame = x.frame /\ y.roll < x.roll)}

LEMMA BowledBall ==
  ASSUME NEW facts, Bowled(facts), NEW x \in facts
  PROVE  LET slot == [frame |-> x.frame, roll |-> x.roll]
         IN  /\ NextLegalSlot(Earlier(facts, x)) = slot /\ slot # NoSlot
             /\ RollLegal(Earlier(facts, x), slot, x.pins)
<1>1. x.frame # 0
  BY ScoringAssumption DEF Bowled, Frames
<1> QED
  BY <1>1 DEF Bowled, Playable, Earlier, NoSlot

LEMMA BowledInOrder ==
  ASSUME NEW facts, Bowled(facts), NEW f, NEW x \in InFrame(facts, f), x.roll # 1
  PROVE  \E y \in InFrame(facts, f) : y.roll = x.roll - 1
<1> DEFINE S == InFrame(facts, f)
           before == {y.roll : y \in InFrame(Earlier(facts, x), x.frame)}
<1>1. x \in facts /\ x.frame = f /\ \A y \in S : y.roll \in 1..3
  BY DEF InFrame, Bowled
<1>2. before = {y.roll : y \in {z \in S : z.roll < x.roll}}
  <2>1. InFrame(Earlier(facts, x), x.frame) = {z \in S : z.roll < x.roll}
    <3>1. \A z \in facts : z.frame = x.frame => ~(z.frame < x.frame)
      BY <1>1 DEF Bowled, Frames
    <3> QED
      BY <1>1, <3>1 DEF Earlier, InFrame
  <2> QED
    BY <2>1
<1>3. x.roll = IF before = {} THEN 1 ELSE 1 + CHOOSE r \in before : \A s \in before : s <= r
  <2> DEFINE slot == [frame |-> x.frame, roll |-> x.roll]
             set(f1) == {y.roll : y \in InFrame(Earlier(facts, x), f1)}
  <2>1. RollLegal(Earlier(facts, x), slot, x.pins)
    BY <1>1, BowledBall
  <2>2. slot.frame = x.frame /\ slot.roll = x.roll
    OBVIOUS
  <2> HIDE DEF slot
  <2>3. slot.roll = IF set(slot.frame) = {} THEN 1
                    ELSE 1 + CHOOSE r \in set(slot.frame) : \A s \in set(slot.frame) : s <= r
    BY <2>1 DEF RollLegal
  <2>4. before = set(slot.frame)
    BY <2>2
  <2> HIDE DEF before, set
  <2> QED
    BY <2>2, <2>3, <2>4
<1>4. before # {} /\ before \subseteq 1..2 /\ x.roll \in {2, 3}
  <2>1. x.roll \in {2, 3} /\ before # {}
    <3>1. x.roll \in 1..3
      BY <1>1
    <3> HIDE DEF before
    <3> QED
      BY <1>3, <3>1
  <2>2. \A z \in S : z.roll \in 1..3 /\ (z.roll < x.roll => z.roll \in 1..2)
    BY <1>1, <2>1
  <2>3. before \subseteq 1..2
    <3> HIDE DEF before, S
    <3> QED
      BY <1>2, <2>2
  <2> QED
    BY <2>1, <2>3
<1>5. PICK r \in before : \A s \in before : s <= r
  <2>1. CASE 2 \in before
    BY <1>4, <2>1
  <2>2. CASE 2 \notin before
    BY <1>4, <2>2
  <2> QED
    BY <2>1, <2>2
<1> DEFINE m == CHOOSE r1 \in before : \A s \in before : s <= r1
<1>6. m \in before
  <2> HIDE DEF before
  <2> QED
    BY <1>5
<1>7. x.roll = 1 + m
  BY <1>3, <1>4
<1>8. PICK y \in S : y.roll = m
  <2> HIDE DEF m
  <2> QED
    BY <1>2, <1>6
<1>9. m \in 1..2
  BY <1>4, <1>6
<1> HIDE DEF m
<1> QED
  BY <1>7, <1>8, <1>9

LEMMA BowledNumbers ==
  ASSUME NEW facts, Bowled(facts), NEW f, NEW S, S = InFrame(facts, f)
  PROVE  {x.roll : x \in S} = 1..Cardinality(S) /\ Cardinality(S) <= 3
<1>1. \A x \in S : x.roll \in 1..3
  BY DEF InFrame, Bowled
<1>2. \A x, y \in S : x.roll = y.roll => x = y
  BY DEF InFrame, Bowled, Playable
<1>3. \A x \in S : x.roll # 1 => \E y \in S : y.roll = x.roll - 1
  BY BowledInOrder
<1>4. CASE S = {}
  <2>1. Cardinality(S) = 0
    BY <1>4, FS_EmptySet
  <2>2. {x.roll : x \in S} = 1..0
    BY <1>4
  <2> QED
    BY <2>1, <2>2
<1>5. ASSUME S # {} PROVE \E a \in S : a.roll = 1
  <2>1. PICK x \in S : TRUE
    BY <1>5
  <2>2. x.roll = 3 => \E y \in S : y.roll = 2
    BY <1>3
  <2>3. (\E y \in S : y.roll = 2) => \E a \in S : a.roll = 1
    BY <1>3
  <2> QED
    BY <1>1, <2>1, <2>2, <2>3
<1>6. CASE S # {} /\ \A x \in S : x.roll = 1
  <2>1. PICK a \in S : a.roll = 1
    BY <1>5, <1>6
  <2>2. S = {a}
    BY <1>2, <1>6, <2>1
  <2>3. Cardinality(S) = 1
    BY <2>2, FS_Singleton
  <2>4. {x.roll : x \in S} = 1..1
    BY <1>6, <2>1
  <2> QED
    BY <2>3, <2>4
<1>7. CASE (\E x \in S : x.roll = 2) /\ \A x \in S : x.roll # 3
  <2>1. PICK b \in S : b.roll = 2
    BY <1>7
  <2>2. PICK a \in S : a.roll = 1
    BY <1>5, <2>1
  <2>3. S = {a} \cup {b} /\ b \notin {a}
    BY <1>1, <1>2, <1>7, <2>1, <2>2
  <2>4. IsFiniteSet({a}) /\ Cardinality({a}) = 1
    BY FS_Singleton
  <2>5. Cardinality(S) = 2
    BY <2>3, <2>4, FS_AddElement
  <2>6. \A x \in S : x.roll \in 1..2
    BY <1>1, <1>7
  <2>7. \A i \in 1..2 : \E x \in S : x.roll = i
    BY <2>1, <2>2
  <2>8. {x.roll : x \in S} = 1..2
    BY <2>6, <2>7
  <2> QED
    BY <2>5, <2>8
<1>8. CASE \E x \in S : x.roll = 3
  <2>1. PICK c \in S : c.roll = 3
    BY <1>8
  <2>2. PICK b \in S : b.roll = 2
    BY <1>3, <2>1
  <2>3. PICK a \in S : a.roll = 1
    BY <1>5, <2>1
  <2>4. S = ({a} \cup {b}) \cup {c} /\ b \notin {a} /\ c \notin {a} \cup {b}
    BY <1>1, <1>2, <2>1, <2>2, <2>3
  <2>5. IsFiniteSet({a}) /\ Cardinality({a}) = 1
    BY FS_Singleton
  <2>6. IsFiniteSet({a} \cup {b}) /\ Cardinality({a} \cup {b}) = 2
    BY <2>4, <2>5, FS_AddElement
  <2>7. Cardinality(S) = 3
    BY <2>4, <2>6, FS_AddElement
  <2>8. \A i \in 1..3 : \E x \in S : x.roll = i
    BY <2>1, <2>2, <2>3
  <2>9. {x.roll : x \in S} = 1..3
    BY <1>1, <2>8
  <2> QED
    BY <2>7, <2>9
<1>9. CASE S # {} /\ (\A x \in S : x.roll # 2 /\ x.roll # 3)
  BY <1>1, <1>6, <1>9
<1> QED
  BY <1>4, <1>7, <1>8, <1>9

\* A game bowled ball by ball needs no repair.
LEMMA BowledLegal ==
  ASSUME NEW facts, Bowled(facts)
  PROVE  Legal(facts)
<1>1. ~NumberingIllegal(facts)
  <2>1. \A f \in Frames : LET S == InFrame(facts, f)
                          IN  {x.roll : x \in S} = 1..Cardinality(S) /\ ~(Cardinality(S) > 3)
    <3> SUFFICES ASSUME NEW f \in Frames, NEW S, S = InFrame(facts, f)
                 PROVE  {x.roll : x \in S} = 1..Cardinality(S) /\ ~(Cardinality(S) > 3)
      OBVIOUS
    <3>1. IsFiniteSet(S)
      BY FS_Subset DEF Bowled, Balls, InFrame
    <3>2. Cardinality(S) \in Nat
      BY <3>1, FS_CardinalityType
    <3> QED
      BY <3>2, BowledNumbers
  <2> QED
    BY <2>1 DEF NumberingIllegal, Bowled
<1>2. ASSUME NEW f \in Frames
      PROVE  ~TopologyIllegal(f, Deliveries(facts, f))
  <2> DEFINE d == Deliveries(facts, f)
  <2>1. Told(facts, f, d)
    BY BowledNumbers, DeliveriesTell DEF Bowled
  <2> SUFFICES ~TopologyIllegal(f, d)
    OBVIOUS
  <2> HIDE DEF d
  <2>2. Len(d) \in 0..3 /\ \A i \in 1..Len(d) : d[i] \in 0..Pins
    BY <2>1, ElementsOf DEF Told
  <2>3. CASE Len(d) \in 0..1
    <3>1. ~(Len(d) > 2) /\ ~(Len(d) > 3) /\ Len(d) # 2 /\ Len(d) \notin {2, 3}
      BY <2>3
    <3> QED
      BY <3>1 DEF TopologyIllegal
  <2>4. CASE Len(d) \in 2..3
    <3>1. PICK z \in InFrame(facts, f) : z.roll = Len(d)
      BY <2>1, <2>4 DEF Told
    <3> DEFINE slot == [frame |-> z.frame, roll |-> z.roll]
               E == Earlier(facts, z)
               e == Deliveries(E, f)
               a == Append(e, z.pins)
    <3>2. z \in facts /\ z.frame = f /\ z.pins = d[Len(d)] /\ z.pins \in 0..Pins
      BY <2>1, <3>1 DEF Told, InFrame, Bowled
    <3>3. NextLegalSlot(E) = slot /\ slot # NoSlot /\ RollLegal(E, slot, z.pins)
      BY <3>2, BowledBall
    <3>4. slot.frame = f /\ slot.roll = z.roll
      BY <3>2
    <3>5. Takes(f, e) /\ Len(d) = Len(e) + 1
      <4> HIDE DEF slot, E
      <4> QED
        BY <3>1, <3>3, <3>4, NextSlotIs
    <3>6. InFrame(E, f) = {y \in InFrame(facts, f) : y.roll < z.roll}
      <4>1. \A y \in facts : y.frame = f => ~(y.frame < z.frame)
        BY <3>2 DEF Bowled, Frames
      <4> QED
        BY <3>2, <4>1 DEF Earlier, InFrame
    <3>7. Told(E, f, e)
      <4>1. Balls(E) /\ \A y \in E : y.pins \in 0..Pins
        <5>1. E \subseteq facts
          BY DEF Earlier
        <5>2. IsFiniteSet(E)
          BY <5>1, FS_Subset DEF Bowled, Balls
        <5> QED
          BY <5>1, <5>2 DEF Bowled, Balls
      <4> DEFINE S == InFrame(E, f)
      <4>2. IsFiniteSet(S)
        BY <4>1, FS_Subset DEF Balls, InFrame
      <4>3. Bowled(E)
        <5>1. E \subseteq facts
          BY DEF Earlier
        <5>2. \A x \in E : Earlier(E, x) = Earlier(facts, x)
          <6>1. \A x \in E : \A y \in facts :
                  (y.frame < x.frame \/ (y.frame = x.frame /\ y.roll < x.roll)) => y \in E
            BY <3>2 DEF Earlier, Bowled, Balls
          <6> QED
            BY <5>1, <6>1 DEF Earlier
        <5>3. \A x \in E : LET s == [frame |-> x.frame, roll |-> x.roll]
                           IN  NextLegalSlot(Earlier(E, x)) = s /\ RollLegal(Earlier(E, x), s, x.pins)
          BY <5>1, <5>2, BowledBall
        <5> QED
          BY <4>1, <5>1, <5>3 DEF Bowled, Playable, Earlier
      <4> HIDE DEF E
      <4> QED
        BY <4>1, <4>3, BowledNumbers, DeliveriesTell
    <3>8. \A i \in 1..Len(e) : e[i] = d[i]
      <4> SUFFICES ASSUME NEW i \in 1..Len(e)
                   PROVE  e[i] = d[i]
        OBVIOUS
      <4> HIDE DEF E, e
      <4>1. PICK y \in InFrame(E, f) : y.roll = i
        BY <3>7 DEF Told
      <4>2. y.pins = e[i]
        BY <3>7, <4>1 DEF Told
      <4>3. y.pins = d[i]
        BY <2>1, <3>6, <4>1 DEF Told
      <4> QED
        BY <4>2, <4>3
    <3>9. Len(a) = Len(d) /\ \A i \in 1..Len(d) : a[i] = d[i]
      <4> HIDE DEF e
      <4>1. e \in Seq(0..Pins)
        BY <3>7 DEF Told
      <4> QED
        BY <2>2, <3>2, <3>5, <3>8, <4>1
    <3>10. /\ Len(d) = 2 /\ (f < FrameCount \/ d[1] # Pins) => d[1] + d[2] <= Pins
           /\ Len(d) > 2 /\ f = FrameCount => d[1] = Pins \/ d[1] + d[2] = Pins
      <4> DEFINE A(g) == Append(Deliveries(E, g), z.pins)
      <4>1. /\ Len(A(slot.frame)) = 2 /\ (slot.frame < FrameCount \/ A(slot.frame)[1] # Pins)
                 => A(slot.frame)[1] + A(slot.frame)[2] <= Pins
            /\ Len(A(slot.frame)) > 2 /\ slot.frame = FrameCount
                 => A(slot.frame)[1] = Pins \/ A(slot.frame)[1] + A(slot.frame)[2] = Pins
        <5> HIDE DEF slot, E
        <5> QED
          BY <3>3 DEF RollLegal
      <4>2. A(slot.frame) = a
        BY <3>4
      <4>3. Len(a) = Len(d) /\ a[1] = d[1] /\ a[2] = d[2]
        <5> HIDE DEF a
        <5> QED
          BY <2>4, <3>9
      <4> HIDE DEF A, slot, a
      <4>4. /\ Len(a) = 2 /\ (f < FrameCount \/ a[1] # Pins) => a[1] + a[2] <= Pins
            /\ Len(a) > 2 /\ f = FrameCount => a[1] = Pins \/ a[1] + a[2] = Pins
        BY <3>4, <4>1, <4>2
      <4> QED
        BY <4>3, <4>4
    <3>11. f < FrameCount => Len(d) = 2 /\ d[1] # Pins
      <4> HIDE DEF e
      <4>1. f < FrameCount => ~Strike(e) /\ Len(e) < 2
        BY <3>5 DEF Takes
      <4>2. Len(e) \in 0..3
        BY <3>7 DEF Told
      <4>3. Len(e) \in {1, 2}
        BY <2>4, <3>5, <4>2
      <4>4. e[1] = d[1]
        BY <3>8, <4>3
      <4> QED
        BY <2>4, <3>5, <4>1, <4>3, <4>4 DEF Strike
    <3>12. f \in Nat /\ (f < FrameCount \/ f = FrameCount)
      BY ScoringAssumption DEF Frames
    <3>13. d[1] \in Int /\ d[2] \in Int
      BY <2>2, <2>4
    <3>14. CASE f < FrameCount
      <4>1. Len(d) = 2 /\ d[1] # Pins /\ ~(d[1] + d[2] > Pins)
        BY <3>10, <3>11, <3>13, <3>14, ScoringAssumption
      <4> QED
        BY <3>14, <4>1 DEF TopologyIllegal
    <3>15. CASE f = FrameCount
      <4>1. ~(f < FrameCount) /\ ~(Len(d) > 3)
        BY <2>2, <3>15, ScoringAssumption
      <4>2. d[1] # Pins => /\ Len(d) = 2 => d[1] + d[2] <= Pins
                           /\ Len(d) = 3 => d[1] + d[2] = Pins
        BY <2>4, <3>10, <3>15
      <4> QED
        BY <2>4, <3>13, <4>1, <4>2, ScoringAssumption DEF TopologyIllegal
    <3> QED
      BY <3>12, <3>14, <3>15
  <2> QED
    BY <2>2, <2>3, <2>4
<1> QED
  BY <1>1, <1>2 DEF Legal, Bowled

LEMMA EarlierBowled ==
  ASSUME NEW facts, Bowled(facts), NEW x \in facts
  PROVE  \A y \in facts :
           (4 * x.frame + x.roll <= 4 * y.frame + y.roll) =
             ~(y.frame < x.frame \/ (y.frame = x.frame /\ y.roll < x.roll))
<1> SUFFICES ASSUME NEW y \in facts
             PROVE  (4 * x.frame + x.roll <= 4 * y.frame + y.roll) =
                      ~(y.frame < x.frame \/ (y.frame = x.frame /\ y.roll < x.roll))
  OBVIOUS
<1>1. x.frame \in Nat /\ y.frame \in Nat /\ x.roll \in 1..3 /\ y.roll \in 1..3
  BY DEF Bowled, Balls
<1> QED
  BY <1>1

\* Of two bowled games that differ in one ball, the ball is the last.
LEMMA LastBall ==
  ASSUME NEW old, NEW new, Bowled(old), Bowled(new), NEW x, x \notin old, new = old \cup {x}
  PROVE  Earlier(new, x) = old
<1> DEFINE W == {y \in old : ~(y \in Earlier(new, x))}
           at(y) == 4 * y.frame + y.roll
<1>1. SUFFICES ASSUME W # {} PROVE FALSE
  <2>1. x.frame \in Nat /\ x.roll \in Nat
    BY DEF Bowled, Balls
  <2>2. x \notin Earlier(new, x)
    BY <2>1 DEF Earlier
  <2>3. Earlier(new, x) \subseteq new
    BY DEF Earlier
  <2> QED
    BY <2>2, <2>3
<1>2. \A y \in new : at(y) \in Nat
  <2>1. \A y \in new : y.frame \in Nat /\ y.roll \in Nat
    BY DEF Bowled, Balls
  <2> QED
    BY <2>1
<1>3. PICK y \in W : \A z \in W : at(y) <= at(z)
  <2> DEFINE T == {at(z) : z \in W}
  <2>1. T \in SUBSET Nat /\ T # {}
    BY <1>1, <1>2
  <2>2. PICK n \in T : \A m \in T : n <= m
    <3> HIDE DEF T
    <3> QED
      BY <2>1, LeastNumber
  <2> QED
    BY <2>2
<1>4. y \in old /\ y \in new /\ x \in new /\ y # x
  OBVIOUS
<1>5. ~(y.frame = x.frame /\ y.roll = x.roll)
  BY <1>4 DEF Bowled, Playable
<1>6. \A z \in new : z \in Earlier(new, x) <=> ~(at(x) <= at(z))
  BY <1>4, EarlierBowled DEF Earlier
<1>7. \A z \in old : z \in Earlier(old, y) <=> ~(at(y) <= at(z))
  BY <1>4, EarlierBowled DEF Earlier
<1>8. at(x) < at(y)
  <2>1. at(x) <= at(y)
    BY <1>4, <1>6
  <2>2. at(x) # at(y)
    <3>1. x.frame \in Nat /\ y.frame \in Nat /\ x.roll \in 1..3 /\ y.roll \in 1..3
      BY <1>4 DEF Bowled, Balls
    <3> QED
      BY <1>5, <3>1
  <2> HIDE DEF at
  <2> QED
    BY <1>2, <1>4, <2>1, <2>2
<1>9. Earlier(new, x) = Earlier(old, y)
  <2> HIDE DEF at
  <2>1. ASSUME NEW z \in Earlier(new, x)
        PROVE  z \in Earlier(old, y)
    <3>1. z \in new /\ ~(at(x) <= at(z))
      BY <1>6, <2>1 DEF Earlier
    <3>2. z \in old
      BY <1>2, <1>4, <3>1
    <3> QED
      BY <1>2, <1>4, <1>7, <1>8, <3>1, <3>2
  <2>2. ASSUME NEW z \in Earlier(old, y)
        PROVE  z \in Earlier(new, x)
    <3>1. z \in old /\ ~(at(y) <= at(z))
      BY <1>7, <2>2 DEF Earlier
    <3>2. z \notin W
      BY <1>3, <3>1
    <3> QED
      BY <3>1, <3>2
  <2> QED
    BY <2>1, <2>2
<1>10. [frame |-> x.frame, roll |-> x.roll] = [frame |-> y.frame, roll |-> y.roll]
  <2>1. NextLegalSlot(Earlier(new, x)) = [frame |-> x.frame, roll |-> x.roll]
    BY <1>4, BowledBall
  <2>2. NextLegalSlot(Earlier(old, y)) = [frame |-> y.frame, roll |-> y.roll]
    BY <1>4, BowledBall
  <2> QED
    BY <1>9, <2>1, <2>2
<1> QED
  BY <1>5, <1>10

LEMMA BowledOn ==
  ASSUME NEW old, NEW new, Bowled(old), Bowled(new), NEW x, x \notin old, new = old \cup {x}
  PROVE  Settled(DeriveGame(old), DeriveGame(new))
<1> DEFINE slot == [frame |-> x.frame, roll |-> x.roll]
<1>1. NextLegalSlot(old) = slot /\ slot # NoSlot
  <2>1. NextLegalSlot(Earlier(new, x)) = slot /\ slot # NoSlot
    BY BowledBall
  <2>2. Earlier(new, x) = old
    BY LastBall
  <2> QED
    BY <2>1, <2>2
<1>2. slot.frame = x.frame /\ slot.roll = x.roll
  OBVIOUS
<1> HIDE DEF slot
<1>3. /\ x.frame \in Frames /\ Takes(x.frame, Deliveries(old, x.frame))
      /\ x.roll = Len(Deliveries(old, x.frame)) + 1
  BY <1>1, <1>2, NextSlotIs
<1>4. Joined(old, new, x)
  <2>1. \A f \in Frames : Told(old, f, Deliveries(old, f)) /\ Told(new, f, Deliveries(new, f))
    BY BowledLegal, LegalLine DEF Line
  <2>2. x.pins \in 0..Pins
    BY DEF Bowled
  <2> QED
    BY <1>3, <2>1, <2>2 DEF Joined
<1>5. \A y \in old : y.frame <= x.frame
  <2>1. \A y \in old : y.frame \in Nat /\ x.frame \in Nat /\ y \in Earlier(new, x)
    BY LastBall DEF Bowled, Balls
  <2> QED
    BY <2>1 DEF Earlier
<1>6. Scored(new)
  <2>1. ~Illegal(new, Lines(new))
    BY BowledLegal, LinesAre DEF Legal, Illegal
  <2>2. new # {}
    OBVIOUS
  <2> QED
    BY <2>1, <2>2 DEF Scored, Status, StatusOf
<1> QED
  BY <1>3, <1>4, <1>5, <1>6, UnscoredSheet, SheetStays DEF Settled

LEMMA CorrectionIsNew ==
  ASSUME IInv, NEW x \in rolls, NEW pins, NEW then, CorrectRoll(x, pins, then)
  PROVE  corrections' # corrections
<1> DEFINE c == [key |-> RollKey(x.id), prior |-> x.version, from |-> Value(x.pins, NoSet),
                 to |-> Value(pins, NoSet)]
<1>1. corrections' = corrections \cup {c}
  BY DEF CorrectRoll, Audit
<1>2. x.version \in Nat \ {0} /\ RollStory(x, outbox, corrections)
  BY DEF IInv, BooksKept, Books, RollRow
<1>3. {e.prior : e \in About(corrections, RollKey(x.id))} = 1..(x.version - 1)
  BY <1>2 DEF RollStory, Story
<1>4. c.key = RollKey(x.id) /\ c.prior = x.version
  OBVIOUS
<1> HIDE DEF c
<1>5. c \notin corrections
  <2>1. c \notin About(corrections, RollKey(x.id))
    BY <1>2, <1>3, <1>4
  <2> QED
    BY <1>4, <2>1 DEF About
<1> QED
  BY <1>1, <1>5

\* The steps that change a ball and no correction add a ball.
LEMMA OnlyNewBalls ==
  ASSUME IInv, Next, rolls' # rolls, corrections' = corrections
  PROVE  \E x : x \notin rolls /\ rolls' = rolls \cup {x} /\ frames' = frames
<1>1. \A id : id = Cardinality(rolls) + 1 => \A x \in rolls : x.id # id
  BY FS_CardinalityType DEF IInv, BooksKept, Books, Numbered
<1>2. CASE \E g \in Game : ReceiveRoll(g)
  <2>1. PICK g \in Game : ReceiveRoll(g)
    BY <1>2
  <2>2. PICK x : x.id = Cardinality(rolls) + 1 /\ rolls' = rolls \cup {x}
    BY <2>1 DEF ReceiveRoll
  <2>3. x \notin rolls /\ frames' = frames
    BY <1>1, <2>1, <2>2 DEF ReceiveRoll
  <2> QED
    BY <2>2, <2>3
<1>3. CASE \E g, slot, pins, standing : RecordRoll(g, slot, pins, standing)
  <2>1. PICK g, slot, pins, standing : RecordRoll(g, slot, pins, standing)
    BY <1>3
  <2>2. PICK x : x.id = Cardinality(rolls) + 1 /\ rolls' = rolls \cup {x}
    BY <2>1 DEF RecordRoll
  <2>3. x \notin rolls /\ frames' = frames
    BY <1>1, <2>1, <2>2 DEF RecordRoll
  <2> QED
    BY <2>2, <2>3
<1>4. ASSUME NEW x \in rolls, NEW pins,
             \/ CorrectRoll(x, pins, Idle)
             \/ \E standing \in SUBSET Rack : CorrectRollWithStanding(x, pins, standing)
      PROVE  FALSE
  <2>1. PICK then : CorrectRoll(x, pins, then)
    BY <1>4 DEF CorrectRollWithStanding
  <2> QED
    BY <2>1, CorrectionIsNew
<1>5. CASE \/ \E g \in Game : StartGame(g) \/ Discard(g)
           \/ StartFrame \/ SaveStanding \/ Interrupt
           \/ \E x \in rolls, standing \in SUBSET Rack : ChangeDetail(x, standing)
           \/ \E x \in rolls : RemovePinDetail(x)
  BY <1>5 DEF StartGame, Discard, StartFrame, SaveStanding, Interrupt, store, ChangeDetail,
     AddPinDetail, CorrectPinDetail, RemovePinDetail
<1> QED
  BY <1>2, <1>3, <1>4, <1>5 DEF Next

FactsTyped ==
  \A g \in Game : /\ Balls(Facts(g))
                  /\ \A y \in Facts(g) : /\ y.frame \in Frames /\ y.roll \in 1..3
                                          /\ y.pins \in 0..Pins

LEMMA FactsKept == IInv => FactsTyped
BY FactsAreBalls DEF FactsTyped

LEMMA NextSettled ==
  ASSUME IInv, IInv', Next, rolls' # rolls, corrections' = corrections, NEW g \in Game,
         Playable(Facts(g)), Playable(Facts(g)')
  PROVE  Settled(DeriveGame(Facts(g)), DeriveGame(Facts(g)'))
<1> DEFINE old == Facts(g)
           new == Facts(g)'
<1> SUFFICES Settled(DeriveGame(old), DeriveGame(new))
  OBVIOUS
<1>1. PICK x : x \notin rolls /\ rolls' = rolls \cup {x} /\ frames' = frames
  BY OnlyNewBalls
<1>2. new = old \/ (x \notin old /\ new = old \cup {x})
  BY <1>1 DEF Facts
<1>3. Bowled(old)
  BY FactsAreBalls DEF Bowled
<1>4. Bowled(new)
  <2>1. /\ Balls(new)
        /\ \A y \in new : y.frame \in Frames /\ y.roll \in 1..3 /\ y.pins \in 0..Pins
    <3>1. FactsTyped'
      BY FactsKept, PTL
    <3> QED
      BY <3>1 DEF FactsTyped
  <2> QED
    BY <2>1 DEF Bowled
<1> HIDE DEF old, new
<1>5. CASE new = old
  BY <1>5 DEF Settled
<1>6. CASE x \notin old /\ new = old \cup {x}
  BY <1>3, <1>4, <1>6, BowledOn
<1> QED
  BY <1>2, <1>5, <1>6

\* Bowling on changes no frame that is resolved and no total that rests on
\* resolved frames only (derive.ts scoreFrames, computeRunningTotals).
THEOREM ResolvedStands == Spec => ResolvedFramesStand
<1>1. IInv /\ IInv' /\ [Next]_vars =>
        [\A g \in Game :
           /\ rolls' # rolls /\ corrections' = corrections
           /\ games[g] = "live" /\ games'[g] = "live"
           => \A old \in {Facts(g)}, new \in {Facts(g)'} :
                Playable(old) /\ Playable(new) => Settled(DeriveGame(old), DeriveGame(new))]_vars
  BY NextSettled
<1> QED
  BY <1>1, Invariance, PTL DEF Spec, ResolvedFramesStand
(************************** the rules of bowling ***************************)

\* q lists the balls of S in the order they were bowled.
Runs(q, S) ==
  /\ q \in Seq(S)
  /\ \A x \in S : \E i \in 1..Len(q) : x = q[i]
  /\ \A i, j \in 1..Len(q) : i < j => Later(q[i], q[j])

LEMMA RunsOn ==
  ASSUME NEW q, NEW S, Runs(q, S), NEW r, NEW T, Runs(r, T),
         \A x \in S, y \in T : Later(x, y)
  PROVE  Runs(q \o r, S \cup T)
<1> DEFINE U == S \cup T
           n == Len(q)
<1>1. /\ q \in Seq(U) /\ r \in Seq(U) /\ n \in Nat /\ Len(r) \in Nat
      /\ \A i \in 1..n : q[i] \in S
      /\ \A i \in 1..Len(r) : r[i] \in T
  <2>1. q \in Seq(S) /\ r \in Seq(T)
    BY DEF Runs
  <2>2. (\A i \in 1..n : q[i] \in S) /\ (\A i \in 1..Len(r) : r[i] \in T)
    BY <2>1, ElementsOf
  <2>3. q \in Seq(U) /\ r \in Seq(U)
    BY <2>1, <2>2, InSeq
  <2> QED
    BY <2>1, <2>2, <2>3
<1> HIDE DEF U
<1>2. /\ q \o r \in Seq(U) /\ Len(q \o r) = n + Len(r)
      /\ \A i \in 1..(n + Len(r)) : (q \o r)[i] = IF i <= n THEN q[i] ELSE r[i - n]
  BY <1>1
<1>3. ASSUME NEW x \in U
      PROVE  \E i \in 1..Len(q \o r) : x = (q \o r)[i]
  <2>1. CASE x \in S
    <3>1. PICK i \in 1..n : x = q[i]
      BY <2>1 DEF Runs
    <3>2. i \in 1..Len(q \o r) /\ x = (q \o r)[i]
      BY <1>1, <1>2, <3>1
    <3> QED
      BY <3>2
  <2>2. CASE x \in T
    <3>1. PICK i \in 1..Len(r) : x = r[i]
      BY <2>2 DEF Runs
    <3>2. n + i \in 1..Len(q \o r) /\ x = (q \o r)[n + i]
      BY <1>1, <1>2, <3>1
    <3> QED
      BY <3>2
  <2> QED
    BY <2>1, <2>2 DEF U
<1>4. ASSUME NEW i \in 1..Len(q \o r), NEW j \in 1..Len(q \o r), i < j
      PROVE  Later((q \o r)[i], (q \o r)[j])
  <2>1. CASE j <= n
    <3>1. i \in 1..n /\ j \in 1..n /\ (q \o r)[i] = q[i] /\ (q \o r)[j] = q[j]
      BY <1>1, <1>2, <1>4, <2>1
    <3> QED
      BY <1>4, <3>1 DEF Runs
  <2>2. CASE i <= n /\ ~(j <= n)
    <3>1. /\ i \in 1..n /\ j - n \in 1..Len(r)
          /\ (q \o r)[i] = q[i] /\ (q \o r)[j] = r[j - n]
      BY <1>1, <1>2, <1>4, <2>2
    <3> QED
      BY <1>1, <3>1
  <2>3. CASE ~(i <= n)
    <3>1. /\ i - n \in 1..Len(r) /\ j - n \in 1..Len(r) /\ i - n < j - n
          /\ (q \o r)[i] = r[i - n] /\ (q \o r)[j] = r[j - n]
      BY <1>1, <1>2, <1>4, <2>3
    <3> QED
      BY <3>1 DEF Runs
  <2> QED
    BY <1>1, <1>2, <1>4, <2>1, <2>2, <2>3
<1> QED
  BY <1>2, <1>3, <1>4 DEF Runs, U

\* The balls of one frame, in their order.
LEMMA FrameRuns ==
  ASSUME NEW facts, NEW f \in Nat, NEW d, Told(facts, f, d)
  PROVE  \E q : /\ Runs(q, InFrame(facts, f)) /\ Len(q) = Len(d)
                /\ \A i \in 1..Len(d) : q[i].pins = d[i] /\ q[i].roll = i
<1> DEFINE S == InFrame(facts, f)
           q == [i \in 1..Len(d) |-> CHOOSE x \in S : x.roll = i]
<1>1. /\ Len(d) \in Nat /\ {x.roll : x \in S} = 1..Len(d)
      /\ \A x \in S : x.pins = d[x.roll] /\ x.frame = f
      /\ \A x, y \in S : x.roll = y.roll => x = y
  BY DEF Told, InFrame
<1>2. \A i \in 1..Len(d) : q[i] \in S /\ q[i].roll = i /\ q[i].pins = d[i] /\ q[i].frame = f
  <2> SUFFICES ASSUME NEW i \in 1..Len(d)
               PROVE  q[i] \in S /\ q[i].roll = i /\ q[i].pins = d[i] /\ q[i].frame = f
    OBVIOUS
  <2>1. \E x \in S : x.roll = i
    BY <1>1
  <2>2. q[i] = CHOOSE x \in S : x.roll = i
    OBVIOUS
  <2> HIDE DEF q, S
  <2>3. q[i] \in S /\ q[i].roll = i
    BY <2>1, <2>2
  <2> QED
    BY <1>1, <2>3
<1>3. q \in Seq(S) /\ Len(q) = Len(d)
  <2>1. q \in [1..Len(d) -> S]
    BY <1>2
  <2> HIDE DEF q, S
  <2> QED
    BY <1>1, <2>1
<1>4. ASSUME NEW x \in S
      PROVE  \E i \in 1..Len(q) : x = q[i]
  <2>1. x.roll \in 1..Len(d)
    BY <1>1
  <2>2. q[x.roll] \in S /\ q[x.roll].roll = x.roll
    BY <1>2, <2>1
  <2> HIDE DEF q
  <2> QED
    BY <1>1, <1>3, <2>1, <2>2
<1>5. ASSUME NEW i \in 1..Len(q), NEW j \in 1..Len(q), i < j
      PROVE  Later(q[i], q[j])
  <2>1. q[i].roll = i /\ q[j].roll = j /\ q[i].frame = f /\ q[j].frame = f
    BY <1>2, <1>3
  <2> HIDE DEF q
  <2> QED
    BY <1>5, <2>1 DEF Later
<1> HIDE DEF q
<1>6. Runs(q, S)
  BY <1>3, <1>4, <1>5 DEF Runs
<1> QED
  BY <1>2, <1>3, <1>6
\* s tells the pins of the balls q.
Pinfalls(s, q) ==
  s \in Seq(0..Pins) /\ Len(s) = Len(q) /\ \A i \in 1..Len(q) : s[i] = q[i].pins

LEMMA PinfallsOn ==
  ASSUME NEW S, NEW q \in Seq(S), NEW T, NEW r \in Seq(T), NEW s, Pinfalls(s, q),
         NEW t, Pinfalls(t, r)
  PROVE  Pinfalls(s \o t, q \o r)
<1> DEFINE n == Len(q)
           U == S \cup T
<1>1. q \in Seq(U) /\ r \in Seq(U) /\ n \in Nat /\ Len(r) \in Nat
  BY ElementsOf, InSeq
<1> HIDE DEF U
<1>2. /\ Len(q \o r) = n + Len(r)
      /\ \A i \in 1..(n + Len(r)) : (q \o r)[i] = IF i <= n THEN q[i] ELSE r[i - n]
  BY <1>1
<1>3. s \in Seq(0..Pins) /\ t \in Seq(0..Pins) /\ Len(s) = n /\ Len(t) = Len(r)
  BY DEF Pinfalls
<1>4. /\ s \o t \in Seq(0..Pins) /\ Len(s \o t) = n + Len(r)
      /\ \A i \in 1..(n + Len(r)) : (s \o t)[i] = IF i <= n THEN s[i] ELSE t[i - n]
  BY <1>1, <1>3
<1>5. ASSUME NEW i \in 1..Len(q \o r)
      PROVE  (s \o t)[i] = (q \o r)[i].pins
  <2>1. CASE i <= n
    <3>1. i \in 1..n /\ (q \o r)[i] = q[i] /\ (s \o t)[i] = s[i]
      BY <1>1, <1>2, <1>4, <2>1
    <3> QED
      BY <3>1 DEF Pinfalls
  <2>2. CASE ~(i <= n)
    <3>1. i - n \in 1..Len(r) /\ (q \o r)[i] = r[i - n] /\ (s \o t)[i] = t[i - n]
      BY <1>1, <1>2, <1>4, <2>2
    <3> QED
      BY <3>1 DEF Pinfalls
  <2> QED
    BY <2>1, <2>2
<1> QED
  BY <1>2, <1>4, <1>5 DEF Pinfalls

\* The balls from frame f on, as deriveGame concatenates them.
Stream(facts, f) == FlattenSeq([i \in 1..(FrameCount - f + 1) |-> Lines(facts)[f + i - 1]])

From(facts, f) == {x \in facts : f <= x.frame}

LEMMA StreamRuns ==
  ASSUME NEW facts, \A x \in facts : x.frame \in Frames,
         \A e \in Frames : Told(facts, e, Deliveries(facts, e)), NEW f \in Frames
  PROVE  \E q : Runs(q, From(facts, f)) /\ Pinfalls(Stream(facts, f), q)
<1> DEFINE n == FrameCount - f + 1
           L == [i \in 1..n |-> Lines(facts)[f + i - 1]]
           upTo(k) == {x \in facts : f <= x.frame /\ x.frame < f + k}
<1>1. n \in Nat \ {0} /\ f \in Nat /\ \A i \in 1..n : f + i - 1 \in Frames
  BY ScoringAssumption DEF Frames
<1>2. \A i \in 1..n : L[i] = Deliveries(facts, f + i - 1)
  BY <1>1, LinesAre
<1>3. Len(L) = n
  <2>1. L = [i \in 1..n |-> L[i]]
    OBVIOUS
  <2> HIDE DEF L, n
  <2>2. L \in Seq({L[i] : i \in 1..n})
    BY <1>1, <2>1
  <2> QED
    BY <1>1, <2>1, <2>2
<1>4. PICK F : Flattening(L, n, F) /\ FlattenSeq(L) = F[n]
  <2> HIDE DEF L, n
  <2> QED
    BY <1>1, <1>3, FlattenIs
<1>5. \A k \in 1..n : F[k] = IF k = 1 THEN L[1] ELSE F[k - 1] \o L[k]
  <2> HIDE DEF L, n
  <2> QED
    BY <1>4 DEF Flattening
<1> DEFINE ok(k) == \E q : Runs(q, upTo(k)) /\ Pinfalls(F[k], q)
           U == {k \in Nat : k = 0 \/ ok(k)}
<1>6. ASSUME NEW k \in 1..n
      PROVE  \E r : Runs(r, InFrame(facts, f + k - 1)) /\ Pinfalls(L[k], r)
  <2> DEFINE e == f + k - 1
             d == Deliveries(facts, e)
  <2>1. e \in Frames /\ e \in Nat /\ L[k] = d
    BY <1>1, <1>2 DEF Frames
  <2>2. Told(facts, e, d)
    BY <2>1
  <2> HIDE DEF e, d
  <2>3. PICK r : /\ Runs(r, InFrame(facts, e)) /\ Len(r) = Len(d)
                 /\ \A i \in 1..Len(d) : r[i].pins = d[i] /\ r[i].roll = i
    BY <2>1, <2>2, FrameRuns
  <2>4. Pinfalls(d, r)
    BY <2>2, <2>3 DEF Pinfalls, Told
  <2> QED
    BY <2>1, <2>3, <2>4 DEF e
<1>7. ASSUME NEW k \in 0..(n - 1), k \in U
      PROVE  k + 1 \in U
  <2>1. k + 1 \in 1..n /\ f + (k + 1) - 1 = f + k
    BY <1>1
  <2>2. PICK r : Runs(r, InFrame(facts, f + k)) /\ Pinfalls(L[k + 1], r)
    BY <1>6, <2>1
  <2>3. upTo(k + 1) = upTo(k) \cup InFrame(facts, f + k)
    BY <1>1 DEF InFrame, Frames
  <2>4. CASE k = 0
    <3>1. upTo(k) = {}
      BY <1>1, <2>4 DEF Frames
    <3>2. F[k + 1] = L[k + 1]
      BY <1>5, <2>1, <2>4
    <3>3. Runs(r, upTo(k + 1)) /\ Pinfalls(F[k + 1], r)
      <4> HIDE DEF upTo, L
      <4> QED
        BY <2>2, <2>3, <3>1, <3>2
    <3> QED
      BY <3>3
  <2>5. CASE k # 0
    <3>1. PICK q : Runs(q, upTo(k)) /\ Pinfalls(F[k], q)
      BY <1>7, <2>5
    <3>2. F[k + 1] = F[k] \o L[k + 1]
      <4>1. (k + 1) - 1 = k /\ k + 1 # 1
        BY <2>5
      <4> HIDE DEF L
      <4> QED
        BY <1>5, <2>1, <4>1
    <3>3. \A x \in upTo(k), y \in InFrame(facts, f + k) : Later(x, y)
      BY <1>1 DEF InFrame, Later, Frames
    <3> HIDE DEF upTo, L
    <3>4. Runs(q \o r, upTo(k + 1))
      BY <2>2, <2>3, <3>1, <3>3, RunsOn
    <3>5. q \in Seq(upTo(k)) /\ r \in Seq(InFrame(facts, f + k))
      BY <2>2, <3>1 DEF Runs
    <3>6. Pinfalls(F[k + 1], q \o r)
      BY <2>2, <3>1, <3>2, <3>5, PinfallsOn
    <3> QED
      BY <3>4, <3>6
  <2> QED
    BY <2>4, <2>5
<1>8. n \in U
  <2>1. 0 \in U
    OBVIOUS
  <2> HIDE DEF U, n
  <2>2. 0..n \subseteq U
    BY <1>1, <1>7, <2>1, IntervalSetInduction
  <2> QED
    BY <1>1, <2>2
<1>9. ok(n)
  BY <1>1, <1>8
<1>10. upTo(n) = From(facts, f)
  BY ScoringAssumption DEF Frames, From
<1> HIDE DEF upTo
<1> QED
  BY <1>4, <1>9, <1>10 DEF Stream
\* The balls that a mark draws are the next ones in the order they were bowled.
OneDrawn(facts, x, y) == Draws(facts, x, 1) = {y}
TwoDrawn(facts, x, y, z) == Draws(facts, x, 2) = {y, z} /\ y # z

LEMMA DrawsNext ==
  ASSUME NEW facts, IsFiniteSet(facts), \A x \in facts : x.frame \in Nat /\ x.roll \in Nat,
         NEW f \in Nat, NEW q, Runs(q, From(facts, f))
  PROVE  /\ \A i, j \in 1..Len(q) : j = i + 1 => OneDrawn(facts, q[i], q[j])
         /\ \A i, j, k \in 1..Len(q) : j = i + 1 /\ k = i + 2 => TwoDrawn(facts, q[i], q[j], q[k])
<1> SUFFICES ASSUME NEW k \in 1..Len(q)
             PROVE  /\ k + 1 \in 1..Len(q) => OneDrawn(facts, q[k], q[k + 1])
                    /\ k + 2 \in 1..Len(q) => TwoDrawn(facts, q[k], q[k + 1], q[k + 2])
  OBVIOUS
<1> DEFINE S == From(facts, f)
           x == q[k]
           between(y) == {z \in facts : Later(x, z) /\ Later(z, y)}
<1>1. /\ Len(q) \in Nat /\ \A i \in 1..Len(q) : q[i] \in facts /\ f <= q[i].frame
      /\ \A y \in S : \E i \in 1..Len(q) : y = q[i]
      /\ \A i, j \in 1..Len(q) : i < j => Later(q[i], q[j])
  <2>1. /\ q \in Seq(S) /\ \A y \in S : \E i \in 1..Len(q) : y = q[i]
        /\ \A i, j \in 1..Len(q) : i < j => Later(q[i], q[j])
    BY DEF Runs
  <2> HIDE DEF S
  <2>2. Len(q) \in Nat /\ \A i \in 1..Len(q) : q[i] \in S
    BY <2>1, ElementsOf
  <2>3. \A i \in 1..Len(q) : q[i] \in facts /\ f <= q[i].frame
    BY <2>2 DEF S, From
  <2> QED
    BY <2>1, <2>2, <2>3
<1>2. \A y, z \in facts : Later(y, z) => ~Later(z, y) /\ y # z
  BY DEF Later
<1>3. \A i, j \in 1..Len(q) : Later(q[i], q[j]) <=> i < j
  BY <1>1, <1>2
<1>4. \A y \in facts : Later(x, y) => \E i \in 1..Len(q) : y = q[i] /\ k < i
  <2> SUFFICES ASSUME NEW y \in facts, Later(x, y)
               PROVE  \E i \in 1..Len(q) : y = q[i] /\ k < i
    OBVIOUS
  <2>1. x \in facts /\ f <= x.frame
    BY <1>1
  <2>2. y \in S
    BY <2>1 DEF Later, From
  <2>3. PICK i \in 1..Len(q) : y = q[i]
    BY <1>1, <2>2
  <2> QED
    BY <1>3, <2>3
<1>5. \A y : IsFiniteSet(between(y)) /\ Cardinality(between(y)) \in Nat
  <2> TAKE y
  <2>1. IsFiniteSet(between(y))
    BY FS_Subset
  <2> QED
    BY <2>1, FS_CardinalityType
<1>6. k + 1 \in 1..Len(q) => between(q[k + 1]) = {}
  <2> SUFFICES ASSUME k + 1 \in 1..Len(q), NEW z \in facts, Later(x, z), Later(z, q[k + 1])
               PROVE  FALSE
    OBVIOUS
  <2>1. PICK i \in 1..Len(q) : z = q[i] /\ k < i
    BY <1>4
  <2>2. i < k + 1
    BY <1>3, <2>1
  <2> QED
    BY <2>1, <2>2
<1>7. \A i \in 1..Len(q) : k + 1 < i => q[k + 1] \in between(q[i]) /\ k + 1 \in 1..Len(q)
  BY <1>1, <1>3
<1>8. \A i \in 1..Len(q) : k + 2 < i => /\ q[k + 1] \in between(q[i]) /\ q[k + 2] \in between(q[i])
                                        /\ k + 1 \in 1..Len(q) /\ k + 2 \in 1..Len(q)
  BY <1>1, <1>3
<1>9. k + 2 \in 1..Len(q) => between(q[k + 2]) = {q[k + 1]}
  <2> SUFFICES ASSUME k + 2 \in 1..Len(q)
               PROVE  between(q[k + 2]) = {q[k + 1]}
    OBVIOUS
  <2>1. ASSUME NEW z \in between(q[k + 2])
        PROVE  z = q[k + 1]
    <3>1. PICK i \in 1..Len(q) : z = q[i] /\ k < i
      BY <1>4, <2>1
    <3>2. i < k + 2
      BY <1>3, <2>1, <3>1
    <3>3. i = k + 1
      BY <3>1, <3>2
    <3> QED
      BY <3>1, <3>3
  <2>2. q[k + 1] \in between(q[k + 2])
    BY <1>7
  <2> QED
    BY <2>1, <2>2
<1>10. \A y \in facts : Draws(facts, x, 1) = {z \in facts : Later(x, z) /\ Cardinality(between(z)) < 1}
  BY DEF Draws
<1>11. Draws(facts, x, 2) = {z \in facts : Later(x, z) /\ Cardinality(between(z)) < 2}
  BY DEF Draws
<1> HIDE DEF between, S
<1>12. k + 1 \in 1..Len(q) => q[k + 1] \in facts /\ Later(x, q[k + 1])
                              /\ Cardinality(between(q[k + 1])) = 0
  <2> SUFFICES ASSUME k + 1 \in 1..Len(q)
               PROVE  /\ q[k + 1] \in facts /\ Later(x, q[k + 1])
                      /\ Cardinality(between(q[k + 1])) = 0
    OBVIOUS
  <2>1. q[k + 1] \in facts /\ Later(x, q[k + 1])
    BY <1>1
  <2>2. between(q[k + 1]) = {}
    BY <1>6
  <2> QED
    BY <2>1, <2>2, FS_EmptySet
<1>13. k + 2 \in 1..Len(q) => q[k + 2] \in facts /\ Later(x, q[k + 2])
                              /\ Cardinality(between(q[k + 2])) = 1
  <2> SUFFICES ASSUME k + 2 \in 1..Len(q)
               PROVE  /\ q[k + 2] \in facts /\ Later(x, q[k + 2])
                      /\ Cardinality(between(q[k + 2])) = 1
    OBVIOUS
  <2>1. q[k + 2] \in facts /\ Later(x, q[k + 2])
    BY <1>1
  <2>2. between(q[k + 2]) = {q[k + 1]}
    BY <1>9
  <2> QED
    BY <2>1, <2>2, FS_Singleton
<1>14. \A i \in 1..Len(q) : k + 1 < i => ~(Cardinality(between(q[i])) < 1)
  BY <1>5, <1>7, FS_EmptySet
<1>15. \A i \in 1..Len(q) : k + 2 < i => ~(Cardinality(between(q[i])) < 2)
  <2> SUFFICES ASSUME NEW i \in 1..Len(q), k + 2 < i, Cardinality(between(q[i])) < 2
               PROVE  FALSE
    OBVIOUS
  <2>1. q[k + 1] \in between(q[i]) /\ q[k + 2] \in between(q[i])
    BY <1>8
  <2>2. Cardinality(between(q[i])) = 1
    BY <1>5, <2>1, FS_EmptySet
  <2>3. PICK b : between(q[i]) = {b}
    BY <1>5, <2>2, FS_Singleton
  <2>4. q[k + 1] = q[k + 2]
    BY <2>1, <2>3
  <2>5. Later(q[k + 1], q[k + 2])
    BY <1>1, <1>8
  <2> QED
    BY <1>1, <1>2, <1>8, <2>4, <2>5
<1>16. ASSUME k + 1 \in 1..Len(q)
       PROVE  Draws(facts, x, 1) = {q[k + 1]}
  <2>1. Draws(facts, x, 1) = {z \in facts : Later(x, z) /\ Cardinality(between(z)) < 1}
    BY <1>1, <1>10
  <2>2. \A z \in facts : Later(x, z) /\ Cardinality(between(z)) < 1 => z = q[k + 1]
    <3> SUFFICES ASSUME NEW z \in facts, Later(x, z), Cardinality(between(z)) < 1
                 PROVE  z = q[k + 1]
      OBVIOUS
    <3>1. PICK i \in 1..Len(q) : z = q[i] /\ k < i
      BY <1>4
    <3>2. ~(k + 1 < i)
      BY <1>14, <3>1
    <3>3. i = k + 1
      BY <3>1, <3>2
    <3> QED
      BY <3>1, <3>3
  <2> QED
    BY <1>12, <1>16, <2>1, <2>2
<1>17. ASSUME k + 2 \in 1..Len(q)
       PROVE  Draws(facts, x, 2) = {q[k + 1], q[k + 2]} /\ q[k + 1] # q[k + 2]
  <2>0. k + 1 \in 1..Len(q)
    BY <1>1, <1>17
  <2>1. \A z \in facts : Later(x, z) /\ Cardinality(between(z)) < 2 => z \in {q[k + 1], q[k + 2]}
    <3> SUFFICES ASSUME NEW z \in facts, Later(x, z), Cardinality(between(z)) < 2
                 PROVE  z \in {q[k + 1], q[k + 2]}
      OBVIOUS
    <3>1. PICK i \in 1..Len(q) : z = q[i] /\ k < i
      BY <1>4
    <3>2. ~(k + 2 < i)
      BY <1>15, <3>1
    <3>3. i = k + 1 \/ i = k + 2
      BY <3>1, <3>2
    <3> QED
      BY <3>1, <3>3
  <2>2. Draws(facts, x, 2) = {q[k + 1], q[k + 2]}
    BY <1>11, <1>12, <1>13, <1>17, <2>0, <2>1
  <2>3. q[k + 1] # q[k + 2]
    BY <1>1, <1>2, <1>17, <2>0
  <2> QED
    BY <2>2, <2>3
<1> QED
  BY <1>16, <1>17 DEF OneDrawn, TwoDrawn

\* The three sums of ScoreByTheRules.
UpTo(S, f) == {x \in S : x.frame <= f}
DrawSum(facts, n, S) == LET drawn(x) == PinsOf(Draws(facts, x, n)) IN Sum(S, drawn)
PinsMap(T) == [x \in T |-> x.pins]
DrawMap(facts, n) == [x \in facts |-> PinsOf(Draws(facts, x, n))]

LEMMA PinsOfIs ==
  ASSUME NEW T, NEW S \in SUBSET T, IsFiniteSet(S), \A x \in S : x.pins \in Int
  PROVE  PinsOf(S) = SumOf(S, PinsMap(T)) /\ PinsOf(S) \in Int
<1> DEFINE u(x) == x.pins
           v == [x \in S |-> x.pins]
<1>1. \A s \in SUBSET S : s # {} => (CHOOSE x \in s : TRUE) \in S
  OBVIOUS
<1>2. PICK h : Totaling(v, S, h)
  BY TotalExists
<1>3. h = [s \in SUBSET S |->
             IF s = {} THEN 0
             ELSE u(CHOOSE x \in s : TRUE) + h[s \ {CHOOSE x \in s : TRUE}]]
  BY <1>1, <1>2, Zenon DEF Totaling
<1>4. PICK g : /\ g = [s \in SUBSET S |->
                         IF s = {} THEN 0
                         ELSE u(CHOOSE x \in s : TRUE) + g[s \ {CHOOSE x \in s : TRUE}]]
               /\ PinsOf(S) = g[S]
  BY <1>3 DEF PinsOf, Sum, MapThenSumSet, MapThenFoldSet
<1>5. Totaling(v, S, g)
  BY <1>1, <1>4, Zenon DEF Totaling
<1>6. PICK k : Totaling(PinsMap(T), S, k) /\ SumOf(S, PinsMap(T)) = k[S]
  BY SumOfIs
<1>7. \A x \in S : v[x] \in Int /\ PinsMap(T)[x] = v[x]
  BY DEF PinsMap
<1> HIDE DEF v
<1>8. g[S] \in Int /\ k[S] = g[S]
  BY <1>5, <1>6, <1>7, EqualTotals
<1> QED
  BY <1>4, <1>6, <1>8

LEMMA DrawSumIs ==
  ASSUME NEW facts, NEW n, NEW S \in SUBSET facts, IsFiniteSet(S),
         \A x \in S : DrawMap(facts, n)[x] \in Int
  PROVE  DrawSum(facts, n, S) = SumOf(S, DrawMap(facts, n))
<1> DEFINE u(x) == PinsOf(Draws(facts, x, n))
           v == [x \in S |-> PinsOf(Draws(facts, x, n))]
<1>1. \A s \in SUBSET S : s # {} => (CHOOSE x \in s : TRUE) \in S
  OBVIOUS
<1>2. PICK h : Totaling(v, S, h)
  BY TotalExists
<1>3. h = [s \in SUBSET S |->
             IF s = {} THEN 0
             ELSE u(CHOOSE x \in s : TRUE) + h[s \ {CHOOSE x \in s : TRUE}]]
  BY <1>1, <1>2, Zenon DEF Totaling
<1>4. PICK g : /\ g = [s \in SUBSET S |->
                         IF s = {} THEN 0
                         ELSE u(CHOOSE x \in s : TRUE) + g[s \ {CHOOSE x \in s : TRUE}]]
               /\ DrawSum(facts, n, S) = g[S]
  BY <1>3 DEF DrawSum, Sum, MapThenSumSet, MapThenFoldSet
<1>5. Totaling(v, S, g)
  BY <1>1, <1>4, Zenon DEF Totaling
<1>6. PICK k : Totaling(DrawMap(facts, n), S, k) /\ SumOf(S, DrawMap(facts, n)) = k[S]
  BY SumOfIs
<1>7. \A x \in S : v[x] \in Int /\ DrawMap(facts, n)[x] = v[x]
  BY DEF DrawMap
<1> HIDE DEF v
<1>8. g[S] \in Int /\ k[S] = g[S]
  BY <1>5, <1>6, <1>7, EqualTotals
<1> QED
  BY <1>4, <1>6, <1>8

LEMMA ScoreIsThreeSums ==
  ASSUME NEW facts, NEW f
  PROVE  ScoreByTheRules(facts, f) =
           PinsOf(UpTo(facts, f)) + DrawSum(facts, 2, UpTo(Strikes(facts), f))
             + DrawSum(facts, 1, UpTo(Spares(facts), f))
BY DEF ScoreByTheRules, UpTo, DrawSum
\* What frame f adds to the score by the rules.
FrameByTheRules(facts, f) ==
  SumOf(InFrame(facts, f), PinsMap(facts))
    + SumOf(InFrame(Strikes(facts), f), DrawMap(facts, 2))
    + SumOf(InFrame(Spares(facts), f), DrawMap(facts, 1))

LEMMA UpToStep ==
  ASSUME NEW S, IsFiniteSet(S), \A x \in S : x.frame \in Nat, NEW f \in Nat \ {0},
         NEW v, \A x \in S : v[x] \in Int
  PROVE  /\ SumOf(UpTo(S, f), v) = SumOf(UpTo(S, f - 1), v) + SumOf(InFrame(S, f), v)
         /\ SumOf(UpTo(S, f - 1), v) \in Int /\ SumOf(InFrame(S, f), v) \in Int
<1> DEFINE A == UpTo(S, f - 1)
           B == InFrame(S, f)
<1>1. /\ UpTo(S, f) = A \cup B /\ A \cap B = {}
      /\ A \in SUBSET S /\ B \in SUBSET S
  BY DEF UpTo, InFrame
<1> HIDE DEF A, B
<1>2. IsFiniteSet(A) /\ IsFiniteSet(B)
  BY <1>1, FS_Subset
<1>3. \A x \in A \cup B : v[x] \in Int
  BY <1>1
<1>4. SumOf(A \cup B, v) = SumOf(A, v) + SumOf(B, v)
  BY <1>1, <1>2, <1>3, SumUnion
<1>5. SumOf(A, v) \in Int /\ SumOf(B, v) \in Int
  BY <1>2, <1>3, SumSame
<1> QED
  BY <1>1, <1>4, <1>5 DEF A, B

LEMMA MapsTyped ==
  ASSUME NEW facts, Balls(facts)
  PROVE  /\ \A x \in facts : PinsMap(facts)[x] = x.pins /\ PinsMap(facts)[x] \in Nat
         /\ \A n : \A x \in facts : /\ DrawMap(facts, n)[x] = PinsOf(Draws(facts, x, n))
                                    /\ DrawMap(facts, n)[x] \in Int
         /\ Strikes(facts) \in SUBSET facts /\ Spares(facts) \in SUBSET facts
         /\ IsFiniteSet(Strikes(facts)) /\ IsFiniteSet(Spares(facts))
<1>1. ASSUME NEW n, NEW x \in facts
      PROVE  DrawMap(facts, n)[x] = PinsOf(Draws(facts, x, n)) /\ DrawMap(facts, n)[x] \in Int
  <2> DEFINE D == Draws(facts, x, n)
  <2>1. D \in SUBSET facts
    BY DEF Draws
  <2> HIDE DEF D
  <2>2. IsFiniteSet(D) /\ \A y \in D : y.pins \in Int
    BY <2>1, FS_Subset DEF Balls
  <2>3. PinsOf(D) \in Int
    BY <2>1, <2>2, PinsOfIs
  <2> QED
    BY <2>3 DEF DrawMap, D
<1>2. Strikes(facts) \in SUBSET facts /\ Spares(facts) \in SUBSET facts
  BY DEF Strikes, Spares
<1>3. IsFiniteSet(Strikes(facts)) /\ IsFiniteSet(Spares(facts))
  BY <1>2, FS_Subset DEF Balls
<1> QED
  BY <1>1, <1>2, <1>3 DEF PinsMap, Balls

LEMMA RulesAre ==
  ASSUME NEW facts, Balls(facts), NEW f
  PROVE  ScoreByTheRules(facts, f) =
           SumOf(UpTo(facts, f), PinsMap(facts)) + SumOf(UpTo(Strikes(facts), f), DrawMap(facts, 2))
             + SumOf(UpTo(Spares(facts), f), DrawMap(facts, 1))
<1>1. /\ UpTo(facts, f) \in SUBSET facts /\ UpTo(Strikes(facts), f) \in SUBSET facts
      /\ UpTo(Spares(facts), f) \in SUBSET facts
  BY MapsTyped DEF UpTo
<1>2. /\ IsFiniteSet(UpTo(facts, f)) /\ IsFiniteSet(UpTo(Strikes(facts), f))
      /\ IsFiniteSet(UpTo(Spares(facts), f))
  BY <1>1, FS_Subset DEF Balls
<1>3. \A x \in UpTo(facts, f) : x.pins \in Int
  BY <1>1 DEF Balls
<1>4. PinsOf(UpTo(facts, f)) = SumOf(UpTo(facts, f), PinsMap(facts))
  BY <1>1, <1>2, <1>3, PinsOfIs
<1>5. DrawSum(facts, 2, UpTo(Strikes(facts), f)) = SumOf(UpTo(Strikes(facts), f), DrawMap(facts, 2))
  BY <1>1, <1>2, MapsTyped, DrawSumIs
<1>6. DrawSum(facts, 1, UpTo(Spares(facts), f)) = SumOf(UpTo(Spares(facts), f), DrawMap(facts, 1))
  BY <1>1, <1>2, MapsTyped, DrawSumIs
<1> QED
  BY <1>4, <1>5, <1>6, ScoreIsThreeSums

LEMMA RulesGrow ==
  ASSUME NEW facts, Balls(facts), \A x \in facts : x.frame \in Frames
  PROVE  /\ ScoreByTheRules(facts, 0) = 0
         /\ \A f \in Frames :
              /\ ScoreByTheRules(facts, f) = ScoreByTheRules(facts, f - 1) + FrameByTheRules(facts, f)
              /\ ScoreByTheRules(facts, f - 1) \in Int /\ FrameByTheRules(facts, f) \in Int
<1>1. ScoreByTheRules(facts, 0) = 0
  <2>1. UpTo(facts, 0) = {} /\ UpTo(Strikes(facts), 0) = {} /\ UpTo(Spares(facts), 0) = {}
    <3>1. \A x \in facts : ~(x.frame <= 0)
      BY DEF Frames
    <3> QED
      BY <3>1, MapsTyped DEF UpTo
  <2> QED
    BY <2>1, RulesAre, SumNone
<1>2. ASSUME NEW f \in Frames
      PROVE  /\ ScoreByTheRules(facts, f) = ScoreByTheRules(facts, f - 1) + FrameByTheRules(facts, f)
             /\ ScoreByTheRules(facts, f - 1) \in Int /\ FrameByTheRules(facts, f) \in Int
  <2>1. f \in Nat \ {0} /\ IsFiniteSet(facts) /\ \A x \in facts : x.frame \in Nat
    BY DEF Frames, Balls
  <2> DEFINE a(e) == SumOf(UpTo(facts, e), PinsMap(facts))
             b(e) == SumOf(UpTo(Strikes(facts), e), DrawMap(facts, 2))
             c(e) == SumOf(UpTo(Spares(facts), e), DrawMap(facts, 1))
             p == SumOf(InFrame(facts, f), PinsMap(facts))
             q == SumOf(InFrame(Strikes(facts), f), DrawMap(facts, 2))
             r == SumOf(InFrame(Spares(facts), f), DrawMap(facts, 1))
  <2>2. a(f) = a(f - 1) + p /\ a(f - 1) \in Int /\ p \in Int
    <3>1. \A x \in facts : PinsMap(facts)[x] \in Int
      BY MapsTyped
    <3> QED
      BY <2>1, <3>1, UpToStep
  <2>3. b(f) = b(f - 1) + q /\ b(f - 1) \in Int /\ q \in Int
    <3> DEFINE S == Strikes(facts)
    <3>1. /\ IsFiniteSet(S) /\ \A x \in S : x.frame \in Nat
          /\ \A x \in S : DrawMap(facts, 2)[x] \in Int
      BY <2>1, MapsTyped
    <3> HIDE DEF S
    <3>2. SumOf(UpTo(S, f), DrawMap(facts, 2))
            = SumOf(UpTo(S, f - 1), DrawMap(facts, 2)) + SumOf(InFrame(S, f), DrawMap(facts, 2))
      BY <2>1, <3>1, UpToStep
    <3>3. /\ SumOf(UpTo(S, f - 1), DrawMap(facts, 2)) \in Int
          /\ SumOf(InFrame(S, f), DrawMap(facts, 2)) \in Int
      BY <2>1, <3>1, UpToStep
    <3> QED
      BY <3>2, <3>3 DEF S
  <2>4. c(f) = c(f - 1) + r /\ c(f - 1) \in Int /\ r \in Int
    <3> DEFINE S == Spares(facts)
    <3>1. /\ IsFiniteSet(S) /\ \A x \in S : x.frame \in Nat
          /\ \A x \in S : DrawMap(facts, 1)[x] \in Int
      BY <2>1, MapsTyped
    <3> HIDE DEF S
    <3>2. SumOf(UpTo(S, f), DrawMap(facts, 1))
            = SumOf(UpTo(S, f - 1), DrawMap(facts, 1)) + SumOf(InFrame(S, f), DrawMap(facts, 1))
      BY <2>1, <3>1, UpToStep
    <3>3. /\ SumOf(UpTo(S, f - 1), DrawMap(facts, 1)) \in Int
          /\ SumOf(InFrame(S, f), DrawMap(facts, 1)) \in Int
      BY <2>1, <3>1, UpToStep
    <3> QED
      BY <3>2, <3>3 DEF S
  <2>5. /\ ScoreByTheRules(facts, f) = a(f) + b(f) + c(f)
        /\ ScoreByTheRules(facts, f - 1) = a(f - 1) + b(f - 1) + c(f - 1)
    BY RulesAre
  <2>6. FrameByTheRules(facts, f) = p + q + r
    BY DEF FrameByTheRules
  <2> HIDE DEF a, b, c, p, q, r
  <2> QED
    BY <2>2, <2>3, <2>4, <2>5, <2>6
<1> QED
  BY <1>1, <1>2
\* The pins of a frame are those its deliveries tell.
LEMMA FramePins ==
  ASSUME NEW facts, Balls(facts), NEW f \in Nat, NEW d, Told(facts, f, d)
  PROVE  /\ Len(d) = 1 => SumOf(InFrame(facts, f), PinsMap(facts)) = d[1]
         /\ Len(d) = 2 => SumOf(InFrame(facts, f), PinsMap(facts)) = d[1] + d[2]
         /\ Len(d) = 3 => SumOf(InFrame(facts, f), PinsMap(facts)) = d[1] + d[2] + d[3]
<1> DEFINE S == InFrame(facts, f)
           v == PinsMap(facts)
<1>1. PICK q : /\ Runs(q, S) /\ Len(q) = Len(d)
               /\ \A i \in 1..Len(d) : q[i].pins = d[i] /\ q[i].roll = i
  BY FrameRuns
<1>2. S \in SUBSET facts
  BY DEF InFrame
<1> HIDE DEF S, v
<1>3. /\ \A i \in 1..Len(d) : q[i] \in S
      /\ \A x \in S : \E i \in 1..Len(d) : x = q[i]
  BY <1>1, ElementsOf DEF Runs
<1>4. \A i \in 1..Len(d) : q[i] \in S /\ v[q[i]] = d[i] /\ d[i] \in Int
  BY <1>1, <1>2, <1>3, MapsTyped DEF v
<1>5. ASSUME Len(d) = 1
      PROVE  SumOf(S, v) = d[1]
  <2>1. S = {q[1]}
    BY <1>3, <1>5
  <2> QED
    BY <1>4, <1>5, <2>1, SumOne
<1>6. ASSUME Len(d) \in {2, 3}
      PROVE  SumOf({q[1], q[2]}, v) = d[1] + d[2] /\ q[1] # q[2]
  <2>1. /\ 1 \in 1..Len(d) /\ 2 \in 1..Len(d)
    BY <1>6
  <2>2. q[1] # q[2] /\ v[q[1]] = d[1] /\ v[q[2]] = d[2] /\ d[1] \in Int /\ d[2] \in Int
    <3>1. q[1].roll = 1 /\ q[2].roll = 2
      BY <1>1, <2>1
    <3> QED
      BY <1>4, <2>1, <3>1
  <2>3. SumOf({q[1]}, v) = d[1]
    BY <2>2, SumOne
  <2>4. IsFiniteSet({q[1]}) /\ q[2] \notin {q[1]} /\ \A x \in {q[1]} \cup {q[2]} : v[x] \in Int
    BY <2>2, FS_Singleton
  <2>5. SumOf({q[1]} \cup {q[2]}, v) = SumOf({q[1]}, v) + v[q[2]]
    BY <2>4, SumAdd
  <2>6. {q[1]} \cup {q[2]} = {q[1], q[2]}
    OBVIOUS
  <2> QED
    BY <2>2, <2>3, <2>5, <2>6
<1>7. ASSUME Len(d) = 2
      PROVE  SumOf(S, v) = d[1] + d[2]
  <2>1. S = {q[1], q[2]}
    BY <1>3, <1>7
  <2> QED
    BY <1>6, <1>7, <2>1
<1>8. ASSUME Len(d) = 3
      PROVE  SumOf(S, v) = d[1] + d[2] + d[3]
  <2>1. S = {q[1], q[2]} \cup {q[3]}
    BY <1>3, <1>8
  <2>2. q[3] \notin {q[1], q[2]}
    <3>1. q[1].roll = 1 /\ q[2].roll = 2 /\ q[3].roll = 3
      BY <1>1, <1>8
    <3> QED
      BY <3>1
  <2>3. /\ v[q[1]] = d[1] /\ v[q[2]] = d[2] /\ v[q[3]] = d[3]
        /\ d[1] \in Int /\ d[2] \in Int /\ d[3] \in Int
    BY <1>4, <1>8
  <2>4. IsFiniteSet({q[1], q[2]}) /\ \A x \in {q[1], q[2]} \cup {q[3]} : v[x] \in Int
    <3>1. IsFiniteSet({q[1]} \cup {q[2]})
      BY FS_Singleton, FS_AddElement
    <3>2. {q[1]} \cup {q[2]} = {q[1], q[2]}
      OBVIOUS
    <3> QED
      BY <2>3, <3>1, <3>2
  <2>5. SumOf({q[1], q[2]} \cup {q[3]}, v) = SumOf({q[1], q[2]}, v) + v[q[3]]
    BY <2>2, <2>4, SumAdd
  <2> QED
    BY <1>6, <1>8, <2>1, <2>3, <2>5
<1> QED
  BY <1>5, <1>7, <1>8 DEF S, v

\* The balls that deriveGame gives a frame for its bonus are those the rules
\* give to its mark.
LEMMA NextBalls ==
  ASSUME NEW facts, Balls(facts), \A x \in facts : x.frame \in Frames,
         \A e \in Frames : Told(facts, e, Deliveries(facts, e)),
         NEW f \in Frames, NEW n, n = After(facts, f), Len(n) >= 2,
         NEW x \in InFrame(facts, f)
  PROVE  /\ n[1] \in Nat /\ n[2] \in Nat
         /\ x.roll = 1 => PinsOf(Draws(facts, x, 2)) = n[1] + n[2]
         /\ x.roll = 2 => PinsOf(Draws(facts, x, 1)) = n[2]
<1> DEFINE S == From(facts, f)
           s == Stream(facts, f)
<1>1. PICK q : Runs(q, S) /\ Pinfalls(s, q)
  BY StreamRuns
<1>2. n = IF s = <<>> THEN <<>> ELSE Tail(s)
  BY DEF After, Stream
<1>3. f \in Nat /\ x \in facts /\ x.frame = f /\ x \in S
  BY DEF InFrame, Frames, From
<1> HIDE DEF s
<1>4. s \in Seq(0..Pins) /\ Len(s) = Len(q) /\ \A i \in 1..Len(q) : s[i] = q[i].pins
  BY <1>1 DEF Pinfalls
<1>5. /\ Len(q) \in Nat /\ \A i \in 1..Len(q) : q[i] \in S
      /\ \A y \in S : \E i \in 1..Len(q) : y = q[i]
      /\ \A i, j \in 1..Len(q) : i < j => Later(q[i], q[j])
  <2> HIDE DEF S
  <2> QED
    BY <1>1, ElementsOf DEF Runs
<1>6. s # <<>> /\ n = Tail(s)
  <2>1. Len(s) # 0
    BY <1>3, <1>4, <1>5
  <2> QED
    BY <1>2, <1>4, <2>1
<1>7. Len(q) >= 3 /\ n[1] = q[2].pins /\ n[2] = q[3].pins /\ n[1] \in Nat /\ n[2] \in Nat
  <2>1. Len(n) = Len(s) - 1 /\ \A i \in 1..(Len(s) - 1) : n[i] = s[i + 1]
    <3> DEFINE T == 0..Pins
    <3> HIDE DEF T
    <3>1. s \in Seq(T)
      BY <1>4 DEF T
    <3> QED
      BY <1>6, <3>1
  <2>2. Len(s) >= 3 /\ n[1] = s[2] /\ n[2] = s[3]
    BY <1>4, <1>5, <2>1
  <2>3. 2 \in 1..Len(s) /\ 3 \in 1..Len(s)
    BY <1>4, <1>5, <2>2
  <2>4. s[2] = q[2].pins /\ s[3] = q[3].pins
    BY <1>4, <2>3
  <2>5. \A i \in 1..Len(s) : s[i] \in 0..Pins
    BY <1>4, ElementsOf
  <2> QED
    BY <1>4, <2>2, <2>3, <2>4, <2>5, ScoringAssumption
<1>8. \A y \in facts : y.frame \in Nat /\ y.roll \in Nat /\ y.pins \in Nat
  BY DEF Balls
<1>9. IsFiniteSet(facts)
  BY DEF Balls
<1>10. \A y \in InFrame(facts, f) : y.roll = x.roll => y = x
  BY DEF Told
<1>11. x.roll \in {1, 2} => x = q[x.roll]
  <2>1. PICK k \in 1..Len(q) : x = q[k]
    BY <1>3, <1>5
  <2>2. \A i \in 1..(k - 1) : q[i] \in InFrame(facts, f) /\ q[i].roll < x.roll
    <3> SUFFICES ASSUME NEW i \in 1..(k - 1)
                 PROVE  q[i] \in InFrame(facts, f) /\ q[i].roll < x.roll
      OBVIOUS
    <3>1. q[i] \in S /\ Later(q[i], x)
      BY <1>5, <2>1
    <3> QED
      BY <1>3, <1>8, <3>1 DEF Later, InFrame, From
  <2>3. \A i \in 1..(k - 1) : q[i].roll >= 1
    BY <2>2 DEF Told
  <2>4. \A y \in InFrame(facts, f) : y.roll < x.roll => \E i \in 1..(k - 1) : y = q[i]
    <3> SUFFICES ASSUME NEW y \in InFrame(facts, f), y.roll < x.roll
                 PROVE  \E i \in 1..(k - 1) : y = q[i]
      OBVIOUS
    <3>1. PICK i \in 1..Len(q) : y = q[i]
      BY <1>3, <1>5 DEF InFrame, From
    <3>2. ~Later(x, y) /\ y # x
      BY <1>3, <1>8 DEF Later, InFrame
    <3>3. ~(k < i) /\ i # k
      BY <1>5, <2>1, <3>1, <3>2
    <3>4. i \in 1..(k - 1)
      BY <3>3
    <3> QED
      BY <3>1, <3>4
  <2>5. CASE x.roll = 1
    <3>1. k = 1
      <4>1. ASSUME k # 1 PROVE FALSE
        <5>1. 1 \in 1..(k - 1)
          BY <4>1
        <5>2. q[1].roll < 1 /\ q[1].roll >= 1 /\ q[1].roll \in Nat
          BY <1>8, <2>2, <2>3, <2>5, <5>1 DEF InFrame
        <5> QED
          BY <5>2
      <4> QED
        BY <4>1
    <3> QED
      BY <2>1, <2>5, <3>1
  <2>6. CASE x.roll = 2
    <3>1. PICK y \in InFrame(facts, f) : y.roll = 1
      <4>1. {z.roll : z \in InFrame(facts, f)} = 1..Len(Deliveries(facts, f))
        BY DEF Told
      <4>2. Len(Deliveries(facts, f)) \in Nat
        BY DEF Told
      <4>3. 2 \in 1..Len(Deliveries(facts, f))
        BY <2>6, <4>1
      <4>4. 1 \in 1..Len(Deliveries(facts, f))
        BY <4>2, <4>3
      <4> QED
        BY <4>1, <4>4
    <3>2. PICK j \in 1..(k - 1) : y = q[j]
      BY <2>4, <2>6, <3>1
    <3>3. \A i \in 1..(k - 1) : q[i] = y
      <4> SUFFICES ASSUME NEW i \in 1..(k - 1)
                   PROVE  q[i] = y
        OBVIOUS
      <4>1. q[i].roll < 2 /\ q[i].roll >= 1 /\ q[i].roll \in Nat /\ q[i] \in InFrame(facts, f)
        BY <1>8, <2>2, <2>3, <2>6 DEF InFrame
      <4>2. q[i].roll = y.roll
        BY <3>1, <4>1
      <4> QED
        BY <4>1, <4>2 DEF Told
    <3>4. k = 2
      <4>1. ASSUME k # 2 PROVE FALSE
        <5>1. 1 \in 1..(k - 1) /\ 2 \in 1..(k - 1) /\ 1 \in 1..Len(q) /\ 2 \in 1..Len(q)
          BY <1>5, <3>2, <4>1
        <5>2. Later(q[1], q[2]) /\ q[1] = q[2]
          BY <1>5, <3>3, <5>1
        <5> QED
          BY <1>5, <1>8, <5>1, <5>2 DEF Later, From
      <4> QED
        BY <4>1
    <3> QED
      BY <2>1, <2>6, <3>4
  <2> QED
    BY <2>5, <2>6
<1>14. /\ \A i, j \in 1..Len(q) : j = i + 1 => OneDrawn(facts, q[i], q[j])
       /\ \A i, j, k \in 1..Len(q) : j = i + 1 /\ k = i + 2 => TwoDrawn(facts, q[i], q[j], q[k])
  <2>1. \A y \in facts : y.frame \in Nat /\ y.roll \in Nat
    BY <1>8
  <2>2. Runs(q, From(facts, f))
    BY <1>1
  <2> QED
    BY <1>3, <1>9, <2>1, <2>2, DrawsNext
<1>12. ASSUME x.roll = 1
       PROVE  PinsOf(Draws(facts, x, 2)) = n[1] + n[2]
  <2>1. 1 \in 1..Len(q) /\ 2 \in 1..Len(q) /\ 3 \in 1..Len(q)
    BY <1>5, <1>7
  <2>2. TwoDrawn(facts, q[1], q[2], q[3])
    BY <1>14, <2>1
  <2>3. Draws(facts, x, 2) = {q[2]} \cup {q[3]} /\ q[2] # q[3]
    BY <1>11, <1>12, <2>2 DEF TwoDrawn
  <2>4. q[2] \in facts /\ q[3] \in facts
    BY <1>5, <1>7 DEF From
  <2>5. PinsOf({q[2]} \cup {q[3]}) = SumOf({q[2]} \cup {q[3]}, PinsMap(facts))
    <3>1. IsFiniteSet({q[2]} \cup {q[3]})
      BY FS_Singleton, FS_AddElement
    <3>2. {q[2]} \cup {q[3]} \in SUBSET facts /\ \A y \in {q[2]} \cup {q[3]} : y.pins \in Int
      BY <1>8, <2>4
    <3> QED
      BY <3>1, <3>2, PinsOfIs
  <2>6. \A y \in {q[2]} \cup {q[3]} : PinsMap(facts)[y] = y.pins /\ PinsMap(facts)[y] \in Int
    BY <2>4, MapsTyped
  <2>7. SumOf({q[2]} \cup {q[3]}, PinsMap(facts)) = SumOf({q[2]}, PinsMap(facts)) + PinsMap(facts)[q[3]]
    <3>1. IsFiniteSet({q[2]}) /\ q[3] \notin {q[2]}
      BY <2>3, FS_Singleton
    <3>2. \A y \in {q[2]} \cup {q[3]} : PinsMap(facts)[y] \in Int
      BY <2>6
    <3> QED
      BY <3>1, <3>2, SumAdd
  <2>8. SumOf({q[2]}, PinsMap(facts)) = PinsMap(facts)[q[2]]
    BY <2>6, SumOne
  <2> QED
    BY <1>7, <2>3, <2>5, <2>6, <2>7, <2>8
<1>13. ASSUME x.roll = 2
       PROVE  PinsOf(Draws(facts, x, 1)) = n[2]
  <2>1. 2 \in 1..Len(q) /\ 3 \in 1..Len(q)
    BY <1>5, <1>7
  <2>2. OneDrawn(facts, q[2], q[3])
    BY <1>14, <2>1
  <2>3. Draws(facts, x, 1) = {q[3]}
    BY <1>11, <1>13, <2>2 DEF OneDrawn
  <2>4. q[3] \in facts
    BY <1>5, <1>7 DEF From
  <2>5. PinsOf({q[3]}) = SumOf({q[3]}, PinsMap(facts))
    <3>1. IsFiniteSet({q[3]})
      BY FS_Singleton
    <3>2. {q[3]} \in SUBSET facts /\ \A y \in {q[3]} : y.pins \in Int
      BY <1>8, <2>4
    <3> QED
      BY <3>1, <3>2, PinsOfIs
  <2>6. PinsMap(facts)[q[3]] = q[3].pins /\ PinsMap(facts)[q[3]] \in Int
    BY <2>4, MapsTyped
  <2>7. SumOf({q[3]}, PinsMap(facts)) = q[3].pins
    BY <2>6, SumOne
  <2> QED
    BY <1>7, <2>3, <2>5, <2>7
<1> QED
  BY <1>7, <1>12, <1>13
\* The only balls of a frame that draw others are those that made its mark.
LEMMA MarkBalls ==
  ASSUME NEW facts, NEW f \in Frames, NEW d, Line(facts, f, d)
  PROVE  /\ f = FrameCount \/ ~Strike(d) => InFrame(Strikes(facts), f) = {}
         /\ f = FrameCount \/ ~Spare(d) => InFrame(Spares(facts), f) = {}
         /\ f # FrameCount /\ Strike(d) =>
              Len(d) = 1 /\ \E x \in InFrame(facts, f) : x.roll = 1 /\ InFrame(Strikes(facts), f) = {x}
         /\ f # FrameCount /\ Spare(d) =>
              Len(d) = 2 /\ \E x \in InFrame(facts, f) : x.roll = 2 /\ InFrame(Spares(facts), f) = {x}
<1> DEFINE S == InFrame(facts, f)
<1>1. /\ d \in Seq(0..Pins) /\ Len(d) \in 0..3 /\ {x.roll : x \in S} = 1..Len(d)
      /\ \A x \in S : x.pins = d[x.roll] /\ x.frame = f /\ x \in facts
      /\ \A x, y \in S : x.roll = y.roll => x = y
      /\ 1 \in 1..Len(d) => Ball(facts, f, 1) = d[1]
  BY DEF Line, Told, InFrame
<1>2. /\ f # FrameCount => f < FrameCount /\ Len(d) <= 2
      /\ f # FrameCount /\ Len(d) = 2 => d[1] < Pins /\ d[1] + d[2] <= Pins
  BY <1>1, TopologyMeans, ScoringAssumption DEF Line, Frames
<1>3. (Len(d) > 0 => d[1] \in 0..Pins) /\ (Len(d) > 1 => d[2] \in 0..Pins)
  <2>1. \A i \in 1..Len(d) : d[i] \in 0..Pins
    BY <1>1, ElementsOf
  <2> QED
    BY <1>1, <2>1
<1> HIDE DEF S
<1>0. f \in Nat /\ FrameCount \in Nat /\ Pins \in Nat \ {0}
  BY ScoringAssumption DEF Frames
<1>12. PICK n \in 0..3 : n = Len(d)
  BY <1>1
<1>13. (f # FrameCount => n <= 2) /\ (f # FrameCount /\ n = 2 => d[1] < Pins)
  BY <1>2, <1>12
<1>4. \A x : x \in InFrame(Strikes(facts), f) <=>
               x \in S /\ f < FrameCount /\ x.roll = 1 /\ x.pins = Pins
  BY DEF S, InFrame, Strikes
<1>5. \A x : x \in InFrame(Spares(facts), f) <=>
               x \in S /\ f < FrameCount /\ x.roll = 2 /\ Ball(facts, f, 1) + x.pins = Pins
  BY DEF S, InFrame, Spares
<1>6. \A x \in S : x.roll \in 1..Len(d)
  BY <1>1
<1>7. ASSUME f = FrameCount \/ ~Strike(d)
      PROVE  InFrame(Strikes(facts), f) = {}
  <2> SUFFICES ASSUME NEW x \in S, f < FrameCount, x.roll = 1, x.pins = Pins
               PROVE  FALSE
    BY <1>4
  <2>1. Len(d) > 0 /\ d[1] = Pins
    BY <1>1, <1>6
  <2> QED
    BY <1>7, <2>1, ScoringAssumption DEF Strike
<1>11. f < FrameCount /\ 2 \in 1..n => n = 2
  BY <1>0, <1>13
<1>8. ASSUME f = FrameCount \/ ~Spare(d)
      PROVE  InFrame(Spares(facts), f) = {}
  <2> SUFFICES ASSUME NEW x \in S, f < FrameCount, x.roll = 2, Ball(facts, f, 1) + x.pins = Pins
               PROVE  FALSE
    BY <1>5
  <2>0. 2 \in 1..Len(d)
    BY <1>6
  <2>1. Len(d) = 2
    BY <1>11, <1>12, <2>0
  <2>2. d[1] + d[2] = Pins /\ d[1] < Pins
    BY <1>1, <1>2, <2>1, ScoringAssumption
  <2> QED
    BY <1>8, <2>1, <2>2, ScoringAssumption DEF Strike, Spare
<1>9. ASSUME f # FrameCount, Strike(d)
      PROVE  Len(d) = 1 /\ \E x \in S : x.roll = 1 /\ InFrame(Strikes(facts), f) = {x}
  <2>0. n > 0 /\ d[1] = Pins
    BY <1>9, <1>12 DEF Strike
  <2>1. Len(d) = 1 /\ d[1] = Pins
    BY <1>0, <1>9, <1>12, <1>13, <2>0
  <2>2. PICK x \in S : x.roll = 1
    BY <1>1, <2>1
  <2>3. x.pins = Pins
    BY <1>1, <2>1, <2>2
  <2>4. \A y : y \in InFrame(Strikes(facts), f) <=> y = x
    BY <1>1, <1>2, <1>4, <1>9, <2>2, <2>3
  <2>5. InFrame(Strikes(facts), f) = {x}
    BY <2>4
  <2> QED
    BY <2>1, <2>2, <2>5
<1>10. ASSUME f # FrameCount, Spare(d)
       PROVE  Len(d) = 2 /\ \E x \in S : x.roll = 2 /\ InFrame(Spares(facts), f) = {x}
  <2>0. n >= 2 /\ d[1] + d[2] = Pins
    BY <1>10, <1>12 DEF Spare
  <2>1. Len(d) = 2 /\ d[1] + d[2] = Pins
    BY <1>10, <1>12, <1>13, <2>0
  <2>2. PICK x \in S : x.roll = 2
    <3>1. 2 \in 1..Len(d)
      BY <2>1
    <3> QED
      BY <1>1, <3>1
  <2>3. Ball(facts, f, 1) + x.pins = Pins
    BY <1>1, <2>1, <2>2
  <2>4. \A y : y \in InFrame(Spares(facts), f) <=> y = x
    BY <1>1, <1>2, <1>5, <1>10, <2>2, <2>3
  <2>5. InFrame(Spares(facts), f) = {x}
    BY <2>4
  <2> QED
    BY <2>1, <2>2, <2>5
<1> QED
  BY <1>7, <1>8, <1>9, <1>10 DEF S
LEMMA AfterTyped ==
  ASSUME NEW facts, \A x \in facts : x.frame \in Frames,
         \A e \in Frames : Told(facts, e, Deliveries(facts, e)), NEW f \in Frames
  PROVE  After(facts, f) \in Seq(0..Pins)
<1> DEFINE T == 0..Pins
           s == Stream(facts, f)
<1>1. s \in Seq(T)
  BY StreamRuns DEF Pinfalls
<1>2. After(facts, f) = IF s = <<>> THEN <<>> ELSE Tail(s)
  BY DEF After, Stream
<1> HIDE DEF T, s
<1>3. After(facts, f) \in Seq(T)
  BY <1>1, <1>2
<1> QED
  BY <1>3 DEF T

\* A mark is paid once the balls it draws were thrown.
LEMMA BonusIs ==
  ASSUME NEW d, NEW n \in Seq(0..Pins), Strike(d) \/ Spare(d), Bonus(d, n) # Null
  PROVE  /\ Len(n) >= 2
         /\ Bonus(d, n) = IF Strike(d) THEN n[1] + n[2] ELSE n[2]
<1>1. PICK k \in Nat : k = Len(n)
  OBVIOUS
<1>2. k >= 2
  <2>1. ASSUME k < 2
        PROVE  FALSE
    <3>1. ~(2 <= Len(n))
      BY <1>1, <2>1
    <3> QED
      BY <3>1 DEF Bonus
  <2> QED
    BY <1>1, <2>1
<1>3. 2 <= Len(n) /\ 1 <= Len(n)
  BY <1>1, <1>2
<1>4. n[2] # Null
  BY <1>3 DEF Bonus
<1> QED
  BY <1>1, <1>2, <1>3, <1>4 DEF Bonus

LEMMA ScoreIs ==
  ASSUME NEW f, NEW d, NEW n
  PROVE  /\ Projection(f, d, n).score =
              IF Open(d) THEN d[1] + d[2]
              ELSE IF ~Strike(d) /\ ~Spare(d) THEN Null
              ELSE IF f < FrameCount
                   THEN IF Bonus(d, n) = Null THEN Null ELSE Pins + Bonus(d, n)
              ELSE IF Len(d) = 3 THEN Pins + d[3] + (IF Strike(d) THEN d[2] ELSE 0)
              ELSE IF Strike(d) /\ Len(d) = 2 THEN Pins + d[2]
              ELSE Null
         /\ Projection(f, d, n).resolved =
              (Projection(f, d, n).score # Null /\ (f = FrameCount => FrameComplete(f, d)))
BY DEF Projection
\* deriveGame scores a resolved frame as the rules do.
LEMMA FrameScore ==
  ASSUME NEW facts, Legal(facts), NEW f \in Frames,
         Projection(f, Deliveries(facts, f), After(facts, f)).resolved
  PROVE  /\ Projection(f, Deliveries(facts, f), After(facts, f)).score = FrameByTheRules(facts, f)
         /\ Projection(f, Deliveries(facts, f), After(facts, f)).score \in Nat
<1> DEFINE d == Deliveries(facts, f)
           m == After(facts, f)
           score == Projection(f, d, m).score
           knocked == SumOf(InFrame(facts, f), PinsMap(facts))
           strikes == SumOf(InFrame(Strikes(facts), f), DrawMap(facts, 2))
           spares == SumOf(InFrame(Spares(facts), f), DrawMap(facts, 1))
<1>1. Balls(facts) /\ \A x \in facts : x.frame \in Frames
  BY DEF Legal, NumberingIllegal
<1>2. \A e \in Frames : Told(facts, e, Deliveries(facts, e))
  BY LegalLine DEF Line
<1>3. Line(facts, f, d) /\ Told(facts, f, d)
  BY LegalLine DEF Line
<1>4. m \in Seq(0..Pins)
  BY <1>1, <1>2, AfterTyped
<1>5. FrameByTheRules(facts, f) = knocked + strikes + spares
  BY DEF FrameByTheRules
<1>6. /\ score # Null /\ (f = FrameCount => FrameComplete(f, d))
      /\ score = IF Open(d) THEN d[1] + d[2]
                 ELSE IF ~Strike(d) /\ ~Spare(d) THEN Null
                 ELSE IF f < FrameCount
                      THEN IF Bonus(d, m) = Null THEN Null ELSE Pins + Bonus(d, m)
                 ELSE IF Len(d) = 3 THEN Pins + d[3] + (IF Strike(d) THEN d[2] ELSE 0)
                 ELSE IF Strike(d) /\ Len(d) = 2 THEN Pins + d[2]
                 ELSE Null
  <2> HIDE DEF d, m
  <2>1. Projection(f, d, m).resolved
    BY DEF d, m
  <2> QED
    BY <2>1, ScoreIs
<1> HIDE DEF d, m, score
<1>7. PICK n \in 0..3 : n = Len(d)
  BY <1>3 DEF Told
<1>8. \A i \in 1..n : d[i] \in Nat
  <2>1. d \in Seq(0..Pins)
    BY <1>3 DEF Told
  <2>2. \A i \in 1..Len(d) : d[i] \in 0..Pins
    BY <2>1, ElementsOf
  <2> QED
    BY <1>7, <2>2, ScoringAssumption
<1>9. /\ n = 1 => knocked = d[1]
      /\ n = 2 => knocked = d[1] + d[2]
      /\ n = 3 => knocked = d[1] + d[2] + d[3]
  <2>1. f \in Nat
    BY DEF Frames
  <2>2. /\ Len(d) = 1 => knocked = d[1]
        /\ Len(d) = 2 => knocked = d[1] + d[2]
        /\ Len(d) = 3 => knocked = d[1] + d[2] + d[3]
    BY <1>1, <1>3, <2>1, FramePins
  <2> QED
    BY <1>7, <2>2
<1>10. /\ f = FrameCount \/ ~Strike(d) => strikes = 0
       /\ f = FrameCount \/ ~Spare(d) => spares = 0
  BY <1>3, MarkBalls, SumNone
<1>11. f # FrameCount => f < FrameCount /\ n <= 2
  <2>1. f # FrameCount => f < FrameCount
    BY ScoringAssumption DEF Frames
  <2>2. f # FrameCount => Len(d) <= 2
    BY <1>3, <2>1, TopologyMeans DEF Line, Told
  <2> QED
    BY <1>7, <2>1, <2>2
<1>12. f = FrameCount => n = IF Strike(d) \/ Spare(d) THEN 3 ELSE 2
  <2>1. f = FrameCount => ~(f < FrameCount)
    BY ScoringAssumption
  <2> QED
    BY <1>6, <1>7, <2>1 DEF FrameComplete
<1>13. /\ Strike(d) => n > 0 /\ d[1] = Pins
       /\ Spare(d) => n >= 2 /\ d[1] + d[2] = Pins /\ ~Strike(d)
       /\ Open(d) => n >= 2 /\ ~Strike(d) /\ ~Spare(d)
  BY <1>7 DEF Strike, Spare, Open
<1> HIDE DEF knocked, strikes, spares
<1>14. CASE Open(d)
  <2>1. n = 2
    BY <1>11, <1>12, <1>13, <1>14
  <2>2. score = d[1] + d[2] /\ knocked = d[1] + d[2] /\ strikes = 0 /\ spares = 0
    BY <1>6, <1>9, <1>10, <1>13, <1>14, <2>1
  <2>3. d[1] \in Nat /\ d[2] \in Nat
    BY <1>8, <2>1
  <2>4. score = knocked + strikes + spares /\ score \in Nat
    BY <2>2, <2>3
  <2> QED
    BY <1>5, <2>4 DEF score, d, m
<1>15. CASE ~Open(d) /\ f # FrameCount
  <2>1. /\ Strike(d) \/ Spare(d)
        /\ Bonus(d, m) # Null /\ score = Pins + Bonus(d, m)
    BY <1>6, <1>11, <1>15
  <2>2. Len(m) >= 2 /\ Bonus(d, m) = IF Strike(d) THEN m[1] + m[2] ELSE m[2]
    BY <1>4, <2>1, BonusIs
  <2>3. CASE Strike(d)
    <3>1. PICK x \in InFrame(facts, f) : x.roll = 1 /\ InFrame(Strikes(facts), f) = {x}
      BY <1>3, <1>15, <2>3, MarkBalls
    <3>2. n = 1
      BY <1>3, <1>7, <1>15, <2>3, MarkBalls
    <3>3. m[1] \in Nat /\ m[2] \in Nat /\ PinsOf(Draws(facts, x, 2)) = m[1] + m[2]
      BY <1>1, <1>2, <2>2, <3>1, NextBalls DEF m
    <3>4. DrawMap(facts, 2)[x] = m[1] + m[2] /\ DrawMap(facts, 2)[x] \in Int
      <4>1. x \in facts
        BY DEF InFrame
      <4> QED
        BY <1>1, <3>3, <4>1, MapsTyped
    <3>5. strikes = m[1] + m[2]
      BY <3>1, <3>4, SumOne DEF strikes
    <3>6. knocked = Pins /\ spares = 0 /\ score = Pins + (m[1] + m[2])
      BY <1>9, <1>10, <1>13, <2>1, <2>2, <2>3, <3>2
    <3>7. score = knocked + strikes + spares /\ score \in Nat
      BY <3>3, <3>5, <3>6, ScoringAssumption
    <3> QED
      BY <1>5, <3>7 DEF score, d, m
  <2>4. CASE Spare(d)
    <3>1. PICK x \in InFrame(facts, f) : x.roll = 2 /\ InFrame(Spares(facts), f) = {x}
      BY <1>3, <1>15, <2>4, MarkBalls
    <3>2. n = 2
      BY <1>3, <1>7, <1>15, <2>4, MarkBalls
    <3>3. m[2] \in Nat /\ PinsOf(Draws(facts, x, 1)) = m[2]
      BY <1>1, <1>2, <2>2, <3>1, NextBalls DEF m
    <3>4. DrawMap(facts, 1)[x] = m[2] /\ DrawMap(facts, 1)[x] \in Int
      <4>1. x \in facts
        BY DEF InFrame
      <4> QED
        BY <1>1, <3>3, <4>1, MapsTyped
    <3>5. spares = m[2]
      BY <3>1, <3>4, SumOne DEF spares
    <3>6. knocked = Pins /\ strikes = 0 /\ score = Pins + m[2]
      BY <1>9, <1>10, <1>13, <2>1, <2>2, <2>4, <3>2
    <3>7. score = knocked + strikes + spares /\ score \in Nat
      BY <3>3, <3>5, <3>6, ScoringAssumption
    <3> QED
      BY <1>5, <3>7 DEF score, d, m
  <2> QED
    BY <2>1, <2>3, <2>4
<1>16. CASE ~Open(d) /\ f = FrameCount
  <2>1. ~(f < FrameCount)
    BY <1>16, ScoringAssumption
  <2>2. Strike(d) \/ Spare(d)
    BY <1>6, <1>16
  <2>3. n = 3
    BY <1>12, <1>16, <2>2
  <2>4. score = Pins + d[3] + (IF Strike(d) THEN d[2] ELSE 0)
    BY <1>6, <1>7, <1>16, <2>1, <2>2, <2>3
  <2>5. d[1] \in Nat /\ d[2] \in Nat /\ d[3] \in Nat
    BY <1>8, <2>3
  <2>6. knocked = d[1] + d[2] + d[3] /\ strikes = 0 /\ spares = 0
    BY <1>9, <1>10, <1>16, <2>3
  <2>7. score = knocked + strikes + spares /\ score \in Nat
    BY <1>13, <2>2, <2>4, <2>5, <2>6, ScoringAssumption
  <2> QED
    BY <1>5, <2>7 DEF score, d, m
<1> QED
  BY <1>14, <1>15, <1>16
ScoreMap(a) == [e \in Frames |-> a[e].score]

LEMMA ScoreSumOf ==
  ASSUME NEW a, NEW S \in SUBSET Frames, IsFiniteSet(S), \A e \in S : a[e].score \in Int
  PROVE  ScoreSum(S, a) = SumOf(S, ScoreMap(a))
<1> DEFINE v == [x \in S |-> a[x].score]
<1>1. PICK g : Totaling(v, S, g) /\ ScoreSum(S, a) = g[S]
  BY ScoreSumIs
<1>2. PICK k : Totaling(ScoreMap(a), S, k) /\ SumOf(S, ScoreMap(a)) = k[S]
  BY SumOfIs
<1>3. \A x \in S : v[x] \in Int /\ ScoreMap(a)[x] = v[x]
  BY DEF ScoreMap
<1> HIDE DEF v
<1>4. k[S] = g[S]
  BY <1>1, <1>2, <1>3, EqualTotals
<1> QED
  BY <1>1, <1>2, <1>4

\* Running totals of scores that follow the rules follow the rules.
LEMMA TotalsByTheRules ==
  ASSUME NEW facts, Balls(facts), \A x \in facts : x.frame \in Frames, NEW a, NEW f \in Frames,
         \A e \in 1..f : a[e].score \in Nat /\ a[e].score = FrameByTheRules(facts, e)
  PROVE  RunningTotals(a)[f] = ScoreByTheRules(facts, f)
<1> DEFINE v == ScoreMap(a)
           U == {e \in 0..f : SumOf(1..e, v) = ScoreByTheRules(facts, e)}
<1>1. f \in Nat \ {0} /\ 1..f \subseteq Frames
  BY ScoringAssumption DEF Frames
<1>2. \A e \in 1..f : v[e] = a[e].score /\ v[e] \in Int
  BY <1>1 DEF ScoreMap
<1> HIDE DEF v
<1>3. 0 \in U
  <2>1. 1..0 = {}
    OBVIOUS
  <2>2. SumOf(1..0, v) = 0
    BY <2>1, SumNone
  <2>3. ScoreByTheRules(facts, 0) = 0
    BY RulesGrow
  <2> QED
    BY <1>1, <2>2, <2>3
<1>4. ASSUME NEW k \in 0..(f - 1), k \in U
      PROVE  k + 1 \in U
  <2>1. k + 1 \in 1..f /\ k + 1 \in Frames /\ (k + 1) - 1 = k /\ k \in 0..f
    BY <1>1
  <2>2. 1..(k + 1) = (1..k) \cup {k + 1} /\ k + 1 \notin 1..k /\ k \in Int
    OBVIOUS
  <2>3. \A e \in (1..k) \cup {k + 1} : v[e] \in Int
    <3>1. (1..k) \cup {k + 1} \subseteq 1..f
      BY <1>1, <2>1
    <3> QED
      BY <1>2, <3>1
  <2>4. SumOf(1..(k + 1), v) = SumOf(1..k, v) + v[k + 1]
    <3> DEFINE S == 1..k
    <3>1. IsFiniteSet(S)
      BY <2>2, FS_Interval
    <3> HIDE DEF S
    <3>2. SumOf(S \cup {k + 1}, v) = SumOf(S, v) + v[k + 1]
      BY <2>2, <2>3, <3>1, SumAdd DEF S
    <3> QED
      BY <2>2, <3>2 DEF S
  <2>5. ScoreByTheRules(facts, k + 1) = ScoreByTheRules(facts, k) + FrameByTheRules(facts, k + 1)
    BY <2>1, RulesGrow
  <2>6. v[k + 1] = FrameByTheRules(facts, k + 1)
    BY <1>2, <2>1
  <2>7. SumOf(1..k, v) = ScoreByTheRules(facts, k)
    BY <1>4
  <2>8. SumOf(1..(k + 1), v) = ScoreByTheRules(facts, k + 1)
    BY <2>4, <2>5, <2>6, <2>7
  <2>9. k + 1 \in 0..f
    BY <2>1
  <2> QED
    BY <2>8, <2>9
<1>5. f \in U
  <2> HIDE DEF U
  <2>1. 0..f \subseteq U
    BY <1>1, <1>3, <1>4, IntervalSetInduction
  <2> QED
    BY <1>1, <2>1
<1>6. RunningTotals(a)[f] = ScoreSum(1..f, a)
  BY TotalIs
<1>7. ScoreSum(1..f, a) = SumOf(1..f, v)
  <2> DEFINE S == 1..f
  <2>1. S \in SUBSET Frames /\ IsFiniteSet(S) /\ \A e \in S : a[e].score \in Int
    BY <1>1, FS_Interval
  <2> HIDE DEF S
  <2>2. ScoreSum(S, a) = SumOf(S, v)
    BY <2>1, ScoreSumOf DEF v
  <2> QED
    BY <2>2 DEF S
<1> QED
  BY <1>5, <1>6, <1>7
LEMMA FinalIs ==
  ASSUME NEW facts
  PROVE  /\ DeriveGame(facts).status = Status(facts)
         /\ Status(facts) = "COMPLETED" =>
              /\ Scored(facts)
              /\ \A f \in Frames : FrameComplete(f, Deliveries(facts, f))
              /\ DeriveGame(facts).final =
                   IF \A f \in Frames : DeriveGame(facts).frames[f].resolved
                   THEN DeriveGame(facts).totals[FrameCount] ELSE Null
<1>1. DeriveGame(facts).status = Status(facts)
  <2>1. CASE Scored(facts)
    BY <2>1 DEF DeriveGame, Scored, Status
  <2>2. CASE ~Scored(facts)
    BY <2>2 DEF DeriveGame, Scored, Status, Unscored
  <2> QED
    BY <2>1, <2>2
<1>2. ASSUME Status(facts) = "COMPLETED"
      PROVE  /\ \A f \in Frames : FrameComplete(f, Deliveries(facts, f))
             /\ DeriveGame(facts).final =
                  IF \A f \in Frames : DeriveGame(facts).frames[f].resolved
                  THEN DeriveGame(facts).totals[FrameCount] ELSE Null
  <2>1. \A f \in Frames : FrameComplete(f, Lines(facts)[f])
    BY <1>2 DEF Status, StatusOf
  <2>2. \A f \in Frames : FrameComplete(f, Deliveries(facts, f))
    BY <2>1, LinesAre
  <2>3. DeriveGame(facts).final =
          IF \A f \in Frames : DeriveGame(facts).frames[f].resolved
          THEN DeriveGame(facts).totals[FrameCount] ELSE Null
    BY <1>2 DEF DeriveGame, Status
  <2> QED
    BY <2>2, <2>3
<1> QED
  BY <1>1, <1>2 DEF Scored

\* Three balls from frame f on leave two after the first of them.
LEMMA ThreeOn ==
  ASSUME NEW facts, \A x \in facts : x.frame \in Frames,
         \A e \in Frames : Told(facts, e, Deliveries(facts, e)), NEW f \in Frames,
         NEW a \in From(facts, f), NEW b \in From(facts, f), NEW c \in From(facts, f),
         a # b, a # c, b # c
  PROVE  /\ Len(After(facts, f)) >= 2
         /\ After(facts, f)[1] \in Nat /\ After(facts, f)[2] \in Nat
<1> DEFINE S == From(facts, f)
           T == 0..Pins
           s == Stream(facts, f)
           m == After(facts, f)
<1>1. PICK q : Runs(q, S) /\ Pinfalls(s, q)
  BY StreamRuns
<1>2. m = IF s = <<>> THEN <<>> ELSE Tail(s)
  BY DEF After, Stream
<1> HIDE DEF s, S, T, m
<1>3. PICK n \in Nat : n = Len(q)
  BY <1>1 DEF Runs
<1>4. n >= 3
  <2>1. \A x \in S : \E i \in 1..n : x = q[i]
    BY <1>1, <1>3 DEF Runs
  <2>2. PICK i \in 1..n : a = q[i]
    BY <2>1 DEF S
  <2>3. PICK j \in 1..n : b = q[j]
    BY <2>1 DEF S
  <2>4. PICK k \in 1..n : c = q[k]
    BY <2>1 DEF S
  <2>5. i # j /\ i # k /\ j # k
    BY <2>2, <2>3, <2>4
  <2> QED
    BY <2>5
<1>5. s \in Seq(T) /\ Len(s) = n
  BY <1>1, <1>3 DEF Pinfalls, T
<1>6. s # <<>>
  <2>1. Len(s) # 0
    BY <1>4, <1>5
  <2> QED
    BY <2>1
<1>7. m \in Seq(T) /\ Len(m) = n - 1
  BY <1>2, <1>3, <1>5, <1>6
<1>8. \A i \in 1..Len(m) : m[i] \in T
  BY <1>7, ElementsOf
<1>9. 1 \in 1..Len(m) /\ 2 \in 1..Len(m)
  BY <1>4, <1>7
<1>10. \A p \in T : p \in Nat
  BY ScoringAssumption DEF T
<1> QED
  BY <1>3, <1>4, <1>7, <1>8, <1>9, <1>10 DEF m
\* Once every frame is complete, the balls of every bonus have been thrown.
LEMMA CompleteMeansResolved ==
  ASSUME NEW facts, Legal(facts), \A e \in Frames : FrameComplete(e, Deliveries(facts, e)),
         NEW f \in Frames
  PROVE  Projection(f, Deliveries(facts, f), After(facts, f)).resolved
<1> DEFINE d == Deliveries(facts, f)
           m == After(facts, f)
           score == Projection(f, d, m).score
<1>1. \A x \in facts : x.frame \in Frames
  BY DEF Legal, NumberingIllegal
<1>2. \A e \in Frames : Line(facts, e, Deliveries(facts, e)) /\ Told(facts, e, Deliveries(facts, e))
  BY LegalLine DEF Line
<1>3. \A e \in Frames : \E x \in InFrame(facts, e) : x.roll = 1
  <2> SUFFICES ASSUME NEW e \in Frames
               PROVE  \E x \in InFrame(facts, e) : x.roll = 1
    OBVIOUS
  <2> DEFINE c == Deliveries(facts, e)
  <2>1. FrameComplete(e, c) /\ Told(facts, e, c)
    BY <1>2
  <2> HIDE DEF c
  <2>2. PICK n \in 0..3 : n = Len(c)
    BY <2>1 DEF Told
  <2>3. n >= 1
    BY <2>1, <2>2 DEF FrameComplete
  <2>4. 1 \in 1..Len(c)
    BY <2>2, <2>3
  <2> QED
    BY <2>1, <2>4 DEF Told
<1>4. \A e \in Frames : 2 \in 1..Len(Deliveries(facts, e)) => \E x \in InFrame(facts, e) : x.roll = 2
  <2> SUFFICES ASSUME NEW e \in Frames, 2 \in 1..Len(Deliveries(facts, e))
               PROVE  \E x \in InFrame(facts, e) : x.roll = 2
    OBVIOUS
  <2> QED
    BY <1>2 DEF Told
<1>5. 2 \in 1..Len(Deliveries(facts, FrameCount))
  <2> DEFINE c == Deliveries(facts, FrameCount)
  <2>1. FrameCount \in Frames /\ ~(FrameCount < FrameCount)
    BY ScoringAssumption DEF Frames
  <2>2. FrameComplete(FrameCount, c) /\ Told(facts, FrameCount, c)
    BY <1>2, <2>1
  <2> HIDE DEF c
  <2>3. PICK n \in 0..3 : n = Len(c)
    BY <2>2 DEF Told
  <2>4. n >= 2
    BY <2>1, <2>2, <2>3 DEF FrameComplete
  <2>5. 2 \in 1..Len(c)
    BY <2>3, <2>4
  <2> QED
    BY <2>5 DEF c
<1>6. \A e \in Frames : f <= e => \A x \in InFrame(facts, e) : x \in From(facts, f) /\ x.frame = e
  BY DEF InFrame, From
<1>7. Told(facts, f, d) /\ Line(facts, f, d) /\ FrameComplete(f, d)
  BY <1>2
<1>8. /\ score = IF Open(d) THEN d[1] + d[2]
                 ELSE IF ~Strike(d) /\ ~Spare(d) THEN Null
                 ELSE IF f < FrameCount
                      THEN IF Bonus(d, m) = Null THEN Null ELSE Pins + Bonus(d, m)
                 ELSE IF Len(d) = 3 THEN Pins + d[3] + (IF Strike(d) THEN d[2] ELSE 0)
                 ELSE IF Strike(d) /\ Len(d) = 2 THEN Pins + d[2]
                 ELSE Null
      /\ score # Null => Projection(f, d, m).resolved
  <2> HIDE DEF d, m
  <2> QED
    BY <1>7, ScoreIs
<1>9. ASSUME f # FrameCount, Strike(d) \/ Spare(d)
      PROVE  Len(m) >= 2 /\ m[1] \in Nat /\ m[2] \in Nat
  <2>1. f \in Nat /\ f + 1 \in Frames /\ f <= f + 1 /\ f <= f /\ f # f + 1
    BY <1>9, ScoringAssumption DEF Frames
  <2>2. PICK a \in InFrame(facts, f) : a.roll = 1
    BY <1>3
  <2>3. PICK b \in InFrame(facts, f + 1) : b.roll = 1
    BY <1>3, <2>1
  <2>4. a \in From(facts, f) /\ a.frame = f /\ b \in From(facts, f) /\ b.frame = f + 1
    BY <1>6, <2>1
  <2>5. \E c \in From(facts, f) : c # a /\ c # b
    <3>1. CASE f + 2 \in Frames
      <4>1. PICK c \in InFrame(facts, f + 2) : c.roll = 1
        BY <1>3, <3>1
      <4>2. f <= f + 2 /\ f + 2 # f /\ f + 2 # f + 1
        BY <2>1
      <4>3. c \in From(facts, f) /\ c.frame = f + 2
        BY <1>6, <3>1, <4>2
      <4> QED
        BY <2>4, <4>2, <4>3
    <3>2. CASE f + 2 \notin Frames
      <4>1. f + 1 = FrameCount
        BY <2>1, <3>2, ScoringAssumption DEF Frames
      <4>2. PICK c \in InFrame(facts, f + 1) : c.roll = 2
        BY <1>4, <1>5, <2>1, <4>1
      <4>3. c \in From(facts, f) /\ c.frame = f + 1
        BY <1>6, <2>1
      <4> QED
        BY <2>1, <2>3, <2>4, <4>2, <4>3
    <3> QED
      BY <3>1, <3>2
  <2>6. a # b
    BY <2>1, <2>4
  <2> QED
    BY <1>1, <1>2, <2>4, <2>5, <2>6, ThreeOn
<1> HIDE DEF d, m, score
<1>10. PICK n \in 0..3 : n = Len(d)
  BY <1>7 DEF Told
<1>11. \A i \in 1..n : d[i] \in Nat
  <2>1. d \in Seq(0..Pins)
    BY <1>7 DEF Told
  <2>2. \A i \in 1..Len(d) : d[i] \in 0..Pins
    BY <2>1, ElementsOf
  <2> QED
    BY <1>10, <2>2, ScoringAssumption
<1>12. f # FrameCount => f < FrameCount
  BY ScoringAssumption DEF Frames
<1>13. f = FrameCount => ~(f < FrameCount)
  BY ScoringAssumption
<1>14. /\ f # FrameCount => n = IF Strike(d) THEN 1 ELSE 2
       /\ f = FrameCount => n = IF Strike(d) \/ Spare(d) THEN 3 ELSE 2
  BY <1>7, <1>10, <1>12, <1>13 DEF FrameComplete
<1>15. n >= 2 => Strike(d) \/ Spare(d) \/ Open(d)
  BY <1>10 DEF Spare, Open
<1>16. CASE Open(d)
  <2>1. n >= 2
    BY <1>10, <1>16 DEF Open
  <2>2. d[1] \in Nat /\ d[2] \in Nat
    BY <1>11, <2>1
  <2>3. score # Null
    BY <1>8, <1>16, <2>2 DEF Null
  <2> QED
    BY <1>8, <2>3 DEF d, m
<1>17. CASE ~Open(d) /\ f # FrameCount
  <2>1. Strike(d) \/ Spare(d)
    BY <1>14, <1>15, <1>17
  <2>2. Len(m) >= 2 /\ m[1] \in Nat /\ m[2] \in Nat
    BY <1>9, <1>17, <2>1
  <2>3. Bonus(d, m) \in Nat
    <3>1. 2 <= Len(m) /\ 1 <= Len(m)
      <4>1. m \in Seq(0..Pins)
        BY <1>1, <1>2, AfterTyped DEF m
      <4> QED
        BY <2>2, <4>1
    <3>2. m[2] # Null
      BY <2>2 DEF Null
    <3>3. Bonus(d, m) = IF Strike(d) THEN m[1] + m[2] ELSE m[2]
      BY <2>1, <3>1, <3>2 DEF Bonus
    <3> QED
      BY <2>2, <3>3
  <2>4. Bonus(d, m) # Null
    BY <2>3 DEF Null
  <2>5. score = Pins + Bonus(d, m)
    BY <1>8, <1>12, <1>17, <2>1, <2>4
  <2>6. score # Null
    BY <2>3, <2>5, ScoringAssumption DEF Null
  <2> QED
    BY <1>8, <2>6 DEF d, m
<1>18. CASE ~Open(d) /\ f = FrameCount
  <2>1. Strike(d) \/ Spare(d)
    BY <1>14, <1>15, <1>18
  <2>2. n = 3
    BY <1>14, <1>18, <2>1
  <2>3. score = Pins + d[3] + (IF Strike(d) THEN d[2] ELSE 0)
    BY <1>8, <1>10, <1>13, <1>18, <2>1, <2>2
  <2>4. d[2] \in Nat /\ d[3] \in Nat
    BY <1>11, <2>2
  <2>5. score # Null
    BY <2>3, <2>4, ScoringAssumption DEF Null
  <2> QED
    BY <1>8, <2>5 DEF d, m
<1> QED
  BY <1>16, <1>17, <1>18

\* Any sheet that deriveGame derives from typed balls is scored by the rules.
LEMMA SheetByTheRules ==
  ASSUME NEW facts, Balls(facts)
  PROVE  /\ \A f \in Frames :
              (\A e \in 1..f : DeriveGame(facts).frames[e].resolved) =>
                DeriveGame(facts).totals[f] = ScoreByTheRules(facts, f)
         /\ DeriveGame(facts).status = "COMPLETED" =>
              DeriveGame(facts).final = ScoreByTheRules(facts, FrameCount)
<1>1. ASSUME Scored(facts), NEW f \in Frames,
             \A e \in 1..f : DeriveGame(facts).frames[e].resolved
      PROVE  DeriveGame(facts).totals[f] = ScoreByTheRules(facts, f)
  <2>1. PICK a : /\ DeriveGame(facts).frames = a /\ DeriveGame(facts).totals = RunningTotals(a)
                 /\ \A e \in Frames : a[e] = Projection(e, Deliveries(facts, e), After(facts, e))
    BY <1>1, SheetIs
  <2>2. Legal(facts)
    BY <1>1, NoRepairMeansLegal DEF Scored
  <2>3. \A e \in 1..f : e \in Frames
    BY ScoringAssumption DEF Frames
  <2>4. \A e \in 1..f : a[e].score \in Nat /\ a[e].score = FrameByTheRules(facts, e)
    <3> SUFFICES ASSUME NEW e \in 1..f
                 PROVE  a[e].score \in Nat /\ a[e].score = FrameByTheRules(facts, e)
      OBVIOUS
    <3> DEFINE p == Projection(e, Deliveries(facts, e), After(facts, e))
    <3>1. e \in Frames /\ a[e] = p /\ a[e].resolved
      BY <1>1, <2>1, <2>3
    <3>2. p.score = FrameByTheRules(facts, e) /\ p.score \in Nat
      BY <2>2, <3>1, FrameScore
    <3> QED
      BY <3>1, <3>2
  <2>5. \A x \in facts : x.frame \in Frames
    BY <2>2 DEF Legal, NumberingIllegal
  <2>6. RunningTotals(a)[f] = ScoreByTheRules(facts, f)
    BY <2>4, <2>5, TotalsByTheRules
  <2> QED
    BY <2>1, <2>6
<1>2. ASSUME ~Scored(facts), NEW f \in Frames,
             \A e \in 1..f : DeriveGame(facts).frames[e].resolved
      PROVE  FALSE
  <2>1. f \in 1..f
    BY DEF Frames
  <2>2. DeriveGame(facts).frames[f].resolved
    BY <1>2, <2>1
  <2> QED
    BY <1>2, <2>2, UnscoredSheet
<1>3. ASSUME DeriveGame(facts).status = "COMPLETED"
      PROVE  DeriveGame(facts).final = ScoreByTheRules(facts, FrameCount)
  <2>1. Status(facts) = "COMPLETED"
    BY <1>3, FinalIs
  <2>2. Scored(facts) /\ \A e \in Frames : FrameComplete(e, Deliveries(facts, e))
    BY <2>1, FinalIs
  <2>3. PICK a : /\ DeriveGame(facts).frames = a
                 /\ \A e \in Frames : a[e] = Projection(e, Deliveries(facts, e), After(facts, e))
    BY <2>2, SheetIs
  <2>4. Legal(facts)
    BY <2>2, NoRepairMeansLegal DEF Scored
  <2>5. \A e \in Frames : DeriveGame(facts).frames[e].resolved
    BY <2>2, <2>3, <2>4, CompleteMeansResolved
  <2>6. DeriveGame(facts).final = DeriveGame(facts).totals[FrameCount]
    BY <2>1, <2>5, FinalIs
  <2>7. FrameCount \in Frames /\ \A e \in 1..FrameCount : e \in Frames
    BY ScoringAssumption DEF Frames
  <2>8. DeriveGame(facts).totals[FrameCount] = ScoreByTheRules(facts, FrameCount)
    BY <1>1, <2>2, <2>5, <2>7
  <2> QED
    BY <2>6, <2>8
<1> QED
  BY <1>1, <1>2, <1>3

\* Scores follow the rules of bowling: whatever was recorded, corrected or
\* pulled, the running total that deriveGame gives a frame reached through
\* resolved frames, and the final score of a completed game, are the pins of
\* the balls so far with the balls that each strike and spare draws counted
\* again (derive.ts: bonusRolls, scoreFrames, computeRunningTotals).
THEOREM ScoreIsByTheRules == Spec => []ScoreFollowsTheRules
<1>1. IInv => ScoreFollowsTheRules
  <2> SUFFICES ASSUME IInv, NEW g \in Game
               PROVE  \A facts \in {Facts(g)} :
                        \A sheet \in {DeriveGame(facts)} :
                          /\ \A f \in Frames :
                               (\A e \in 1..f : sheet.frames[e].resolved) =>
                                 sheet.totals[f] = ScoreByTheRules(facts, f)
                          /\ sheet.status = "COMPLETED" =>
                               sheet.final = ScoreByTheRules(facts, FrameCount)
    BY DEF ScoreFollowsTheRules
  <2>1. Balls(Facts(g))
    BY FactsAreBalls
  <2> QED
    BY <2>1, SheetByTheRules
<1> QED
  BY <1>1, Invariance, PTL

(******************************* the analyses ******************************)

\* A completed game has a final score, of at least the pins knocked down.
LEMMA CompletedFinal ==
  ASSUME NEW facts, Balls(facts), Status(facts) = "COMPLETED"
  PROVE  /\ PinsOf(facts) \in Nat /\ DeriveGame(facts).final \in Nat
         /\ PinsOf(facts) <= DeriveGame(facts).final
<1> DEFINE n == FrameCount
           a == SumOf(facts, PinsMap(facts))
           b == SumOf(UpTo(Strikes(facts), n), DrawMap(facts, 2))
           c == SumOf(UpTo(Spares(facts), n), DrawMap(facts, 1))
<1>1. DeriveGame(facts).final = ScoreByTheRules(facts, n)
  BY FinalIs, SheetByTheRules
<1>2. Legal(facts)
  BY NoRepairMeansLegal
<1>3. UpTo(facts, n) = facts
  <2>1. \A x \in facts : x.frame <= n
    BY <1>2, ScoringAssumption DEF Legal, NumberingIllegal, Frames
  <2> QED
    BY <2>1 DEF UpTo
<1>4. ScoreByTheRules(facts, n) = a + b + c
  BY <1>3, RulesAre
<1>5. IsFiniteSet(facts) /\ \A x \in facts : x.pins \in Nat
  BY DEF Balls
<1>6. PinsOf(facts) = a
  <2>1. facts \in SUBSET facts /\ \A x \in facts : x.pins \in Int
    BY <1>5
  <2> QED
    BY <1>5, <2>1, PinsOfIs
<1>7. a \in Nat
  <2>1. \A x \in facts : PinsMap(facts)[x] \in Nat
    BY <1>5 DEF PinsMap
  <2> QED
    BY <1>5, <2>1, SumNat
<1>8. \A k, x : x \in facts => DrawMap(facts, k)[x] \in Nat
  <2> SUFFICES ASSUME NEW k, NEW x \in facts
               PROVE  DrawMap(facts, k)[x] \in Nat
    OBVIOUS
  <2> DEFINE D == Draws(facts, x, k)
  <2>1. D \in SUBSET facts
    BY DEF Draws
  <2> HIDE DEF D
  <2>2. IsFiniteSet(D) /\ \A y \in D : y.pins \in Int
    BY <1>5, <2>1, FS_Subset
  <2>3. PinsOf(D) = SumOf(D, PinsMap(facts))
    BY <2>1, <2>2, PinsOfIs
  <2>4. \A y \in D : PinsMap(facts)[y] \in Nat
    BY <1>5, <2>1 DEF PinsMap
  <2>5. SumOf(D, PinsMap(facts)) \in Nat
    BY <2>2, <2>4, SumNat
  <2> QED
    BY <2>3, <2>5 DEF DrawMap, D
<1>9. b \in Nat
  <2> DEFINE S == UpTo(Strikes(facts), n)
  <2>1. S \in SUBSET facts
    BY DEF UpTo, Strikes
  <2> HIDE DEF S
  <2>2. IsFiniteSet(S) /\ \A x \in S : DrawMap(facts, 2)[x] \in Nat
    BY <1>5, <1>8, <2>1, FS_Subset
  <2>3. SumOf(S, DrawMap(facts, 2)) \in Nat
    BY <2>2, SumNat
  <2> QED
    BY <2>3 DEF S
<1>10. c \in Nat
  <2> DEFINE S == UpTo(Spares(facts), n)
  <2>1. S \in SUBSET facts
    BY DEF UpTo, Spares
  <2> HIDE DEF S
  <2>2. IsFiniteSet(S) /\ \A x \in S : DrawMap(facts, 1)[x] \in Nat
    BY <1>5, <1>8, <2>1, FS_Subset
  <2>3. SumOf(S, DrawMap(facts, 1)) \in Nat
    BY <2>2, SumNat
  <2> QED
    BY <2>3 DEF S
<1> HIDE DEF a, b, c
<1> QED
  BY <1>1, <1>4, <1>6, <1>7, <1>9, <1>10

\* The sums of computeGameSetSummary and of the pins knocked down in games.
FinalMap(S) == [e \in S |-> e.final]
SumFinals(S) == LET final(e) == e.final IN Sum(S, final)
KnockedMap == [g \in Game |-> PinsOf(Facts(g))]
SumKnocked(S) == LET knocked(g) == PinsOf(Facts(g)) IN Sum(S, knocked)

LEMMA SumFinalsIs ==
  ASSUME NEW S, IsFiniteSet(S), \A e \in S : e.final \in Int
  PROVE  SumFinals(S) = SumOf(S, FinalMap(S))
<1> DEFINE u(x) == x.final
           v == [x \in S |-> x.final]
<1>1. \A s \in SUBSET S : s # {} => (CHOOSE x \in s : TRUE) \in S
  OBVIOUS
<1>2. PICK h : Totaling(v, S, h)
  BY TotalExists
<1>3. h = [s \in SUBSET S |->
             IF s = {} THEN 0
             ELSE u(CHOOSE x \in s : TRUE) + h[s \ {CHOOSE x \in s : TRUE}]]
  BY <1>1, <1>2, Zenon DEF Totaling
<1>4. PICK g : /\ g = [s \in SUBSET S |->
                         IF s = {} THEN 0
                         ELSE u(CHOOSE x \in s : TRUE) + g[s \ {CHOOSE x \in s : TRUE}]]
               /\ SumFinals(S) = g[S]
  BY <1>3 DEF SumFinals, Sum, MapThenSumSet, MapThenFoldSet
<1>5. Totaling(v, S, g)
  BY <1>1, <1>4, Zenon DEF Totaling
<1>6. PICK k : Totaling(FinalMap(S), S, k) /\ SumOf(S, FinalMap(S)) = k[S]
  BY SumOfIs
<1>7. \A x \in S : v[x] \in Int /\ FinalMap(S)[x] = v[x]
  BY DEF FinalMap
<1> HIDE DEF v
<1>8. k[S] = g[S]
  BY <1>5, <1>6, <1>7, EqualTotals
<1> QED
  BY <1>4, <1>6, <1>8

LEMMA SumKnockedIs ==
  ASSUME NEW S \in SUBSET Game, IsFiniteSet(S), \A g \in S : PinsOf(Facts(g)) \in Int
  PROVE  SumKnocked(S) = SumOf(S, KnockedMap)
<1> DEFINE u(x) == PinsOf(Facts(x))
           v == [x \in S |-> PinsOf(Facts(x))]
<1>1. \A s \in SUBSET S : s # {} => (CHOOSE x \in s : TRUE) \in S
  OBVIOUS
<1>2. PICK h : Totaling(v, S, h)
  BY TotalExists
<1>3. h = [s \in SUBSET S |->
             IF s = {} THEN 0
             ELSE u(CHOOSE x \in s : TRUE) + h[s \ {CHOOSE x \in s : TRUE}]]
  BY <1>1, <1>2, Zenon DEF Totaling
<1>4. PICK g : /\ g = [s \in SUBSET S |->
                         IF s = {} THEN 0
                         ELSE u(CHOOSE x \in s : TRUE) + g[s \ {CHOOSE x \in s : TRUE}]]
               /\ SumKnocked(S) = g[S]
  BY <1>3 DEF SumKnocked, Sum, MapThenSumSet, MapThenFoldSet
<1>5. Totaling(v, S, g)
  BY <1>1, <1>4, Zenon DEF Totaling
<1>6. PICK k : Totaling(KnockedMap, S, k) /\ SumOf(S, KnockedMap) = k[S]
  BY SumOfIs
<1>7. \A x \in S : v[x] \in Int /\ KnockedMap[x] = v[x]
  BY DEF KnockedMap
<1> HIDE DEF v
<1>8. k[S] = g[S]
  BY <1>5, <1>6, <1>7, EqualTotals
<1> QED
  BY <1>4, <1>6, <1>8
\* The history of the app, and the games it has a final score for.
History == {HistoryEntry(g, Facts(g)) : g \in {h \in Game : games[h] = "live"}}
CompletedGames == {g \in Game : games[g] = "live" /\ Status(Facts(g)) = "COMPLETED"}
EntryOf == [g \in Game |-> HistoryEntry(g, Facts(g))]

LEMMA EntryIs ==
  ASSUME IInv, NEW g \in Game
  PROVE  /\ EntryOf[g].game = g
         /\ Status(Facts(g)) # "COMPLETED" => EntryOf[g].status # "complete"
         /\ Status(Facts(g)) = "COMPLETED" =>
              /\ EntryOf[g].status = "complete"
              /\ EntryOf[g].final \in Nat /\ EntryOf[g].final # Null
              /\ PinsOf(Facts(g)) \in Nat /\ PinsOf(Facts(g)) <= EntryOf[g].final
<1>1. EntryOf[g] = HistoryEntry(g, Facts(g))
  BY DEF EntryOf
<1>2. Balls(Facts(g))
  BY FactsAreBalls
<1>3. ASSUME Status(Facts(g)) = "COMPLETED"
      PROVE  /\ EntryOf[g].status = "complete" /\ EntryOf[g].final = DeriveGame(Facts(g)).final
             /\ DeriveGame(Facts(g)).final \in Nat /\ DeriveGame(Facts(g)).final # Null
             /\ PinsOf(Facts(g)) \in Nat /\ PinsOf(Facts(g)) <= DeriveGame(Facts(g)).final
  <2>1. /\ DeriveGame(Facts(g)).final \in Nat
        /\ PinsOf(Facts(g)) \in Nat /\ PinsOf(Facts(g)) <= DeriveGame(Facts(g)).final
    BY <1>2, <1>3, CompletedFinal
  <2>2. DeriveGame(Facts(g)).final # Null
    BY <2>1 DEF Null
  <2> QED
    BY <1>1, <1>3, <2>1, <2>2 DEF HistoryEntry
<1>4. EntryOf[g].game = g
  BY <1>1 DEF HistoryEntry
<1>5. Status(Facts(g)) # "COMPLETED" => EntryOf[g].status # "complete"
  BY <1>1 DEF HistoryEntry
<1> QED
  BY <1>3, <1>4, <1>5

LEMMA QualifyingAre ==
  ASSUME IInv
  PROVE  /\ Qualifying(History) = {EntryOf[g] : g \in CompletedGames}
         /\ {e.game : e \in Qualifying(History)} = CompletedGames
         /\ IsFiniteSet(CompletedGames) /\ IsFiniteSet(Qualifying(History))
         /\ \A e \in Qualifying(History) : e.final \in Nat
<1> DEFINE C == CompletedGames
           Q == Qualifying(History)
<1>1. History = {EntryOf[g] : g \in {h \in Game : games[h] = "live"}}
  BY DEF History, EntryOf
<1>2. Q = {e \in History : e.status = "complete" /\ e.final # Null}
  BY DEF Qualifying
<1>3. \A e : e \in Q <=> \E g \in C : e = EntryOf[g]
  <2> SUFFICES ASSUME NEW e
               PROVE  e \in Q <=> \E g \in C : e = EntryOf[g]
    OBVIOUS
  <2>1. ASSUME e \in Q
        PROVE  \E g \in C : e = EntryOf[g]
    <3>1. e \in History /\ e.status = "complete"
      BY <1>2, <2>1
    <3>2. PICK g \in Game : games[g] = "live" /\ e = EntryOf[g]
      BY <1>1, <3>1
    <3>3. Status(Facts(g)) = "COMPLETED"
      BY <3>1, <3>2, EntryIs
    <3> QED
      BY <3>2, <3>3 DEF CompletedGames
  <2>2. ASSUME NEW g \in C, e = EntryOf[g]
        PROVE  e \in Q
    <3>1. g \in Game /\ games[g] = "live" /\ Status(Facts(g)) = "COMPLETED"
      BY DEF CompletedGames
    <3>2. e.status = "complete" /\ e.final # Null
      BY <2>2, <3>1, EntryIs
    <3>3. e \in History
      BY <1>1, <2>2, <3>1
    <3> QED
      BY <1>2, <3>2, <3>3
  <2> QED
    BY <2>1, <2>2
<1>4. C \in SUBSET Game /\ \A g \in C : Status(Facts(g)) = "COMPLETED"
  BY DEF CompletedGames
<1> HIDE DEF C, Q
<1>5. IsFiniteSet(C)
  <2>1. IsFiniteSet(Game)
    BY FS_Interval, SessionAssumption DEF Game
  <2> QED
    BY <1>4, <2>1, FS_Subset
<1>6. IsFiniteSet(Q)
  <2> DEFINE m == [g \in C |-> EntryOf[g]]
  <2>1. m \in Surjection(C, Q)
    BY <1>3 DEF Surjection
  <2> HIDE DEF m
  <2> QED
    BY <1>5, <2>1, FS_Surjection
<1>7. \A g \in C : EntryOf[g].game = g /\ EntryOf[g].final \in Nat
  BY <1>4, EntryIs
<1>8. \A e \in Q : e.final \in Nat
  BY <1>3, <1>7
<1>9. Q = {EntryOf[g] : g \in C}
  BY <1>3
<1>10. {e.game : e \in Q} = C
  BY <1>3, <1>7
<1> QED
  BY <1>5, <1>6, <1>8, <1>9, <1>10 DEF C, Q

LEMMA TotalIsSum ==
  ASSUME NEW history
  PROVE  /\ Total(history) = SumFinals(Qualifying(history))
         /\ Total(Qualifying(history)) = Total(history)
<1>1. \A S : Total(S) = SumFinals(Qualifying(S))
  BY DEF Total, SumFinals
<1>2. Qualifying(Qualifying(history)) = Qualifying(history)
  BY DEF Qualifying
<1> QED
  BY <1>1, <1>2

LEMMA GamesAgree ==
  ASSUME IInv
  PROVE  TotalsAgree(History)
<1> DEFINE Q == Qualifying(History)
           C == CompletedGames
           finals == {e.final : e \in Q}
           n == Cardinality(Q)
           total == Total(History)
           set == GameSet(History)
<1>1. /\ Q = {EntryOf[g] : g \in C} /\ {e.game : e \in Q} = C
      /\ IsFiniteSet(C) /\ IsFiniteSet(Q) /\ \A e \in Q : e.final \in Nat
  BY QualifyingAre
<1>2. C = {g \in Game : games[g] = "live" /\ AnalyzeGame(Status(Facts(g)), {}).eligible}
  BY DEF CompletedGames, AnalyzeGame
<1>3. HomeMetrics(History).overall = [pins |-> total, games |-> n]
  <2>1. HomeMetrics(History).overall = [pins |-> Total(Q), games |-> Cardinality(Q)]
    BY DEF HomeMetrics
  <2>2. Total(Q) = total
    BY TotalIsSum
  <2> QED
    BY <2>1, <2>2
<1>4. /\ set.games = n /\ set.totalPins = total
      /\ set.high = (IF finals = {} THEN Null ELSE Max(finals))
      /\ set.low = (IF finals = {} THEN Null ELSE Min(finals))
  BY DEF GameSet
<1>5. total = SumOf(Q, FinalMap(Q))
  <2>1. total = SumFinals(Q)
    BY TotalIsSum
  <2> HIDE DEF Q
  <2>2. SumFinals(Q) = SumOf(Q, FinalMap(Q))
    BY <1>1, SumFinalsIs
  <2> QED
    BY <2>1, <2>2
<1> HIDE DEF Q, C, n, total, set
<1>6. ASSUME C # {}
      PROVE  total \in (set.low * n)..(set.high * n)
  <2>1. Q # {}
    BY <1>1, <1>6
  <2>2. finals \in SUBSET Nat /\ finals # {} /\ \A e \in Q : e.final \in finals
    BY <1>1, <2>1
  <2>3. IsFiniteSet(finals)
    <3> DEFINE m == FinalMap(Q)
    <3>1. m \in Surjection(Q, finals)
      BY DEF FinalMap, Surjection
    <3> HIDE DEF m, finals
    <3> QED
      BY <1>1, <3>1, FS_Surjection
  <2> HIDE DEF finals
  <2>4. /\ Max(finals) \in Nat /\ Min(finals) \in Nat
        /\ \A x \in finals : x <= Max(finals) /\ Min(finals) <= x
    BY <2>2, <2>3, ExtremesAre
  <2>5. \A e \in Q : FinalMap(Q)[e] \in Min(finals)..Max(finals)
    BY <1>1, <2>2, <2>4 DEF FinalMap
  <2>6. SumOf(Q, FinalMap(Q)) \in (Min(finals) * Cardinality(Q))..(Max(finals) * Cardinality(Q))
    <3> DEFINE low == Min(finals)
               high == Max(finals)
               w == FinalMap(Q)
    <3>1. low \in Int /\ high \in Int /\ \A e \in Q : w[e] \in low..high
      BY <2>4, <2>5
    <3> HIDE DEF low, high, w
    <3>2. SumOf(Q, w) \in (low * Cardinality(Q))..(high * Cardinality(Q))
      BY <1>1, <3>1, SumBetween
    <3> QED
      BY <3>2 DEF low, high, w
  <2>7. set.low = Min(finals) /\ set.high = Max(finals)
    BY <1>4, <2>2 DEF finals
  <2> QED
    BY <1>5, <2>6, <2>7 DEF n
<1>7. total >= SumKnocked(C)
  <2> DEFINE m == [g \in C |-> EntryOf[g]]
  <2>1. /\ C \in SUBSET Game
        /\ \A g \in C : /\ EntryOf[g].game = g /\ EntryOf[g].final \in Nat
                        /\ PinsOf(Facts(g)) \in Nat /\ PinsOf(Facts(g)) <= EntryOf[g].final
    BY EntryIs DEF C, CompletedGames
  <2>2. \A g \in C : m[g] = EntryOf[g] /\ m[g] \in Q
    BY <1>1
  <2>3. Q = {m[g] : g \in C}
    BY <1>1
  <2> HIDE DEF m
  <2>4. \A x, y \in C : m[x] = m[y] => x = y
    BY <2>1, <2>2
  <2>5. \A g \in C : /\ KnockedMap[g] \in Int /\ FinalMap(Q)[m[g]] \in Int
                     /\ KnockedMap[g] <= FinalMap(Q)[m[g]]
    <3> SUFFICES ASSUME NEW g \in C
                 PROVE  /\ KnockedMap[g] \in Int /\ FinalMap(Q)[m[g]] \in Int
                        /\ KnockedMap[g] <= FinalMap(Q)[m[g]]
      OBVIOUS
    <3>1. KnockedMap[g] = PinsOf(Facts(g))
      BY <2>1 DEF KnockedMap
    <3>2. FinalMap(Q)[m[g]] = EntryOf[g].final
      BY <2>2 DEF FinalMap
    <3> QED
      BY <2>1, <3>1, <3>2
  <2>6. SumOf(C, KnockedMap) <= SumOf(Q, FinalMap(Q))
    <3>1. \A e : e \in Q <=> \E g \in C : e = m[g]
      BY <2>3
    <3> DEFINE w == FinalMap(Q)
    <3>2. \A g \in C : KnockedMap[g] \in Int /\ w[m[g]] \in Int /\ KnockedMap[g] <= w[m[g]]
      BY <2>5
    <3> HIDE DEF w
    <3>3. SumOf(C, KnockedMap) <= SumOf(Q, w)
      BY <1>1, <2>4, <3>1, <3>2, SumImage
    <3> QED
      BY <3>3 DEF w
  <2>7. SumKnocked(C) = SumOf(C, KnockedMap) /\ SumOf(C, KnockedMap) \in Int
    <3>1. \A g \in C : PinsOf(Facts(g)) \in Int /\ KnockedMap[g] \in Int
      BY <2>1, <2>5
    <3> QED
      BY <1>1, <2>1, <3>1, SumKnockedIs, SumSame
  <2>8. SumOf(Q, FinalMap(Q)) \in Int
    <3>1. \A e \in Q : FinalMap(Q)[e] \in Int
      BY <1>1 DEF FinalMap
    <3> QED
      BY <1>1, <3>1, SumSame
  <2> QED
    BY <1>5, <2>6, <2>7, <2>8
<1>8. /\ {e.game : e \in Q} = C
      /\ C # {} => /\ HomeMetrics(History).overall = [pins |-> set.totalPins, games |-> set.games]
                   /\ set.totalPins \in (set.low * set.games)..(set.high * set.games)
                   /\ set.totalPins >= SumKnocked(C)
  BY <1>1, <1>3, <1>4, <1>6, <1>7
<1> QED
  BY <1>2, <1>8 DEF TotalsAgree, SumKnocked, Q, set
\* views show the balls of facts.
Shown(views, facts) ==
  /\ IsFiniteSet(views)
  /\ \A v \in views : v.frame \in Frames
  /\ \A f \in Frames :
       /\ \A v \in InFrame(views, f) : /\ v.roll \in 1..Len(Deliveries(facts, f))
                                       /\ v.pins = Deliveries(facts, f)[v.roll]
       /\ \A r \in 1..Len(Deliveries(facts, f)) : \E v \in InFrame(views, f) : v.roll = r
       /\ \A v, w \in InFrame(views, f) : v.roll = w.roll => v = w

LEMMA ViewsShown ==
  ASSUME IInv, NEW g \in Game, NEW facts, facts = Facts(g), Legal(facts)
  PROVE  Shown(Views(g), facts)
<1> DEFINE view(x) == [id |-> x.id, frame |-> x.frame, roll |-> x.roll, pins |-> x.pins,
                       version |-> x.version,
                       standing |-> IF ActiveDetails(x) = {} THEN NoSet ELSE Detail(x).standing,
                       basis |-> IF ActiveDetails(x) = {} THEN Null ELSE Detail(x).basis,
                       status |-> DetailStatus(Facts(g), x)]
           V == {view(x) : x \in facts}
<1>1. Views(g) = V
  BY DEF Views
<1>2. \A x \in facts : /\ view(x) \in V /\ view(x).frame = x.frame
                       /\ view(x).roll = x.roll /\ view(x).pins = x.pins
  OBVIOUS
<1>3. \A v \in V : \E x \in facts : v = view(x)
  OBVIOUS
<1>4. IsFiniteSet(facts) /\ \A x \in facts : x.frame \in Frames
  BY DEF Legal, Balls, NumberingIllegal
<1>5. IsFiniteSet(V)
  <2> DEFINE m == [x \in facts |-> view(x)]
  <2>1. m \in Surjection(facts, V)
    BY DEF Surjection
  <2> HIDE DEF m, V
  <2> QED
    BY <1>4, <2>1, FS_Surjection
<1> HIDE DEF view, V
<1>6. ASSUME NEW f \in Frames
      PROVE  /\ \A v \in InFrame(V, f) : /\ v.roll \in 1..Len(Deliveries(facts, f))
                                         /\ v.pins = Deliveries(facts, f)[v.roll]
             /\ \A r \in 1..Len(Deliveries(facts, f)) : \E v \in InFrame(V, f) : v.roll = r
             /\ \A v, w \in InFrame(V, f) : v.roll = w.roll => v = w
  <2> DEFINE d == Deliveries(facts, f)
  <2>1. /\ \A x \in InFrame(facts, f) : x.roll \in 1..Len(d) /\ x.pins = d[x.roll]
        /\ \A r \in 1..Len(d) : \E x \in InFrame(facts, f) : x.roll = r
        /\ \A x, y \in InFrame(facts, f) : x.roll = y.roll => x = y
    <3>1. Told(facts, f, d)
      BY LegalLine DEF Line
    <3> HIDE DEF d
    <3> QED
      BY <3>1 DEF Told
  <2> HIDE DEF d
  <2>2. \A v \in InFrame(V, f) : \E x \in InFrame(facts, f) :
          v = view(x) /\ v.roll = x.roll /\ v.pins = x.pins
    BY <1>2, <1>3 DEF InFrame
  <2>3. \A x \in InFrame(facts, f) : view(x) \in InFrame(V, f) /\ view(x).roll = x.roll
    BY <1>2 DEF InFrame
  <2>4. \A v \in InFrame(V, f) : v.roll \in 1..Len(d) /\ v.pins = d[v.roll]
    BY <2>1, <2>2
  <2>5. \A r \in 1..Len(d) : \E v \in InFrame(V, f) : v.roll = r
    BY <2>1, <2>3
  <2>6. \A v, w \in InFrame(V, f) : v.roll = w.roll => v = w
    BY <2>1, <2>2
  <2> QED
    BY <2>4, <2>5, <2>6 DEF d
<1>7. \A v \in V : v.frame \in Frames
  BY <1>2, <1>3, <1>4
<1> QED
  BY <1>1, <1>5, <1>6, <1>7 DEF Shown

StrikeFrames(facts) == {f \in Frames : Strike(Deliveries(facts, f))}
SpareFrames(facts) == {f \in Frames : Spare(Deliveries(facts, f))}
OpenFrames(facts) == {f \in Frames : Open(Deliveries(facts, f))}

\* A frame of a completed game is exactly one of the three.
LEMMA OneKind ==
  ASSUME NEW facts, Legal(facts), \A e \in Frames : FrameComplete(e, Deliveries(facts, e)),
         NEW f \in Frames
  PROVE  /\ f \in StrikeFrames(facts) => f \notin SpareFrames(facts) /\ f \notin OpenFrames(facts)
         /\ f \in SpareFrames(facts) => f \notin OpenFrames(facts)
         /\ f \in StrikeFrames(facts) \/ f \in SpareFrames(facts) \/ f \in OpenFrames(facts)
<1> DEFINE d == Deliveries(facts, f)
<1>1. Told(facts, f, d) /\ FrameComplete(f, d)
  BY LegalLine DEF Line
<1>2. /\ f \in StrikeFrames(facts) <=> Strike(d)
      /\ f \in SpareFrames(facts) <=> Spare(d)
      /\ f \in OpenFrames(facts) <=> Open(d)
  BY DEF StrikeFrames, SpareFrames, OpenFrames
<1> HIDE DEF d
<1>3. PICK n \in 0..3 : n = Len(d)
  BY <1>1 DEF Told
<1>4. ~Strike(d) => n >= 2
  BY <1>1, <1>3 DEF FrameComplete
<1>5. (Spare(d) => ~Strike(d)) /\ (Open(d) => ~Strike(d) /\ ~Spare(d))
  BY DEF Spare, Open
<1>6. ~Strike(d) /\ ~Spare(d) => Open(d)
  BY <1>3, <1>4 DEF Open
<1> QED
  BY <1>2, <1>5, <1>6

\* What the first ball of a frame, as shown, tells of the frame.
LEMMA OpeningTells ==
  ASSUME NEW facts, Legal(facts), \A e \in Frames : FrameComplete(e, Deliveries(facts, e)),
         NEW views, Shown(views, facts), NEW v \in Openings(views)
  PROVE  /\ v.frame \in Frames /\ v \in views
         /\ v.pins = Pins <=> v.frame \in StrikeFrames(facts)
         /\ v.pins < Pins <=> v.frame \notin StrikeFrames(facts)
         /\ v.frame \notin StrikeFrames(facts) =>
              /\ Has(views, v.frame, 2)
              /\ Converted(views, v) <=> v.frame \in SpareFrames(facts)
<1> DEFINE f == v.frame
           d == Deliveries(facts, f)
<1>1. f \in Frames /\ v \in views /\ v \in InFrame(views, f) /\ v.roll = 1
  BY DEF Shown, Openings, InFrame
<1>2. Told(facts, f, d) /\ FrameComplete(f, d)
  BY <1>1, LegalLine DEF Line
<1>3. /\ f \in StrikeFrames(facts) <=> Strike(d)
      /\ f \in SpareFrames(facts) <=> Spare(d)
  BY <1>1 DEF StrikeFrames, SpareFrames
<1>4. /\ v.roll \in 1..Len(d) /\ v.pins = d[v.roll]
      /\ \A w \in InFrame(views, f) : w.pins = d[w.roll]
      /\ \A r \in 1..Len(d) : \E w \in InFrame(views, f) : w.roll = r
      /\ \A w, x \in InFrame(views, f) : w.roll = x.roll => w = x
  BY <1>1 DEF Shown
<1> HIDE DEF d
<1>5. PICK n \in 0..3 : n = Len(d)
  BY <1>2 DEF Told
<1>6. \A i \in 1..n : d[i] \in 0..Pins
  <2>1. d \in Seq(0..Pins)
    BY <1>2 DEF Told
  <2> QED
    BY <1>5, <2>1, ElementsOf
<1>7. v.pins = d[1] /\ n >= 1 /\ d[1] \in 0..Pins
  <2>1. 1 \in 1..n
    BY <1>1, <1>4, <1>5
  <2> QED
    BY <1>1, <1>4, <1>6, <2>1
<1>8. Strike(d) <=> d[1] = Pins
  BY <1>5, <1>7 DEF Strike
<1>9. ASSUME ~Strike(d)
      PROVE  Has(views, f, 2) /\ (Converted(views, v) <=> Spare(d))
  <2>1. n >= 2
    BY <1>2, <1>5, <1>9 DEF FrameComplete
  <2>2. 2 \in 1..Len(d)
    BY <1>5, <2>1
  <2>3. PICK w \in InFrame(views, f) : w.roll = 2
    BY <1>4, <2>2
  <2>4. w.pins = d[2]
    BY <1>4, <2>3
  <2>5. w \in views /\ w.frame = f /\ \A x \in views : x.frame = f /\ x.roll = 2 => x = w
    BY <1>4, <2>3 DEF InFrame
  <2>6. At(views, f, 2) = w
    BY <2>3, <2>5 DEF At
  <2>7. Has(views, f, 2)
    BY <2>3, <2>5 DEF Has
  <2>8. Converted(views, v) <=> d[1] + d[2] = Pins
    BY <1>7, <2>4, <2>6 DEF Converted
  <2>9. Spare(d) <=> d[1] + d[2] = Pins
    BY <1>5, <1>9, <2>1 DEF Spare
  <2> QED
    BY <2>7, <2>8, <2>9
<1>10. v.pins < Pins <=> ~(v.pins = Pins)
  BY <1>7, ScoringAssumption
<1> QED
  BY <1>1, <1>3, <1>7, <1>8, <1>9, <1>10

LEMMA OpeningCount ==
  ASSUME NEW facts, Legal(facts), \A e \in Frames : FrameComplete(e, Deliveries(facts, e)),
         NEW views, Shown(views, facts), NEW Q \in SUBSET Frames,
         NEW K, \A v : v \in K <=> v \in Openings(views) /\ v.frame \in Q
  PROVE  IsFiniteSet(K) /\ Cardinality(K) = Cardinality(Q) /\ IsFiniteSet(Q)
<1> DEFINE m == [v \in K |-> v.frame]
<1>1. K \in SUBSET views
  BY DEF Openings
<1>2. IsFiniteSet(K)
  BY <1>1, FS_Subset DEF Shown
<1>3. \A v, w \in K : v.frame = w.frame => v = w
  <2> SUFFICES ASSUME NEW v \in K, NEW w \in K, v.frame = w.frame
               PROVE  v = w
    OBVIOUS
  <2>1. v \in InFrame(views, v.frame) /\ w \in InFrame(views, v.frame) /\ v.roll = 1 /\ w.roll = 1
    BY DEF Openings, InFrame
  <2> QED
    BY <2>1 DEF Shown
<1>4. \A f \in Q : \E v \in K : v.frame = f
  <2> SUFFICES ASSUME NEW f \in Q
               PROVE  \E v \in K : v.frame = f
    OBVIOUS
  <2> DEFINE d == Deliveries(facts, f)
  <2>1. Told(facts, f, d) /\ FrameComplete(f, d)
    BY LegalLine DEF Line
  <2>2. \A r \in 1..Len(d) : \E v \in InFrame(views, f) : v.roll = r
    BY DEF Shown
  <2> HIDE DEF d
  <2>3. PICK n \in 0..3 : n = Len(d)
    BY <2>1 DEF Told
  <2>4. n >= 1
    BY <2>1, <2>3 DEF FrameComplete
  <2>5. 1 \in 1..Len(d)
    BY <2>3, <2>4
  <2>6. PICK v \in InFrame(views, f) : v.roll = 1
    BY <2>2, <2>5
  <2> QED
    BY <2>6 DEF InFrame, Openings
<1>5. \A v \in K : v.frame \in Q
  OBVIOUS
<1>6. m \in Bijection(K, Q)
  BY <1>3, <1>4, <1>5 DEF Bijection, Injection, Surjection, IsInjective
<1>7. ExistsBijection(K, Q)
  BY <1>6 DEF ExistsBijection
<1> QED
  BY <1>2, <1>7, FS_Bijection
\* The counts of the analyses, over the first balls, are those of the sheet,
\* over the frames.
Early == 1..(FrameCount - 1)
FirstStrikes(views) == {v \in Openings(views) : v.pins = Pins}
Closed(views) ==
  {v \in Openings(views) : v.pins < Pins /\ Has(views, v.frame, 2) /\ Converted(views, v)}

LEMMA StrikeCounts ==
  ASSUME NEW facts, Legal(facts), \A e \in Frames : FrameComplete(e, Deliveries(facts, e)),
         NEW views, Shown(views, facts)
  PROVE  /\ Cardinality(Openings(views)) = FrameCount
         /\ Cardinality(FirstStrikes(views)) = Cardinality(StrikeFrames(facts))
         /\ Cardinality(FirstStrikes(views) \cup Closed(views)) =
              Cardinality(StrikeFrames(facts)) + Cardinality(SpareFrames(facts))
         /\ Cardinality({v \in FirstStrikes(views) : v.frame < FrameCount}) =
              Cardinality(StrikeFrames(facts) \cap Early)
<1> DEFINE O == Openings(views)
           A == StrikeFrames(facts)
           B == SpareFrames(facts)
           early == {v \in FirstStrikes(views) : v.frame < FrameCount}
<1>1. \A v \in O : /\ v.frame \in Frames
                   /\ v.pins = Pins <=> v.frame \in A
                   /\ v.pins < Pins <=> v.frame \notin A
                   /\ v.frame \notin A => Has(views, v.frame, 2)
                                          /\ (Converted(views, v) <=> v.frame \in B)
  BY OpeningTells
<1>2. A \in SUBSET Frames /\ B \in SUBSET Frames /\ A \cap B = {}
  <2>1. \A f \in Frames : f \in A => f \notin B
    BY OneKind
  <2> QED
    BY <2>1 DEF StrikeFrames, SpareFrames
<1> HIDE DEF O, A, B
<1>3. Cardinality(O) = FrameCount
  <2>1. \A v : v \in O <=> v \in Openings(views) /\ v.frame \in Frames
    BY <1>1 DEF O
  <2>2. Cardinality(O) = Cardinality(Frames)
    BY <2>1, OpeningCount
  <2>3. Cardinality(Frames) = FrameCount
    BY FS_Interval, ScoringAssumption DEF Frames
  <2> QED
    BY <2>2, <2>3
<1>4. /\ IsFiniteSet(FirstStrikes(views)) /\ IsFiniteSet(A)
      /\ Cardinality(FirstStrikes(views)) = Cardinality(A)
  <2>1. \A v : v \in FirstStrikes(views) <=> v \in Openings(views) /\ v.frame \in A
    BY <1>1 DEF FirstStrikes, O
  <2> QED
    BY <1>2, <2>1, OpeningCount
<1>5. /\ IsFiniteSet(Closed(views)) /\ IsFiniteSet(B)
      /\ Cardinality(Closed(views)) = Cardinality(B)
  <2>1. \A v : v \in Closed(views) <=> v \in Openings(views) /\ v.frame \in B
    BY <1>1, <1>2 DEF Closed, O
  <2> QED
    BY <1>2, <2>1, OpeningCount
<1>6. Cardinality(FirstStrikes(views) \cup Closed(views)) = Cardinality(A) + Cardinality(B)
  <2>1. FirstStrikes(views) \cap Closed(views) = {}
    BY ScoringAssumption DEF FirstStrikes, Closed
  <2>2. Cardinality(FirstStrikes(views) \cap Closed(views)) = 0
    BY <2>1, FS_EmptySet
  <2>3. Cardinality(FirstStrikes(views) \cup Closed(views)) =
          Cardinality(FirstStrikes(views)) + Cardinality(Closed(views))
            - Cardinality(FirstStrikes(views) \cap Closed(views))
    BY <1>4, <1>5, FS_Union
  <2>4. Cardinality(A) \in Nat /\ Cardinality(B) \in Nat
    BY <1>4, <1>5, FS_CardinalityType
  <2> QED
    BY <1>4, <1>5, <2>2, <2>3, <2>4
<1>7. Cardinality(early) = Cardinality(A \cap Early)
  <2> DEFINE Q == A \cap Early
  <2>1. Q \in SUBSET Frames
    BY <1>2
  <2>2. \A f \in Frames : f < FrameCount <=> f \in Early
    BY ScoringAssumption DEF Frames, Early
  <2>3. \A v : v \in early <=> v \in Openings(views) /\ v.frame \in Q
    BY <1>1, <2>2 DEF FirstStrikes, O
  <2> HIDE DEF Q, early
  <2>4. Cardinality(early) = Cardinality(Q)
    BY <2>1, <2>3, OpeningCount
  <2> QED
    BY <2>4 DEF Q
<1> QED
  BY <1>3, <1>4, <1>6, <1>7 DEF O, A, B

ConvertedChances(views) == {v \in SpareChances(views) : Converted(views, v)}

LEMMA ChanceCounts ==
  ASSUME NEW facts, Legal(facts), \A e \in Frames : FrameComplete(e, Deliveries(facts, e)),
         NEW views, Shown(views, facts)
  PROVE  /\ Cardinality(ConvertedChances(views)) = Cardinality(SpareFrames(facts) \cap Early)
         /\ Cardinality(SpareChances(views)) =
              Cardinality(SpareFrames(facts) \cap Early) + Cardinality(OpenFrames(facts) \cap Early)
<1> DEFINE O == Openings(views)
           A == StrikeFrames(facts)
           B == SpareFrames(facts)
           C == OpenFrames(facts)
           Q == B \cap Early
           R == C \cap Early
<1>1. \A v \in O : /\ v.frame \in Frames
                   /\ v.pins < Pins <=> v.frame \notin A
                   /\ v.frame \notin A => Has(views, v.frame, 2)
                                          /\ (Converted(views, v) <=> v.frame \in B)
  BY OpeningTells
<1>2. \A f \in Frames : /\ f \in A => f \notin B /\ f \notin C
                        /\ f \in B => f \notin C
                        /\ f \in A \/ f \in B \/ f \in C
  BY OneKind
<1>3. B \in SUBSET Frames /\ C \in SUBSET Frames
  BY DEF SpareFrames, OpenFrames
<1> HIDE DEF O, A, B, C
<1>4. \A f \in Frames : f < FrameCount <=> f \in Early
  BY ScoringAssumption DEF Frames, Early
<1>5. /\ Q \in SUBSET Frames /\ R \in SUBSET Frames /\ Q \cup R \in SUBSET Frames /\ Q \cap R = {}
  BY <1>2, <1>3
<1>6. \A v : v \in SpareChances(views) <=> v \in Openings(views) /\ v.frame \in Q \cup R
  BY <1>1, <1>2, <1>4 DEF SpareChances, O
<1>7. \A v : v \in ConvertedChances(views) <=> v \in Openings(views) /\ v.frame \in Q
  BY <1>1, <1>2, <1>4 DEF ConvertedChances, SpareChances, O
<1> HIDE DEF Q, R
<1>8. Cardinality(ConvertedChances(views)) = Cardinality(Q) /\ IsFiniteSet(Q)
  BY <1>5, <1>7, OpeningCount
<1>9. Cardinality(SpareChances(views)) = Cardinality(Q \cup R) /\ IsFiniteSet(Q \cup R)
  BY <1>5, <1>6, OpeningCount
<1>10. IsFiniteSet(R)
  BY <1>9, FS_Subset
<1>11. Cardinality(Q \cup R) = Cardinality(Q) + Cardinality(R)
  <2>1. Cardinality(Q \cap R) = 0
    BY <1>5, FS_EmptySet
  <2>2. Cardinality(Q \cup R) = Cardinality(Q) + Cardinality(R) - Cardinality(Q \cap R)
    BY <1>8, <1>10, FS_Union
  <2>3. Cardinality(Q) \in Nat /\ Cardinality(R) \in Nat
    BY <1>8, <1>10, FS_CardinalityType
  <2> QED
    BY <2>1, <2>2, <2>3
<1> QED
  BY <1>8, <1>9, <1>11 DEF Q, R, B, C
\* The sums of sparePinSplit.
Opportunities(B) == [s \in DOMAIN B |-> B[s].opportunities]
Conversions(B) == [s \in DOMAIN B |-> B[s].conversions]
SumOpportunities(B, L) == LET opportunities(s) == B[s].opportunities IN Sum(L, opportunities)
SumConversions(B, L) == LET conversions(s) == B[s].conversions IN Sum(L, conversions)

LEMMA SumOpportunitiesIs ==
  ASSUME NEW B, NEW L \in SUBSET DOMAIN B, IsFiniteSet(L), \A s \in L : B[s].opportunities \in Int
  PROVE  SumOpportunities(B, L) = SumOf(L, Opportunities(B))
<1> DEFINE u(x) == B[x].opportunities
           v == [x \in L |-> B[x].opportunities]
<1>1. \A s \in SUBSET L : s # {} => (CHOOSE x \in s : TRUE) \in L
  OBVIOUS
<1>2. PICK h : Totaling(v, L, h)
  BY TotalExists
<1>3. h = [s \in SUBSET L |->
             IF s = {} THEN 0
             ELSE u(CHOOSE x \in s : TRUE) + h[s \ {CHOOSE x \in s : TRUE}]]
  BY <1>1, <1>2, Zenon DEF Totaling
<1>4. PICK g : /\ g = [s \in SUBSET L |->
                         IF s = {} THEN 0
                         ELSE u(CHOOSE x \in s : TRUE) + g[s \ {CHOOSE x \in s : TRUE}]]
               /\ SumOpportunities(B, L) = g[L]
  BY <1>3 DEF SumOpportunities, Sum, MapThenSumSet, MapThenFoldSet
<1>5. Totaling(v, L, g)
  BY <1>1, <1>4, Zenon DEF Totaling
<1>6. PICK k : Totaling(Opportunities(B), L, k) /\ SumOf(L, Opportunities(B)) = k[L]
  BY SumOfIs
<1>7. \A x \in L : v[x] \in Int /\ Opportunities(B)[x] = v[x]
  BY DEF Opportunities
<1> HIDE DEF v
<1>8. k[L] = g[L]
  BY <1>5, <1>6, <1>7, EqualTotals
<1> QED
  BY <1>4, <1>6, <1>8

LEMMA SumConversionsIs ==
  ASSUME NEW B, NEW L \in SUBSET DOMAIN B, IsFiniteSet(L), \A s \in L : B[s].conversions \in Int
  PROVE  SumConversions(B, L) = SumOf(L, Conversions(B))
<1> DEFINE u(x) == B[x].conversions
           v == [x \in L |-> B[x].conversions]
<1>1. \A s \in SUBSET L : s # {} => (CHOOSE x \in s : TRUE) \in L
  OBVIOUS
<1>2. PICK h : Totaling(v, L, h)
  BY TotalExists
<1>3. h = [s \in SUBSET L |->
             IF s = {} THEN 0
             ELSE u(CHOOSE x \in s : TRUE) + h[s \ {CHOOSE x \in s : TRUE}]]
  BY <1>1, <1>2, Zenon DEF Totaling
<1>4. PICK g : /\ g = [s \in SUBSET L |->
                         IF s = {} THEN 0
                         ELSE u(CHOOSE x \in s : TRUE) + g[s \ {CHOOSE x \in s : TRUE}]]
               /\ SumConversions(B, L) = g[L]
  BY <1>3 DEF SumConversions, Sum, MapThenSumSet, MapThenFoldSet
<1>5. Totaling(v, L, g)
  BY <1>1, <1>4, Zenon DEF Totaling
<1>6. PICK k : Totaling(Conversions(B), L, k) /\ SumOf(L, Conversions(B)) = k[L]
  BY SumOfIs
<1>7. \A x \in L : v[x] \in Int /\ Conversions(B)[x] = v[x]
  BY DEF Conversions
<1> HIDE DEF v
<1>8. k[L] = g[L]
  BY <1>5, <1>6, <1>7, EqualTotals
<1> QED
  BY <1>4, <1>6, <1>8

\* The spare chances whose leave is known, and those after a leave s.
KnownChances(views) == {v \in SpareChances(views) : Detailed(v)}
KnownOf(views, s) == {v \in KnownChances(views) : v.standing = s}
KnownConverted(views, s) == {v \in KnownOf(views, s) : Converted(views, v)}
KnownLeaves(views) == {v.standing : v \in KnownChances(views)}

LEMMA ByLeaveIs ==
  ASSUME NEW views
  PROVE  /\ DOMAIN AnalyzeSpares(views).byLeave = KnownLeaves(views)
         /\ \A s \in KnownLeaves(views) :
              /\ AnalyzeSpares(views).byLeave[s].opportunities = Cardinality(KnownOf(views, s))
              /\ AnalyzeSpares(views).byLeave[s].conversions = Cardinality(KnownConverted(views, s))
<1> DEFINE b == [s \in KnownLeaves(views) |->
                   [opportunities |-> Cardinality(KnownOf(views, s)),
                    conversions |-> Cardinality(KnownConverted(views, s))]]
<1>1. AnalyzeSpares(views).byLeave = b
  BY DEF AnalyzeSpares, KnownChances, KnownOf, KnownConverted, KnownLeaves
<1>2. DOMAIN b = KnownLeaves(views)
  OBVIOUS
<1>3. \A s \in KnownLeaves(views) :
        /\ b[s].opportunities = Cardinality(KnownOf(views, s))
        /\ b[s].conversions = Cardinality(KnownConverted(views, s))
  OBVIOUS
<1> HIDE DEF b
<1> QED
  BY <1>1, <1>2, <1>3
ConvertedIn(views, T) == {v \in T : Converted(views, v)}
SplitLeaves(views, single) == {s \in KnownLeaves(views) : (Cardinality(s) = 1) = single}

\* sparePinSplit adds up, over the leaves, what the focus areas count.
LEMMA SplitIs ==
  ASSUME NEW views, IsFiniteSet(views), NEW single \in BOOLEAN,
         NEW T, \A v : v \in T <=> v \in KnownChances(views) /\ (Cardinality(v.standing) = 1) = single
  PROVE  /\ SparePinSplit(AnalyzeSpares(views), single).opportunities = Cardinality(T)
         /\ SparePinSplit(AnalyzeSpares(views), single).conversions =
              Cardinality(ConvertedIn(views, T))
<1> DEFINE B == AnalyzeSpares(views).byLeave
           L == SplitLeaves(views, single)
           K == KnownChances(views)
           C == {v \in K : Converted(views, v)}
           label == [v \in K |-> v.standing]
           split == SparePinSplit(AnalyzeSpares(views), single)
<1>1. /\ DOMAIN B = KnownLeaves(views)
      /\ \A s \in KnownLeaves(views) :
           /\ B[s].opportunities = Cardinality(KnownOf(views, s))
           /\ B[s].conversions = Cardinality(KnownConverted(views, s))
  BY ByLeaveIs
<1>2. split.opportunities = SumOpportunities(B, L) /\ split.conversions = SumConversions(B, L)
  <2>1. L = {s \in DOMAIN B : (Cardinality(s) = 1) = single}
    BY <1>1 DEF SplitLeaves
  <2>2. split.opportunities
          = SumOpportunities(B, {s \in DOMAIN B : (Cardinality(s) = 1) = single})
    BY DEF SparePinSplit, SumOpportunities
  <2>3. split.conversions
          = SumConversions(B, {s \in DOMAIN B : (Cardinality(s) = 1) = single})
    BY DEF SparePinSplit, SumConversions
  <2> QED
    BY <2>1, <2>2, <2>3
<1>3. IsFiniteSet(K) /\ IsFiniteSet(C)
  <2>1. K \in SUBSET views /\ C \in SUBSET views
    BY DEF KnownChances, SpareChances, Openings
  <2> HIDE DEF K, C
  <2> QED
    BY <2>1, FS_Subset
<1>4. IsFiniteSet(L) /\ L \in SUBSET KnownLeaves(views)
  <2>1. label \in Surjection(K, KnownLeaves(views))
    BY DEF Surjection, KnownLeaves
  <2>2. L \in SUBSET KnownLeaves(views)
    BY DEF SplitLeaves
  <2> HIDE DEF label, K, L
  <2>3. IsFiniteSet(KnownLeaves(views))
    BY <1>3, <2>1, FS_Surjection
  <2> QED
    BY <2>2, <2>3, FS_Subset
<1>5. \A s : KnownOf(views, s) = Labelled(K, label, s) /\ KnownConverted(views, s) = Labelled(C, label, s)
  BY DEF KnownOf, KnownConverted, Labelled
<1>6. \A v \in K : label[v] = v.standing /\ v.standing \in KnownLeaves(views)
  BY DEF KnownLeaves
<1>7. \A s \in KnownLeaves(views) : s \in L <=> (Cardinality(s) = 1) = single
  BY DEF SplitLeaves
<1>8. \A v : v \in C <=> v \in K /\ Converted(views, v)
  OBVIOUS
<1> HIDE DEF B, L, K, C, label, split
<1>9. \A s : IsFiniteSet(KnownOf(views, s)) /\ IsFiniteSet(KnownConverted(views, s))
  <2> SUFFICES ASSUME NEW s
               PROVE  IsFiniteSet(KnownOf(views, s)) /\ IsFiniteSet(KnownConverted(views, s))
    OBVIOUS
  <2>1. KnownOf(views, s) \in SUBSET K /\ KnownConverted(views, s) \in SUBSET K
    BY DEF KnownOf, KnownConverted, K
  <2> QED
    BY <1>3, <2>1, FS_Subset
<1>10. \A s \in L : B[s].opportunities \in Int /\ B[s].conversions \in Int
  <2>1. \A s : Cardinality(KnownOf(views, s)) \in Nat /\ Cardinality(KnownConverted(views, s)) \in Nat
    BY <1>9, FS_CardinalityType
  <2> QED
    BY <1>1, <1>4, <2>1
<1>11. L \in SUBSET DOMAIN B
  BY <1>1, <1>4
<1>12. split.opportunities = Cardinality(T)
  <2> DEFINE w == Opportunities(B)
  <2>1. \A s \in L : w[s] = Cardinality(Labelled(K, label, s))
    BY <1>1, <1>5, <1>11 DEF Opportunities
  <2>2. \A v : v \in T <=> v \in K /\ label[v] \in L
    BY <1>6, <1>7 DEF K
  <2>3. SumOpportunities(B, L) = SumOf(L, w)
    BY <1>4, <1>10, <1>11, SumOpportunitiesIs
  <2> HIDE DEF w
  <2>4. SumOf(L, w) = Cardinality(T)
    BY <1>3, <1>4, <2>1, <2>2, CountByLabel
  <2> QED
    BY <1>2, <2>3, <2>4
<1>13. split.conversions = Cardinality(ConvertedIn(views, T))
  <2> DEFINE w == Conversions(B)
             U == ConvertedIn(views, T)
  <2>1. \A s \in L : w[s] = Cardinality(Labelled(C, label, s))
    BY <1>1, <1>5, <1>11 DEF Conversions
  <2>2. \A v : v \in U <=> v \in C /\ label[v] \in L
    BY <1>6, <1>7, <1>8 DEF K, ConvertedIn
  <2>3. SumConversions(B, L) = SumOf(L, w)
    BY <1>4, <1>10, <1>11, SumConversionsIs
  <2> HIDE DEF w, U
  <2>4. SumOf(L, w) = Cardinality(U)
    BY <1>3, <1>4, <2>1, <2>2, CountByLabel
  <2> QED
    BY <1>2, <2>3, <2>4 DEF U
<1> QED
  BY <1>12, <1>13 DEF split
\* Every first ball leaves known pins, none, or no record of them.
LEMMA LeavesAdd ==
  ASSUME NEW views, IsFiniteSet(views)
  PROVE  LET leaves == AnalyzeLeaves(views)
         IN  leaves.recorded + leaves.missing + leaves.empty = Cardinality(Openings(views))
<1> DEFINE O == Openings(views)
           A == {v \in O : Detailed(v)}
           B == {v \in O : v.standing = NoSet}
           C == {v \in O : v.standing = {}}
           leaves == AnalyzeLeaves(views)
<1>1. /\ leaves.recorded = Cardinality(A) /\ leaves.missing = Cardinality(B)
      /\ leaves.empty = Cardinality(C)
  BY DEF AnalyzeLeaves
<1>2. NoSet # {}
  BY NoSetAssumption
<1>3. O = (A \cup B) \cup C /\ A \cap B = {} /\ (A \cup B) \cap C = {}
  BY <1>2 DEF Detailed
<1>4. O \in SUBSET views
  BY DEF Openings
<1> HIDE DEF A, B, C, O, leaves
<1>5. IsFiniteSet(O) /\ IsFiniteSet(A \cup B) /\ IsFiniteSet(A) /\ IsFiniteSet(B) /\ IsFiniteSet(C)
  <2>1. IsFiniteSet(O)
    BY <1>4, FS_Subset
  <2>2. /\ A \cup B \in SUBSET O /\ A \in SUBSET O /\ B \in SUBSET O /\ C \in SUBSET O
    BY <1>3
  <2> QED
    BY <2>1, <2>2, FS_Subset
<1>6. Cardinality(A \cap B) = 0 /\ Cardinality((A \cup B) \cap C) = 0
  BY <1>3, FS_EmptySet
<1>7. Cardinality(A \cup B) = Cardinality(A) + Cardinality(B) - Cardinality(A \cap B)
  BY <1>5, FS_Union
<1>8. Cardinality((A \cup B) \cup C)
        = Cardinality(A \cup B) + Cardinality(C) - Cardinality((A \cup B) \cap C)
  BY <1>5, FS_Union
<1>9. Cardinality(A) \in Nat /\ Cardinality(B) \in Nat /\ Cardinality(C) \in Nat
  BY <1>5, FS_CardinalityType
<1>10. Cardinality(A) + Cardinality(B) + Cardinality(C) = Cardinality(O)
  BY <1>3, <1>6, <1>7, <1>8, <1>9
<1> QED
  BY <1>1, <1>10 DEF leaves, O

\* No leave is met less often than it gave a chance, or converted more often.
LEMMA RowsOrdered ==
  ASSUME NEW views, IsFiniteSet(views), NEW rows,
         rows = LeaveRows(AnalyzeLeaves(views), AnalyzeSpares(views)), NEW s \in DOMAIN rows
  PROVE  rows[s].pickedUp <= rows[s].chances /\ rows[s].chances <= rows[s].faced
<1> DEFINE left == {v \in Openings(views) : Detailed(v)}
           faced == {v \in left : v.standing = s}
           counted == AnalyzeLeaves(views).counted
           B == AnalyzeSpares(views).byLeave
<1>1. counted = [t \in {v.standing : v \in left} |-> Cardinality({v \in left : v.standing = t})]
  BY DEF AnalyzeLeaves
<1>2. rows = [t \in DOMAIN counted |->
                [faced |-> counted[t],
                 chances |-> IF t \in DOMAIN B THEN B[t].opportunities ELSE Null,
                 pickedUp |-> IF t \in DOMAIN B THEN B[t].conversions ELSE Null]]
  BY DEF LeaveRows
<1>3. s \in DOMAIN counted /\ counted[s] = Cardinality(faced)
  <2>1. s \in DOMAIN counted
    <3> HIDE DEF counted, B
    <3> QED
      BY <1>2
  <2> QED
    BY <1>1, <2>1
<1>4. /\ DOMAIN B = KnownLeaves(views)
      /\ \A t \in KnownLeaves(views) :
           /\ B[t].opportunities = Cardinality(KnownOf(views, t))
           /\ B[t].conversions = Cardinality(KnownConverted(views, t))
  BY ByLeaveIs
<1>5. faced \in SUBSET views /\ KnownOf(views, s) \in SUBSET faced
      /\ KnownConverted(views, s) \in SUBSET KnownOf(views, s)
  BY DEF KnownOf, KnownConverted, KnownChances, SpareChances, Openings
<1> HIDE DEF left, faced, counted, B
<1>6. /\ rows[s].faced = counted[s]
      /\ rows[s].chances = (IF s \in DOMAIN B THEN B[s].opportunities ELSE Null)
      /\ rows[s].pickedUp = (IF s \in DOMAIN B THEN B[s].conversions ELSE Null)
  BY <1>2, <1>3
<1>7. IsFiniteSet(faced) /\ IsFiniteSet(KnownOf(views, s)) /\ IsFiniteSet(KnownConverted(views, s))
  BY <1>5, FS_Subset
<1>8. /\ Cardinality(faced) \in Nat
      /\ Cardinality(KnownOf(views, s)) <= Cardinality(faced)
      /\ Cardinality(KnownConverted(views, s)) <= Cardinality(KnownOf(views, s))
  <2>1. Cardinality(faced) \in Nat
    BY <1>7, FS_CardinalityType
  <2>2. Cardinality(KnownOf(views, s)) <= Cardinality(faced)
    BY <1>5, <1>7, FS_Subset
  <2>3. Cardinality(KnownConverted(views, s)) <= Cardinality(KnownOf(views, s))
    BY <1>5, <1>7, FS_Subset
  <2> QED
    BY <2>1, <2>2, <2>3
<1>9. CASE s \in DOMAIN B
  BY <1>3, <1>4, <1>6, <1>8, <1>9
<1>10. CASE s \notin DOMAIN B
  BY <1>3, <1>6, <1>8, <1>10 DEF Null
<1> QED
  BY <1>9, <1>10
\* The passes over the balls of a completed game agree.
LEMMA PassesOf ==
  ASSUME NEW facts, Legal(facts), \A e \in Frames : FrameComplete(e, Deliveries(facts, e)),
         NEW sheet,
         \A f \in Frames : /\ sheet[f].strike = Strike(Deliveries(facts, f))
                           /\ sheet[f].spare = Spare(Deliveries(facts, f))
                           /\ sheet[f].open = Open(Deliveries(facts, f)),
         NEW views, Shown(views, facts),
         NEW analysis, analysis = AnalyzeGame("COMPLETED", views),
         NEW focus, NEW pocketPin, focus = FocusOf(views, pocketPin)
  PROVE  PassesAgree(sheet, analysis, focus)
<1> DEFINE A == StrikeFrames(facts)
           B == SpareFrames(facts)
           C == OpenFrames(facts)
           known == KnownChances(views)
           single == {v \in known : Cardinality(v.standing) = 1}
           multi == known \ single
           doubled == {v \in FirstStrikes(views) : v.frame < FrameCount}
           spares == AnalyzeSpares(views)
           leaves == AnalyzeLeaves(views)
<1>1. analysis.firstBall = AnalyzeFirstBall(views) /\ analysis.leaves = leaves /\ analysis.spares = spares
  BY DEF AnalyzeGame
<1>2. /\ analysis.firstBall.denominator = Cardinality(Openings(views))
      /\ analysis.firstBall.strikes = Cardinality(FirstStrikes(views))
  BY <1>1 DEF AnalyzeFirstBall, FirstStrikes
<1>3. /\ spares.opportunities = Cardinality(SpareChances(views))
      /\ spares.conversions = Cardinality(ConvertedChances(views))
      /\ spares.missing = Cardinality(SpareChances(views) \ known)
  BY DEF AnalyzeSpares, ConvertedChances, KnownChances
<1>4. /\ focus.firstBall.hits = Cardinality(FirstStrikes(views))
      /\ focus.fill.hits = Cardinality(FirstStrikes(views) \cup Closed(views))
      /\ focus.doubles.chances = Cardinality(doubled)
      /\ focus.spares = [hits |-> Cardinality(ConvertedChances(views)),
                         chances |-> Cardinality(SpareChances(views))]
      /\ focus.missingDetail = Cardinality(SpareChances(views) \ known)
  BY DEF FocusOf, FirstStrikes, Closed, ConvertedChances, KnownChances
<1>5. /\ focus.singlePin.chances = Cardinality(single)
      /\ focus.multiPin.hits = Cardinality(ConvertedIn(views, multi))
  BY DEF FocusOf, KnownChances, ConvertedIn
<1>6. IsFiniteSet(views)
  BY DEF Shown
<1>7. /\ {f \in Frames : sheet[f]["strike"]} = A
      /\ {f \in Frames : sheet[f]["spare"]} = B
  BY DEF StrikeFrames, SpareFrames
<1>8. /\ {f \in Early : sheet[f]["strike"]} = A \cap Early
      /\ {f \in Early : sheet[f]["spare"]} = B \cap Early
      /\ {f \in Early : sheet[f]["open"]} = C \cap Early
  <2>1. Early \in SUBSET Frames
    BY ScoringAssumption DEF Early, Frames
  <2> QED
    BY <2>1 DEF StrikeFrames, SpareFrames, OpenFrames
<1>9. /\ Cardinality(Openings(views)) = FrameCount
      /\ Cardinality(FirstStrikes(views)) = Cardinality(A)
      /\ Cardinality(FirstStrikes(views) \cup Closed(views)) = Cardinality(A) + Cardinality(B)
      /\ Cardinality(doubled) = Cardinality(A \cap Early)
  BY StrikeCounts
<1>10. /\ Cardinality(ConvertedChances(views)) = Cardinality(B \cap Early)
       /\ Cardinality(SpareChances(views)) = Cardinality(B \cap Early) + Cardinality(C \cap Early)
  BY ChanceCounts
<1>11. SparePinSplit(spares, TRUE).opportunities = Cardinality(single)
  <2>1. ASSUME NEW one \in BOOLEAN, one = TRUE
        PROVE  SparePinSplit(spares, one).opportunities = Cardinality(single)
    <3>1. \A v : v \in single <=> v \in KnownChances(views) /\ (Cardinality(v.standing) = 1) = one
      BY <2>1
    <3> HIDE DEF single
    <3> QED
      BY <1>6, <3>1, SplitIs
  <2> QED
    BY <2>1
<1>12. SparePinSplit(spares, FALSE).conversions = Cardinality(ConvertedIn(views, multi))
  <2>1. ASSUME NEW one \in BOOLEAN, one = FALSE
        PROVE  SparePinSplit(spares, one).conversions = Cardinality(ConvertedIn(views, multi))
    <3>1. \A v : v \in multi <=> v \in KnownChances(views) /\ (Cardinality(v.standing) = 1) = one
      BY <2>1
    <3> HIDE DEF multi
    <3> QED
      BY <1>6, <3>1, SplitIs
  <2> QED
    BY <2>1
<1>13. leaves.recorded + leaves.missing + leaves.empty = FrameCount
  BY <1>6, <1>9, LeavesAdd
<1> DEFINE rows == LeaveRows(leaves, spares)
<1>14. \A s \in DOMAIN rows : rows[s].pickedUp <= rows[s].chances /\ rows[s].chances <= rows[s].faced
  <2> DEFINE m == rows
  <2>1. m = LeaveRows(AnalyzeLeaves(views), AnalyzeSpares(views))
    OBVIOUS
  <2> HIDE DEF m
  <2>2. \A s \in DOMAIN m : m[s].pickedUp <= m[s].chances /\ m[s].chances <= m[s].faced
    BY <1>6, <2>1, RowsOrdered
  <2> QED
    BY <2>1, <2>2
<1> HIDE DEF A, B, C, known, single, multi, doubled, spares, leaves, rows
<1>15. /\ analysis.firstBall.denominator = FrameCount
       /\ analysis.firstBall.strikes = Cardinality({f \in Frames : sheet[f]["strike"]})
       /\ focus.firstBall.hits = analysis.firstBall.strikes
       /\ focus.fill.hits = Cardinality({f \in Frames : sheet[f]["strike"]})
                              + Cardinality({f \in Frames : sheet[f]["spare"]})
       /\ focus.doubles.chances = Cardinality({f \in Early : sheet[f]["strike"]})
  BY <1>2, <1>4, <1>7, <1>8, <1>9
<1>16. /\ spares.conversions = Cardinality({f \in Early : sheet[f]["spare"]})
       /\ spares.opportunities = Cardinality({f \in Early : sheet[f]["spare"]})
                                   + Cardinality({f \in Early : sheet[f]["open"]})
       /\ focus.spares = [hits |-> spares.conversions, chances |-> spares.opportunities]
       /\ focus.missingDetail = spares.missing
  BY <1>3, <1>4, <1>8, <1>10
<1>17. /\ focus.singlePin.chances = SparePinSplit(spares, TRUE).opportunities
       /\ focus.multiPin.hits = SparePinSplit(spares, FALSE).conversions
  BY <1>5, <1>11, <1>12
<1>18. analysis.leaves = leaves /\ analysis.spares = spares
  BY <1>1
<1> QED
  BY <1>13, <1>14, <1>15, <1>16, <1>17, <1>18 DEF PassesAgree, Early, rows

\* The figures derived from the same balls agree: the totals of the home
\* screen cover the completed games and lie between their extremes, and for a
\* completed game the frames deriveGame marks, the rates of analysis.ts, the
\* table of leaves and the focus areas of shellPresentation.ts count the same
\* strikes, spares, open frames and chances, whatever was corrected or pulled
\* (session.ts: listGameHistoryDetailed, loadScoringView; analysis.ts;
\* shellPresentation.ts: computeFocusAnalysis, sparePinSplit, leaveRows).
THEOREM AnalysesMatch == Spec => []AnalysesAgree
<1>1. IInv => AnalysesAgree
  <2> SUFFICES ASSUME IInv
               PROVE  AnalysesAgree
    OBVIOUS
  <2>1. TotalsAgree({HistoryEntry(g, Facts(g)) : g \in {h \in Game : games[h] = "live"}})
    BY GamesAgree DEF History
  <2>2. ASSUME NEW g \in Game, AnalyzeGame(Status(Facts(g)), {}).eligible
        PROVE  PassesAgree(Sheet(g).frames, AnalyzeGame("COMPLETED", Views(g)), FocusOf(Views(g), 2))
    <3> DEFINE facts == Facts(g)
    <3>1. Balls(facts)
      BY FactsAreBalls
    <3>2. Status(facts) = "COMPLETED"
      BY <2>2 DEF AnalyzeGame
    <3> DEFINE sheet == Sheet(g).frames
               views == Views(g)
               analysis == AnalyzeGame("COMPLETED", views)
               focus == FocusOf(views, 2)
    <3>3. Sheet(g) = DeriveGame(facts)
      BY DEF Sheet
    <3>4. facts = Facts(g)
      OBVIOUS
    <3> HIDE DEF facts
    <3>5. Legal(facts)
      BY <3>1, <3>2, NoRepairMeansLegal
    <3>6. Scored(facts) /\ \A f \in Frames : FrameComplete(f, Deliveries(facts, f))
      BY <3>2, FinalIs
    <3>7. \A f \in Frames : sheet[f] = Projection(f, Deliveries(facts, f), After(facts, f))
      BY <3>3, <3>6, SheetIs
    <3>8. \A f \in Frames : /\ sheet[f].strike = Strike(Deliveries(facts, f))
                            /\ sheet[f].spare = Spare(Deliveries(facts, f))
                            /\ sheet[f].open = Open(Deliveries(facts, f))
      <4> SUFFICES ASSUME NEW f \in Frames
                   PROVE  /\ sheet[f].strike = Strike(Deliveries(facts, f))
                          /\ sheet[f].spare = Spare(Deliveries(facts, f))
                          /\ sheet[f].open = Open(Deliveries(facts, f))
        OBVIOUS
      <4> DEFINE p == Projection(f, Deliveries(facts, f), After(facts, f))
      <4>1. /\ p.strike = Strike(Deliveries(facts, f)) /\ p.spare = Spare(Deliveries(facts, f))
            /\ p.open = Open(Deliveries(facts, f))
        BY DEF Projection
      <4>2. sheet[f] = p
        BY <3>7
      <4> HIDE DEF sheet, p
      <4> QED
        BY <4>1, <4>2
    <3>9. Shown(views, facts)
      BY <3>4, <3>5, ViewsShown
    <3>10. analysis = AnalyzeGame("COMPLETED", views) /\ focus = FocusOf(views, 2)
      OBVIOUS
    <3> HIDE DEF sheet, views, analysis, focus
    <3>11. PassesAgree(sheet, analysis, focus)
      BY <3>5, <3>6, <3>8, <3>9, <3>10, PassesOf
    <3> QED
      BY <3>11 DEF sheet, views, analysis, focus
  <2> QED
    BY <2>1, <2>2 DEF AnalysesAgree
<1> QED
  BY <1>1, Invariance, PTL
(************************** games never corrected **************************)

\* The next slot of a bowled game comes after all its balls.
LEMMA NextComesLast ==
  ASSUME NEW old, Bowled(old), NEW slot, slot = NextLegalSlot(old), slot # NoSlot,
         NEW y \in old
  PROVE  y.frame < slot.frame \/ (y.frame = slot.frame /\ y.roll < slot.roll)
<1> DEFINE S == Earlier(old, y)
           d(f) == Deliveries(old, f)
<1>1. /\ slot.frame \in Frames /\ Takes(slot.frame, d(slot.frame))
      /\ slot.roll = Len(d(slot.frame)) + 1
  BY NextSlotIs
<1>2. y.frame \in Frames /\ y.roll \in 1..3
  BY DEF Bowled
<1>3. NextLegalSlot(S) # NoSlot /\ NextLegalSlot(S).frame = y.frame
  <2>1. NextLegalSlot(S) = [frame |-> y.frame, roll |-> y.roll] /\ NextLegalSlot(S) # NoSlot
    BY BowledBall
  <2> QED
    BY <2>1
<1>4. ASSUME slot.frame < y.frame PROVE FALSE
  <2>1. ~Takes(slot.frame, Deliveries(S, slot.frame))
    BY <1>1, <1>3, <1>4, NextSlotFirst
  <2>2. InFrame(S, slot.frame) = InFrame(old, slot.frame)
    BY <1>4 DEF Earlier, InFrame
  <2>3. Deliveries(S, slot.frame) = d(slot.frame)
    BY <2>2 DEF Deliveries
  <2> QED
    BY <1>1, <2>1, <2>3
<1>5. ASSUME y.frame = slot.frame PROVE y.roll < slot.roll
  <2>1. Told(old, slot.frame, d(slot.frame))
    BY <1>1, BowledLegal, LegalLine DEF Line
  <2>2. y \in InFrame(old, slot.frame)
    BY <1>5 DEF InFrame
  <2>3. y.roll \in 1..Len(d(slot.frame)) /\ Len(d(slot.frame)) \in Nat
    BY <2>1, <2>2 DEF Told
  <2> HIDE DEF d
  <2> QED
    BY <1>1, <2>3
<1> QED
  BY <1>1, <1>2, <1>4, <1>5 DEF Frames

\* A ball that nextLegalSlot and validateNextRoll let in leaves a game that
\* can be bowled.
LEMMA BallKeepsBowled ==
  ASSUME NEW old, Bowled(old), NEW slot, slot = NextLegalSlot(old), slot # NoSlot,
         NEW x, x.frame = slot.frame, x.roll = slot.roll, RollLegal(old, slot, x.pins),
         NEW new, new = old \cup {x}
  PROVE  Playable(new)
<1>1. \A y \in old : /\ y.frame < x.frame \/ (y.frame = x.frame /\ y.roll < x.roll)
                     /\ y.frame \in Nat /\ y.roll \in Nat
  BY NextComesLast DEF Bowled, Balls
<1>2. slot.frame \in Frames /\ slot.roll = Len(Deliveries(old, slot.frame)) + 1
  BY NextSlotIs
<1>3. x.frame \in Nat /\ x.roll \in Nat
  <2>1. Told(old, slot.frame, Deliveries(old, slot.frame))
    BY <1>2, BowledLegal, LegalLine DEF Line
  <2> QED
    BY <1>2, <2>1 DEF Frames, Told
<1>4. Earlier(new, x) = old
  BY <1>1, <1>3 DEF Earlier
<1>5. \A y \in old : Earlier(new, y) = Earlier(old, y)
  BY <1>1, <1>3 DEF Earlier
<1>6. [frame |-> x.frame, roll |-> x.roll] = slot
  <2>1. slot = [frame |-> slot.frame, roll |-> slot.roll]
    <3>1. \E f, r : NextLegalSlot(old) = [frame |-> f, roll |-> r]
      BY DEF NextLegalSlot, NoSlot
    <3> QED
      BY <3>1
  <2> QED
    BY <2>1
<1>7. \A y, z \in new : y.frame = z.frame /\ y.roll = z.roll => y = z
  <2>1. \A y \in old : ~(y.frame = x.frame /\ y.roll = x.roll)
    BY <1>1, <1>3
  <2> QED
    BY <2>1 DEF Bowled, Playable
<1>8. ASSUME NEW y \in new
      PROVE  LET at == [frame |-> y.frame, roll |-> y.roll]
             IN  NextLegalSlot(Earlier(new, y)) = at /\ RollLegal(Earlier(new, y), at, y.pins)
  <2>1. CASE y = x
    BY <1>4, <1>6, <2>1
  <2>2. CASE y \in old
    BY <1>5, <2>2, BowledBall
  <2> QED
    BY <2>1, <2>2
<1> QED
  BY <1>7, <1>8 DEF Playable, Earlier

\* Balls recorded on this device and never corrected.
Untouched(facts) == \A x \in facts : x.own /\ x.version = 1

UntouchedGamesArePlayable ==
  \A g \in Game : Untouched(Facts(g)) => Playable(Facts(g))

LEMMA SameFactsStay ==
  ASSUME UntouchedGamesArePlayable, NEW g \in Game, Facts(g)' = Facts(g), Untouched(Facts(g)')
  PROVE  Playable(Facts(g)')
BY DEF UntouchedGamesArePlayable

LEMMA RecordedUntouched ==
  ASSUME IInv, UntouchedGamesArePlayable,
         NEW g \in Game, NEW slot, slot = NextLegalSlot(Facts(g)),
         NEW pins \in 0..Pins, NEW standing, RecordRoll(g, slot, pins, standing),
         NEW h \in Game, Untouched(Facts(h)')
  PROVE  Playable(Facts(h)')
<1> DEFINE x == [id |-> Cardinality(rolls) + 1, game |-> g, frame |-> slot.frame,
                 roll |-> slot.roll, pins |-> pins, version |-> 1, own |-> TRUE]
           old == Facts(g)
           new == Facts(g)'
<1>1. /\ rolls' = rolls \cup {x} /\ frames' = frames
      /\ slot # NoSlot /\ slot.frame \in frames[g] /\ RollLegal(old, slot, pins)
  BY DEF RecordRoll, Accepts
<1>2. x.game = g /\ x.frame = slot.frame /\ x.roll = slot.roll /\ x.pins = pins
  OBVIOUS
<1> HIDE DEF x
<1>3. CASE h # g
  <2>1. Facts(h)' = Facts(h)
    BY <1>1, <1>2, <1>3 DEF Facts
  <2> QED
    BY <2>1, SameFactsStay
<1>4. CASE h = g
  <2>1. new = old \cup {x}
    BY <1>1, <1>2 DEF Facts
  <2>2. Untouched(old)
    BY <1>4, <2>1 DEF Untouched
  <2>3. Bowled(old)
    BY <2>2, FactsAreBalls DEF UntouchedGamesArePlayable, Bowled
  <2> HIDE DEF old, new
  <2>4. Playable(new)
    BY <1>1, <1>2, <2>1, <2>3, BallKeepsBowled DEF old
  <2> QED
    BY <1>4, <2>4 DEF new
<1> QED
  BY <1>3, <1>4

LEMMA ReceivedUntouched ==
  ASSUME UntouchedGamesArePlayable, NEW g \in Game, ReceiveRoll(g),
         NEW h \in Game, Untouched(Facts(h)')
  PROVE  Playable(Facts(h)')
<1>1. PICK slot, pins :
        rolls' = rolls \cup {[id |-> Cardinality(rolls) + 1, game |-> g, frame |-> slot.frame,
                              roll |-> slot.roll, pins |-> pins, version |-> 1, own |-> FALSE]}
  BY DEF ReceiveRoll
<1> DEFINE x == [id |-> Cardinality(rolls) + 1, game |-> g, frame |-> slot.frame,
                 roll |-> slot.roll, pins |-> pins, version |-> 1, own |-> FALSE]
<1>2. rolls' = rolls \cup {x} /\ ~x.own /\ frames' = frames
  BY <1>1 DEF ReceiveRoll
<1> HIDE DEF x
<1>3. x \notin Facts(h)'
  BY <1>2 DEF Untouched
<1>4. Facts(h)' = Facts(h)
  BY <1>2, <1>3 DEF Facts
<1> QED
  BY <1>4, SameFactsStay

LEMMA CorrectedUntouched ==
  ASSUME IInv, UntouchedGamesArePlayable, NEW x \in rolls, NEW pins \in 0..Pins, NEW then,
         CorrectRoll(x, pins, then), NEW h \in Game, Untouched(Facts(h)')
  PROVE  Playable(Facts(h)')
<1> DEFINE y == RollWith(x, pins)
<1>1. rolls' = (rolls \ {x}) \cup {y} /\ frames' = frames
  BY DEF CorrectRoll, RollWith
<1>2. x \in RollRow
  BY DEF IInv, BooksKept, Books
<1>3. y.game = x.game /\ y.frame = x.frame /\ y.version = x.version + 1
  BY <1>2, CorrectedRollIs
<1> HIDE DEF y
<1>4. y.version # 1
  <2>1. x.version \in Nat \ {0}
    BY <1>2 DEF RollRow
  <2> QED
    BY <1>3, <2>1
<1>5. y \notin Facts(h)'
  BY <1>4 DEF Untouched
<1>6. x \notin Facts(h)
  BY <1>1, <1>3, <1>5 DEF Facts
<1>7. Facts(h)' = Facts(h)
  BY <1>1, <1>5, <1>6 DEF Facts
<1> QED
  BY <1>7, SameFactsStay

\* A new frame brings no ball of this device with it, and a discarded game
\* has none.
LEMMA FramesUntouch ==
  ASSUME IInv, UntouchedGamesArePlayable, NEW g \in Game, rolls' = rolls,
         \A h \in Game : h # g => frames'[h] = frames[h],
         frames[g] \subseteq frames'[g] \/ frames'[g] = {},
         NEW h \in Game, Untouched(Facts(h)')
  PROVE  Playable(Facts(h)')
<1>1. CASE h # g
  <2>1. Facts(h)' = Facts(h)
    BY <1>1 DEF Facts
  <2> QED
    BY <2>1, SameFactsStay
<1>2. CASE h = g /\ frames'[g] = {}
  <2>1. Facts(h)' = {}
    BY <1>2 DEF Facts
  <2> QED
    BY <2>1 DEF Playable
<1>3. CASE h = g /\ frames[g] \subseteq frames'[g]
  <2>1. Facts(h)' = Facts(h)
    BY <1>3 DEF Facts, Untouched, IInv, OwnBallsLive
  <2> QED
    BY <2>1, SameFactsStay
<1> QED
  BY <1>1, <1>2, <1>3

LEMMA UntouchedStep ==
  ASSUME IInv, UntouchedGamesArePlayable, [Next]_vars
  PROVE  UntouchedGamesArePlayable'
<1> SUFFICES ASSUME NEW h \in Game, Untouched(Facts(h)')
             PROVE  Playable(Facts(h)')
  BY DEF UntouchedGamesArePlayable
<1>1. CASE \E g \in Game : \E slot \in {NextLegalSlot(Facts(g))} :
             \E pins \in 0..Pins, standing \in (SUBSET Rack) \cup {NoSet} :
               RecordRoll(g, slot, pins, standing)
  <2>1. PICK g \in Game : \E pins \in 0..Pins, standing \in (SUBSET Rack) \cup {NoSet} :
               RecordRoll(g, NextLegalSlot(Facts(g)), pins, standing)
    BY <1>1
  <2> QED
    BY <2>1, RecordedUntouched
<1>2. CASE \E g \in Game : ReceiveRoll(g)
  BY <1>2, ReceivedUntouched
<1>3. CASE \E x \in rolls, pins \in 0..Pins :
             \/ CorrectRoll(x, pins, Idle)
             \/ \E standing \in SUBSET Rack : CorrectRollWithStanding(x, pins, standing)
  <2>1. PICK x \in rolls, pins \in 0..Pins : \E then : CorrectRoll(x, pins, then)
    BY <1>3 DEF CorrectRollWithStanding
  <2> QED
    BY <2>1, CorrectedUntouched
<1>4. CASE \E g \in Game : StartGame(g)
  <2>1. Facts(h)' = Facts(h)
    BY <1>4 DEF StartGame, Facts
  <2> QED
    BY <2>1, SameFactsStay
<1>5. CASE \E g \in Game : Discard(g)
  <2>1. PICK g \in Game : Discard(g)
    BY <1>5
  <2>2. /\ rolls' = rolls /\ frames'[g] = {}
        /\ \A k \in Game : k # g => frames'[k] = frames[k]
    BY <2>1 DEF Discard, IInv, TypeOK
  <2> QED
    BY <2>2, FramesUntouch
<1>6. CASE StartFrame
  <2>1. busy.game \in Game
    BY <1>6 DEF StartFrame, IInv, Operation, Idle
  <2>2. /\ rolls' = rolls /\ frames[busy.game] \subseteq frames'[busy.game]
        /\ \A k \in Game : k # busy.game => frames'[k] = frames[k]
    BY <1>6, <2>1 DEF StartFrame, IInv, TypeOK
  <2> QED
    BY <2>1, <2>2, FramesUntouch
<1>7. CASE \/ SaveStanding \/ Interrupt
           \/ \E x \in rolls, standing \in SUBSET Rack : ChangeDetail(x, standing)
           \/ \E x \in rolls : RemovePinDetail(x)
           \/ UNCHANGED vars
  <2>1. rolls' = rolls /\ frames' = frames
    BY <1>7 DEF SaveStanding, Interrupt, store, ChangeDetail, AddPinDetail, CorrectPinDetail,
       RemovePinDetail, vars
  <2>2. Facts(h)' = Facts(h)
    BY <2>1 DEF Facts
  <2> QED
    BY <2>2, SameFactsStay
<1> QED
  BY <1>1, <1>2, <1>3, <1>4, <1>5, <1>6, <1>7 DEF Next

\* A game that no correction and no pulled ball touched is one that can be
\* bowled ball by ball: what recordRoll lets in at the slot that nextLegalSlot
\* names (session.ts, validate.ts) is a game by the rules, for any number of
\* frames and pins.  Only corrections and pulls can make a game that is not.
THEOREM RecordedGamesPlayable == Spec => []UntouchedGamesArePlayable
<1>1. Init => UntouchedGamesArePlayable
  BY DEF Init, UntouchedGamesArePlayable, Facts, Playable
<1>2. IInv /\ UntouchedGamesArePlayable /\ [Next]_vars => UntouchedGamesArePlayable'
  BY UntouchedStep
<1> QED
  BY <1>1, <1>2, Invariance, PTL DEF Spec

=============================================================================

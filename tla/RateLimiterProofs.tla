------------------------- MODULE RateLimiterProofs -------------------------
(***************************************************************************)
(* Proofs about the rate limiter, for any number of callers and replicas,  *)
(* any rate and burst, any offsets of the clocks and any faults of Redis.  *)
(***************************************************************************)
EXTENDS RateLimiter, TLAPS

\* A live bucket lacks at most what it was charged since it was last full,
\* less the refill until its time stamp ...
Covered(b) ==
    b.live => b.tokens >= Capacity + Rate * (b.last - b.full) - b.drawn * Unit

Held(b) == IF b.live THEN b.tokens ELSE 0

\* ... and what a bucket holds, with what it has granted, was made or refilled.
Earned(b) ==
    Held(b) + b.granted * Unit
        <= b.made * Capacity + Rate * (b.last - b.oldest + b.slipped)

\* What is true of every bucket between calls.
Sound(b) ==
    /\ b \in Bucket
    /\ b.made = 0 => ~b.live /\ b.granted = 0 /\ b.last = 0
    /\ b.oldest <= b.last /\ b.last <= b.newest
    /\ Covered(b)
    /\ Earned(b)

LEMMA CapacityType == Capacity \in Nat \ {0} /\ Unit <= Capacity
<1>1. \A u, k \in Nat \ {0} : k * u \in Nat \ {0} /\ u <= k * u
  OBVIOUS
<1>2. QED
  BY <1>1, KnobsAssumption DEF Capacity

\* Products, of which the steps below use no more than this.
LEMMA TimesLemma ==
    ASSUME NEW r \in Nat
    PROVE  /\ \A x \in Int : r * x \in Int /\ x * r = r * x
           /\ \A x, y \in Int : r * (x + y) = r * x + r * y
           /\ \A x, y \in Int : x <= y => r * x <= r * y
<1>1. \A x \in Int : r * x \in Int /\ x * r = r * x
  OBVIOUS
<1>2. \A x, y \in Int : r * (x + y) = r * x + r * y
  OBVIOUS
<1>3. \A x, y \in Int : x <= y => r * x <= r * y
  OBVIOUS
<1>4. QED
  BY <1>1, <1>2, <1>3

LEMMA FieldTypes ==
    ASSUME NEW b \in Bucket
    PROVE  /\ b.live \in BOOLEAN /\ b.tokens \in 0..Capacity /\ b.tokens \in Nat
           /\ b.last \in Nat /\ b.made \in Nat /\ b.granted \in Nat
           /\ b.oldest \in Nat /\ b.newest \in Nat /\ b.slipped \in Nat
           /\ b.full \in Nat /\ b.drawn \in Nat
BY CapacityType DEF Bucket

LEMMA NoBucketSound == Sound(NoBucket)
<1>1. NoBucket \in Bucket
  BY CapacityType DEF NoBucket, Bucket
<1>2. Covered(NoBucket) /\ Earned(NoBucket)
  BY CapacityType, KnobsAssumption DEF NoBucket, Covered, Earned, Held
<1>3. QED
  BY <1>1, <1>2 DEF Sound, NoBucket

\* A sound bucket has kept the rate.
LEMMA RateLemma ==
    ASSUME NEW b, Sound(b)
    PROVE  WithinRate(b, Passed(b) + b.slipped)
<1>1. b \in Bucket
  BY DEF Sound
<1> DEFINE x == b.last - b.oldest + b.slipped
           y == Passed(b) + b.slipped
<1>2. x \in Int /\ y \in Int /\ x <= y
  BY <1>1, FieldTypes DEF Sound, Passed
<1>3. Held(b) + b.granted * Unit <= b.made * Capacity + Rate * x
  BY DEF Sound, Earned
<1>4. Held(b) \in Nat /\ b.granted \in Nat /\ b.made \in Nat
  BY <1>1, FieldTypes DEF Held
<1> HIDE DEF x, y
<1>5. Rate * x <= Rate * y /\ Rate * x \in Int /\ Rate * y \in Int
  BY <1>2, TimesLemma, KnobsAssumption
<1>6. b.granted * Unit \in Int /\ b.made * Capacity \in Int
  BY <1>4, CapacityType, KnobsAssumption
<1>7. b.granted * Unit <= b.made * Capacity + Rate * y
  BY <1>3, <1>4, <1>5, <1>6
<1>8. QED
  BY <1>7 DEF WithinRate, y

-----------------------------------------------------------------------------
(* One call: the bucket is opened, refilled and charged.                   *)

LEMMA OpenLemma ==
    ASSUME NEW b, Sound(b), NEW t \in Nat
    PROVE  LET o == Open(b, t)
           IN  /\ o \in Bucket /\ o.live
               /\ b.live => o = b
               /\ ~b.live => o.tokens = Capacity /\ o.last = t
               /\ o.granted = b.granted /\ o.slipped = b.slipped
               /\ o.oldest = (IF b.made = 0 THEN t ELSE b.oldest)
               /\ o.newest = (IF b.made = 0 THEN t ELSE b.newest)
               /\ o.made = (IF b.live THEN b.made ELSE b.made + 1)
               /\ Covered(o)
<1> USE KnobsAssumption, CapacityType
<1> DEFINE o == Open(b, t)
<1>1. b \in Bucket
  BY DEF Sound
<1>2. CASE b.live
  BY <1>1, <1>2 DEF Open, Sound
<1>3. CASE ~b.live
  <2>1. /\ o.live /\ o.tokens = Capacity /\ o.last = t /\ o.made = b.made + 1
        /\ o.granted = b.granted /\ o.slipped = b.slipped
        /\ o.oldest = (IF b.made = 0 THEN t ELSE b.oldest)
        /\ o.newest = (IF b.made = 0 THEN t ELSE b.newest)
        /\ o.full = t /\ o.drawn = 0
    BY <1>1, <1>3 DEF Open, Bucket
  <2>2. o \in Bucket
    <3>1. Capacity \in 0..Capacity /\ b.made + 1 \in Nat /\ TRUE \in BOOLEAN /\ 0 \in Nat
      BY <1>1, FieldTypes
    <3>2. \A i \in {b.oldest, b.newest} : (IF b.made = 0 THEN t ELSE i) \in Nat
      BY <1>1, FieldTypes
    <3>3. QED
      BY <1>1, <1>3, <3>1, <3>2, Zenon DEF Open, Bucket
  <2> HIDE DEF o
  <2>3. Covered(o)
    BY <2>1 DEF Covered
  <2>4. QED
    BY <1>3, <2>1, <2>2, <2>3 DEF o
<1>4. QED
  BY <1>2, <1>3

\* The refill never runs over; it fills a bucket from which no more was drawn
\* than the time since it was full brings back, and otherwise loses nothing.
LEMMA RefillLemma ==
    ASSUME NEW o \in Bucket, o.live, Covered(o), NEW t \in Nat
    PROVE  LET n == Refill(o, t)
               m == IF t > o.last THEN t - o.last ELSE 0
           IN  /\ n \in 0..Capacity
               /\ n <= o.tokens + Rate * m
               /\ FullAgain(o, t) => n = Capacity
               /\ ~FullAgain(o, t) =>
                     n >= Capacity + Rate * (t - o.full) - o.drawn * Unit
<1> USE KnobsAssumption, CapacityType
<1> DEFINE m == IF t > o.last THEN t - o.last ELSE 0
           n == Refill(o, t)
           x == o.last - o.full
           y == t - o.full
           drawn == o.drawn * Unit
<1>1. o.tokens \in 0..Capacity /\ o.last \in Nat /\ o.full \in Nat /\ o.drawn \in Nat
  BY FieldTypes
<1>2. m \in Nat /\ m * Rate \in Nat /\ Rate * m = m * Rate
  <2>1. m \in Nat
    BY <1>1
  <2> HIDE DEF m
  <2>2. QED
    BY <2>1
<1>3. n = Smaller(Capacity, o.tokens + m * Rate)
  <2>1. CASE t > o.last
    BY <2>1 DEF Refill
  <2>2. CASE ~(t > o.last)
    BY <2>2, <1>1 DEF Refill
  <2>3. QED
    BY <2>1, <2>2
<1>4. Rate * x + Rate * m >= Rate * y
  <2>1. x \in Int /\ y \in Int /\ x + m \in Int /\ y <= x + m
    BY <1>1
  <2> HIDE DEF x, y, m
  <2>2. Rate * (x + m) = Rate * x + Rate * m /\ Rate * y <= Rate * (x + m)
    BY <1>2, <2>1, TimesLemma
  <2>3. Rate * y \in Int /\ Rate * x \in Int /\ Rate * m \in Int
    BY <1>2, <2>1, TimesLemma
  <2>4. QED
    BY <2>2, <2>3
<1>5. o.tokens >= Capacity + Rate * x - drawn
  BY DEF Covered
<1>6. FullAgain(o, t) <=> Rate * y >= drawn
  BY DEF FullAgain
<1>7. drawn \in Int /\ Rate * x \in Int /\ Rate * y \in Int
  <2>1. x \in Int /\ y \in Int
    BY <1>1
  <2> HIDE DEF x, y
  <2>2. QED
    BY <1>1, <2>1
<1> HIDE DEF n, m, x, y, drawn
<1>8. /\ n \in 0..Capacity
      /\ n <= o.tokens + Rate * m
  BY <1>1, <1>2, <1>3 DEF Smaller
<1>9. /\ Rate * y >= drawn => n = Capacity
      /\ ~(Rate * y >= drawn) => n >= Capacity + Rate * y - drawn
  <2> DEFINE p == Rate * x
             q == Rate * y
             s == m * Rate
  <2>1. p \in Int /\ q \in Int /\ s \in Nat /\ p + s >= q
    BY <1>2, <1>4, <1>7
  <2>2. o.tokens >= Capacity + p - drawn /\ n = Smaller(Capacity, o.tokens + s)
    BY <1>3, <1>5
  <2> HIDE DEF p, q, s
  <2>3. o.tokens + s >= Capacity + q - drawn
    BY <1>1, <1>7, <2>1, <2>2
  <2>4. /\ q >= drawn => n = Capacity
        /\ ~(q >= drawn) => n >= Capacity + q - drawn
    BY <1>1, <1>7, <2>1, <2>2, <2>3 DEF Smaller
  <2>5. QED
    BY <2>4 DEF q
<1>10. QED
  BY <1>6, <1>8, <1>9 DEF n, m, y, drawn

\* What is in the refilled bucket and what it granted was made or refilled, up
\* to the newer of its time stamp and the caller's time.
LEMMA EarnedLemma ==
    ASSUME NEW b, Sound(b), NEW t \in Nat
    PROVE  LET o == Open(b, t)
               top == IF t < b.last THEN b.last ELSE t
           IN  Refill(o, t) + o.granted * Unit
                  <= o.made * Capacity + Rate * (top - o.oldest + b.slipped)
<1> USE KnobsAssumption, CapacityType
<1> DEFINE o == Open(b, t)
           n == Refill(o, t)
           top == IF t < b.last THEN b.last ELSE t
           m == IF t > o.last THEN t - o.last ELSE 0
           x == b.last - b.oldest + b.slipped
           y == top - o.oldest + b.slipped
           granted == o.granted * Unit
           made == b.made * Capacity
<1>1. b \in Bucket /\ o \in Bucket /\ o.live /\ Covered(o)
  BY OpenLemma DEF Sound
<1>2. n \in 0..Capacity /\ n <= o.tokens + Rate * m
  BY <1>1, RefillLemma
<1>3. /\ b.live => o = b
      /\ o.granted = b.granted
      /\ o.oldest = (IF b.made = 0 THEN t ELSE b.oldest)
      /\ o.made = (IF b.live THEN b.made ELSE b.made + 1)
  BY OpenLemma
<1>4. Held(b) + granted <= made + Rate * x
  BY <1>3 DEF Sound, Earned
<1>5. /\ b.last \in Nat /\ b.oldest \in Nat /\ b.slipped \in Nat /\ b.made \in Nat
      /\ o.last \in Nat /\ o.oldest \in Nat /\ o.granted \in Nat /\ b.tokens \in Nat
      /\ b.live \in BOOLEAN /\ o.tokens \in Nat
  BY <1>1, FieldTypes
<1>6. /\ b.made = 0 => ~b.live /\ b.granted = 0
      /\ b.oldest <= b.last
  BY DEF Sound
<1> HIDE DEF o, n
<1>7. granted \in Int /\ made \in Int /\ x \in Int /\ y \in Int /\ m \in Nat
  BY <1>5
<1>8. y >= 0 /\ (b.made # 0 => y >= x) /\ (b.live => y = x + m)
  BY <1>3, <1>5, <1>6
<1>9. o.made * Capacity = IF b.live THEN made ELSE made + Capacity
  BY <1>3, <1>5
<1>10. b.made = 0 => granted = 0 /\ made = 0
  BY <1>3, <1>5, <1>6
<1> HIDE DEF top, m, x, y, granted, made
<1>11. /\ Rate * x \in Int /\ Rate * y \in Int /\ Rate * m \in Int
       /\ Rate * y >= 0
       /\ y >= x => Rate * y >= Rate * x
       /\ y = x + m => Rate * y = Rate * x + Rate * m
  <2>1. Rate * 0 = 0
    OBVIOUS
  <2>2. QED
    BY <1>7, <1>8, <2>1, TimesLemma
<1> DEFINE rx == Rate * x
           ry == Rate * y
           rm == Rate * m
<1>12. n + granted <= o.made * Capacity + ry
  <2>1. rx \in Int /\ ry \in Int /\ rm \in Int /\ ry >= 0
    BY <1>11
  <2>2. b.made # 0 => ry >= rx
    BY <1>8, <1>11
  <2>3. b.live => ry = rx + rm
    BY <1>8, <1>11
  <2>4. n <= o.tokens + rm /\ Held(b) + granted <= made + rx
    BY <1>2, <1>4
  <2> HIDE DEF rx, ry, rm
  <2>5. CASE b.live
    <3>1. o.tokens = b.tokens /\ Held(b) = b.tokens /\ o.made * Capacity = made
      BY <1>3, <1>9, <2>5 DEF Held
    <3>2. QED
      BY <1>2, <1>5, <1>7, <2>1, <2>3, <2>4, <2>5, <3>1
  <2>6. CASE ~b.live
    <3>1. Held(b) = 0 /\ o.made * Capacity = made + Capacity
      BY <1>9, <2>6 DEF Held
    <3>2. CASE b.made = 0
      BY <1>2, <1>10, <2>1, <3>1, <3>2
    <3>3. CASE b.made # 0
      BY <1>2, <1>7, <2>1, <2>2, <2>4, <3>1, <3>3
    <3>4. QED
      BY <3>2, <3>3
  <2>7. QED
    BY <1>5, <2>5, <2>6
<1>13. QED
  BY <1>12 DEF o, n, top, y, granted

\* The bucket after a call is sound; its time stamp is the caller's time, and
\* has slipped only when that is older; a refused call met a spent bucket.
LEMMA ChargeLemma ==
    ASSUME NEW b, Sound(b), NEW t \in Nat, NEW seen \in BOOLEAN
    PROVE  /\ Sound(Charge(b, t, seen))
           /\ Charge(b, t, seen).last = t
           /\ b.last <= t => Charge(b, t, seen).slipped = b.slipped
           /\ ~Grants(b, t) => Spent(b, t)
<1> USE KnobsAssumption, CapacityType
<1> DEFINE o == Open(b, t)
           n == Refill(o, t)
           k == IF Enough(n) THEN 1 ELSE 0
           top == IF t < b.last THEN b.last ELSE t
           c == Charge(b, t, seen)
<1>1. /\ b \in Bucket /\ o \in Bucket /\ o.live /\ Covered(o)
      /\ o.slipped = b.slipped
      /\ b.live => o = b
      /\ ~b.live => o.tokens = Capacity /\ o.last = t
  BY OpenLemma DEF Sound
<1>2. /\ n \in 0..Capacity
      /\ FullAgain(o, t) => n = Capacity
      /\ ~FullAgain(o, t) => n >= Capacity + Rate * (t - o.full) - o.drawn * Unit
  BY <1>1, RefillLemma
<1>3. n + o.granted * Unit
         <= o.made * Capacity + Rate * (top - o.oldest + b.slipped)
  BY EarnedLemma
<1>4. ~b.live => ~(n < Unit)
  <2>1. ~b.live => n = Capacity
    BY <1>1 DEF Refill, Smaller
  <2>2. QED
    BY <2>1
<1>5. Grants(b, t) <=> Enough(n)
  BY DEF Grants
<1>6. /\ o.made # 0
      /\ o.oldest \in Nat /\ o.newest \in Nat
  <2>1. o.made = (IF b.live THEN b.made ELSE b.made + 1) /\ b.made \in Nat
    BY <1>1, OpenLemma, FieldTypes
  <2>2. b.made = 0 => ~b.live
    BY DEF Sound
  <2>3. QED
    BY <1>1, <2>1, <2>2, FieldTypes
<1> HIDE DEF o, n
<1>7. k \in {0, 1} /\ (k = 1 => n >= Unit)
  BY DEF Enough
<1>8. /\ c.live = o.live /\ c.made = o.made /\ c.last = t
      /\ c.tokens = n - k * Unit
      /\ c.granted = (IF seen THEN o.granted + k ELSE o.granted)
      /\ c.oldest = (IF o.oldest <= t THEN o.oldest ELSE t)
      /\ c.newest = (IF t > o.newest THEN t ELSE o.newest)
      /\ c.slipped = (IF t < b.last THEN o.slipped + (b.last - t) ELSE o.slipped)
      /\ c.full = (IF FullAgain(o, t) THEN t ELSE o.full)
      /\ c.drawn = (IF FullAgain(o, t) THEN k ELSE o.drawn + k)
  BY <1>1 DEF Charge, Bucket, Stamp, Smaller, o, n
<1>9. /\ o.granted \in Nat /\ o.made \in Nat /\ o.slipped \in Nat /\ b.last \in Nat
      /\ o.full \in Nat /\ o.drawn \in Nat /\ o.oldest \in Nat /\ o.newest \in Nat
      /\ b.slipped \in Nat
  BY <1>1, FieldTypes
<1>10. c \in Bucket
  <2> DEFINE tokens == n - k * Unit
             granted == IF seen THEN o.granted + k ELSE o.granted
             oldest == IF o.oldest <= t THEN o.oldest ELSE t
             newest == IF t > o.newest THEN t ELSE o.newest
             slipped == IF t < b.last THEN o.slipped + (b.last - t) ELSE o.slipped
             full == IF FullAgain(o, t) THEN t ELSE o.full
             drawn == IF FullAgain(o, t) THEN k ELSE o.drawn + k
  <2>1. tokens \in 0..Capacity
    BY <1>2, <1>7
  <2>2. granted \in Nat /\ oldest \in Nat /\ newest \in Nat
    BY <1>7, <1>9
  <2>3. slipped \in Nat /\ full \in Nat /\ drawn \in Nat
    BY <1>7, <1>9
  <2>4. c = [o EXCEPT !.tokens = tokens, !.last = t, !.granted = granted,
                      !.oldest = oldest, !.newest = newest, !.slipped = slipped,
                      !.full = full, !.drawn = drawn]
    BY DEF Charge, Stamp, Smaller, o, n
  <2> HIDE DEF tokens, granted, oldest, newest, slipped, full, drawn, c
  <2>5. QED
    BY <1>1, <2>1, <2>2, <2>3, <2>4, Zenon DEF Bucket
<1>11. Covered(c)
  <2>1. k * Unit \in Nat /\ n \in Int
    BY <1>2, <1>7
  <2>2. CASE FullAgain(o, t)
    <3>1. n = Capacity /\ c.full = t /\ c.drawn = k
      BY <1>2, <1>8, <2>2
    <3>2. Rate * (t - t) = 0
      OBVIOUS
    <3>3. QED
      BY <1>8, <2>1, <3>1, <3>2 DEF Covered
  <2>3. CASE ~FullAgain(o, t)
    <3>1. /\ c.full = o.full /\ c.drawn = o.drawn + k
          /\ n >= Capacity + Rate * (t - o.full) - o.drawn * Unit
      BY <1>2, <1>8, <2>3
    <3>2. (o.drawn + k) * Unit = o.drawn * Unit + k * Unit /\ o.drawn * Unit \in Int
      BY <1>7, <1>9
    <3>3. Rate * (t - o.full) \in Int
      BY <1>9
    <3>4. c.tokens >= Capacity + Rate * (t - o.full) - (o.drawn + k) * Unit
      BY <1>8, <2>1, <3>1, <3>2, <3>3
    <3>5. QED
      BY <1>8, <3>1, <3>4 DEF Covered
  <2>4. QED
    BY <2>2, <2>3
<1>12. Earned(c)
  <2> DEFINE y == top - o.oldest + b.slipped
             z == c.last - c.oldest + c.slipped
  <2>1. y \in Int /\ z \in Int /\ y <= z
    BY <1>1, <1>8, <1>9
  <2> HIDE DEF y, z
  <2>2. Rate * y <= Rate * z /\ Rate * y \in Int /\ Rate * z \in Int
    BY <2>1, TimesLemma
  <2>3. c.granted * Unit <= o.granted * Unit + k * Unit
    <3>1. (o.granted + k) * Unit = o.granted * Unit + k * Unit /\ k * Unit >= 0
          /\ o.granted * Unit \in Int /\ k * Unit \in Int
      BY <1>7, <1>9
    <3>2. c.granted = o.granted + k \/ c.granted = o.granted
      BY <1>8
    <3>3. CASE c.granted = o.granted + k
      BY <3>1, <3>3
    <3>4. CASE c.granted = o.granted
      BY <3>1, <3>4
    <3>5. QED
      BY <3>2, <3>3, <3>4
  <2>4. /\ c.granted * Unit \in Int /\ o.granted * Unit \in Int /\ k * Unit \in Int
        /\ c.made * Capacity \in Int /\ n \in Int /\ c.made = o.made
    <3>1. c.granted \in Nat /\ c.made \in Nat
      BY <1>10, FieldTypes
    <3>2. QED
      BY <1>2, <1>7, <1>8, <1>9, <3>1
  <2>5. Held(c) = n - k * Unit
    BY <1>1, <1>8 DEF Held
  <2>6. n + o.granted * Unit <= c.made * Capacity + Rate * y
    BY <1>3, <1>8 DEF y
  <2>7. Held(c) + c.granted * Unit <= c.made * Capacity + Rate * z
    BY <2>2, <2>3, <2>4, <2>5, <2>6
  <2>8. QED
    BY <2>7 DEF Earned, z
<1>13. Sound(c)
  BY <1>6, <1>8, <1>9, <1>10, <1>11, <1>12 DEF Sound
<1>14. c.last = t /\ (b.last <= t => c.slipped = b.slipped)
  BY <1>1, <1>8, <1>9
<1>15. ASSUME ~Grants(b, t) PROVE Spent(b, t)
  <2>1. n < Unit /\ b.live /\ o = b
    BY <1>1, <1>2, <1>4, <1>5, <1>15 DEF Enough
  <2>2. ~FullAgain(o, t)
    BY <1>2, <2>1
  <2>3. /\ n >= Capacity + Rate * (t - b.full) - b.drawn * Unit
        /\ Rate * (t - b.full) \in Int /\ b.drawn * Unit \in Int
    BY <1>2, <1>9, <2>1, <2>2
  <2>4. QED
    BY <1>2, <2>1, <2>3 DEF Spent
<1>16. QED
  BY <1>13, <1>14, <1>15

\* A bucket that Redis lost keeps its books.
LEMMA ForgetLemma ==
    ASSUME NEW b, Sound(b)
    PROVE  Sound([b EXCEPT !.live = FALSE])
<1> DEFINE c == [b EXCEPT !.live = FALSE]
<1>1. b \in Bucket
  BY DEF Sound
<1>2. /\ ~c.live /\ c.granted = b.granted /\ c.made = b.made /\ c.last = b.last
      /\ c.oldest = b.oldest /\ c.newest = b.newest /\ c.slipped = b.slipped
  BY <1>1 DEF Bucket
<1>3. c \in Bucket
  BY <1>1, Zenon DEF Bucket
<1> HIDE DEF c
<1>4. Covered(c)
  BY <1>2 DEF Covered
<1>5. Earned(c)
  <2> DEFINE granted == b.granted * Unit
             bound == b.made * Capacity + Rate * (b.last - b.oldest + b.slipped)
  <2>1. Held(b) + granted <= bound /\ Held(b) \in Nat /\ Held(c) = 0
    BY <1>1, <1>2, FieldTypes DEF Sound, Earned, Held
  <2>2. granted \in Int /\ bound \in Int
    <3>1. /\ b.granted \in Nat /\ b.made \in Nat
          /\ b.last - b.oldest + b.slipped \in Int
      BY <1>1, FieldTypes
    <3>2. Rate * (b.last - b.oldest + b.slipped) \in Int
      BY <3>1, TimesLemma, KnobsAssumption
    <3>3. b.granted * Unit \in Int /\ b.made * Capacity \in Int
      BY <3>1, CapacityType, KnobsAssumption
    <3>4. QED
      BY <3>2, <3>3
  <2> HIDE DEF granted, bound
  <2>3. 0 + granted <= bound
    BY <2>1, <2>2
  <2>4. QED
    BY <1>2, <2>1, <2>3 DEF Earned, granted, bound
<1>6. QED
  BY <1>2, <1>3, <1>4, <1>5 DEF Sound, c

-----------------------------------------------------------------------------
(* The inductive invariant.  A replica's own bucket is charged under its    *)
(* mutex with a clock that never runs back, so its stamp never slips.       *)

InOrder(g) ==
    /\ local[g].slipped = 0
    /\ local[g].last <= now + Offset[g]

IInv ==
    /\ TypeOK
    /\ Sound(remote)
    /\ \A g \in Replicas : Sound(local[g]) /\ InOrder(g)

LEMMA InitHolds == Init => IInv
<1> SUFFICES ASSUME Init PROVE IInv
  OBVIOUS
<1>1. NoBucket \in Bucket
  BY NoBucketSound DEF Sound
<1>2. TypeOK
  BY <1>1, BoundsAssumption DEF Init, TypeOK
<1>3. Sound(remote) /\ \A g \in Replicas : Sound(local[g])
  BY NoBucketSound DEF Init
<1>4. ASSUME NEW g \in Replicas PROVE InOrder(g)
  <2>1. local[g] = NoBucket /\ now = 0
    BY DEF Init
  <2>2. QED
    BY <2>1, OffsetAssumption DEF InOrder, NoBucket
<1>5. QED
  BY <1>2, <1>3, <1>4 DEF IInv

LEMMA CounterTypes ==
    ASSUME TypeOK
    PROVE  now \in Nat /\ calls \in Nat /\ faults \in Nat
<1>1. now \in 0..MaxTime /\ calls \in 0..MaxCalls /\ faults \in 0..MaxFaults
  BY Zenon DEF TypeOK
<1>2. QED
  BY <1>1, BoundsAssumption

LEMMA ClockType ==
    ASSUME TypeOK, NEW c \in Callers
    PROVE  Clock(c) \in Nat /\ Home[c] \in Replicas
<1>1. now \in Nat
  BY CounterTypes, Zenon
<1>2. Home[c] \in Replicas
  BY HomeAssumption
<1>3. Offset[Home[c]] \in Nat
  BY <1>2, OffsetAssumption
<1>4. QED
  BY <1>1, <1>2, <1>3 DEF Clock

LEMMA TickKeeps == IInv /\ Tick => IInv'
<1> SUFFICES ASSUME IInv, Tick PROVE IInv'
  OBVIOUS
<1>1. TypeOK'
  <2>1. now \in 0..MaxTime /\ now < MaxTime /\ now' = now + 1
    BY DEF IInv, TypeOK, Tick
  <2>2. now' \in 0..MaxTime
    BY <2>1, BoundsAssumption
  <2>3. QED
    BY <2>2, Zenon DEF IInv, TypeOK, Tick
<1>2. \A g \in Replicas : InOrder(g)'
  <2>1. ASSUME NEW g \in Replicas PROVE InOrder(g)'
    <3>1. InOrder(g) /\ local[g] \in Bucket
      BY DEF IInv, Sound
    <3>2. local[g].last \in Nat /\ now \in Nat /\ Offset[g] \in Nat
      BY <3>1, FieldTypes, OffsetAssumption, CounterTypes DEF IInv
    <3>3. local' = local /\ now' = now + 1
      BY DEF Tick
    <3>4. QED
      BY <3>1, <3>2, <3>3 DEF InOrder
  <2>2. QED
    BY <2>1
<1>3. Sound(remote)' /\ \A g \in Replicas : Sound(local[g])'
  BY DEF IInv, Tick
<1>4. QED
  BY <1>1, <1>2, <1>3 DEF IInv

LEMMA AskKeeps == IInv /\ (\E c \in Callers : Ask(c) \/ RedisFails(c)) => IInv'
<1> SUFFICES ASSUME IInv, NEW c \in Callers, Ask(c) \/ RedisFails(c) PROVE IInv'
  OBVIOUS
<1>1. TypeOK'
  <2>1. TypeOK /\ Clock(c) \in Nat
    BY ClockType DEF IInv
  <2>2. calls' \in 0..MaxCalls
    <3>1. calls \in 0..MaxCalls
      BY <2>1, Zenon DEF TypeOK
    <3>2. CASE Ask(c)
      <4>1. calls < MaxCalls /\ calls' = calls + 1
        BY <3>2 DEF Ask
      <4>2. QED
        BY <3>1, <4>1, BoundsAssumption
    <3>3. CASE RedisFails(c)
      BY <3>1, <3>3 DEF RedisFails
    <3>4. QED
      BY <3>2, <3>3
  <2>3. /\ point' \in [Callers -> {"idle", "asked", "local"}]
        /\ asked' \in [Callers -> Nat]
    <3>1. point \in [Callers -> {"idle", "asked", "local"}] /\ asked \in [Callers -> Nat]
      BY <2>1, Zenon DEF TypeOK
    <3>2. CASE Ask(c)
      BY <2>1, <3>1, <3>2 DEF Ask
    <3>3. CASE RedisFails(c)
      BY <3>1, <3>3 DEF RedisFails
    <3>4. QED
      BY <3>2, <3>3
  <2>4. QED
    BY <2>1, <2>2, <2>3, Zenon DEF TypeOK, Ask, RedisFails
<1>2. now' = now /\ remote' = remote /\ local' = local
  BY DEF Ask, RedisFails
<1>3. QED
  BY <1>1, <1>2 DEF IInv, InOrder

\* Every step that charges or loses the bucket in Redis.
LEMMA RemoteKeeps ==
    IInv /\ (RedisForgets \/ \E c \in Callers : Script(c) \/ ReplyLost(c)) => IInv'
<1> SUFFICES ASSUME IInv, RedisForgets \/ \E c \in Callers : Script(c) \/ ReplyLost(c)
             PROVE  IInv'
  OBVIOUS
<1>1. local' = local /\ now' = now
  BY DEF RedisForgets, Script, ReplyLost
<1>2. Sound(remote)'
  <2>1. CASE RedisForgets
    BY <2>1, ForgetLemma DEF IInv, RedisForgets
  <2>2. ASSUME NEW c \in Callers, Script(c) \/ ReplyLost(c) PROVE Sound(remote)'
    <3>1. asked[c] \in Nat /\ Sound(remote)
      BY DEF IInv, TypeOK
    <3>2. PICK seen \in BOOLEAN : remote' = Charge(remote, asked[c], seen)
      BY <2>2 DEF Script, ReplyLost
    <3>3. QED
      BY <3>1, <3>2, ChargeLemma
  <2>3. QED
    BY <2>1, <2>2
<1>3. TypeOK'
  <2>1. remote' \in Bucket
    BY <1>2 DEF Sound
  <2>2. faults' \in 0..MaxFaults
    <3>1. faults \in 0..MaxFaults
      BY Zenon DEF IInv, TypeOK
    <3>2. ASSUME faults < MaxFaults, faults' = faults + 1 PROVE faults' \in 0..MaxFaults
      BY <3>1, <3>2, BoundsAssumption
    <3>3. CASE RedisForgets
      BY <3>2, <3>3 DEF RedisForgets
    <3>4. ASSUME NEW c \in Callers, Script(c) PROVE faults' \in 0..MaxFaults
      BY <3>1, <3>4 DEF Script
    <3>5. ASSUME NEW c \in Callers, ReplyLost(c) PROVE faults' \in 0..MaxFaults
      BY <3>2, <3>5 DEF ReplyLost
    <3>6. QED
      BY <3>3, <3>4, <3>5
  <2>3. /\ point' \in [Callers -> {"idle", "asked", "local"}]
        /\ asked' \in [Callers -> Nat]
        /\ answer' \in [Callers -> {"none", "yes", "no", "no, locally"}]
    <3>1. CASE RedisForgets
      BY <3>1 DEF IInv, TypeOK, RedisForgets
    <3>2. ASSUME NEW c \in Callers, Script(c) \/ ReplyLost(c)
          PROVE  /\ point' \in [Callers -> {"idle", "asked", "local"}]
                 /\ asked' \in [Callers -> Nat]
                 /\ answer' \in [Callers -> {"none", "yes", "no", "no, locally"}]
      <4>1. /\ point \in [Callers -> {"idle", "asked", "local"}]
            /\ asked \in [Callers -> Nat]
            /\ answer \in [Callers -> {"none", "yes", "no", "no, locally"}]
        BY Zenon DEF IInv, TypeOK
      <4>2. CASE Script(c)
        BY <4>1, <4>2 DEF Script, Returns
      <4>3. CASE ReplyLost(c)
        BY <4>1, <4>3 DEF ReplyLost
      <4>4. QED
        BY <3>2, <4>2, <4>3
    <3>3. QED
      BY <3>1, <3>2
  <2>4. UNCHANGED <<now, primary, local, calls>>
    BY DEF RedisForgets, Script, ReplyLost
  <2>5. QED
    BY <2>1, <2>2, <2>3, <2>4, Zenon DEF IInv, TypeOK
<1>4. \A g \in Replicas : Sound(local[g])' /\ InOrder(g)'
  BY <1>1 DEF IInv, InOrder
<1>5. QED
  BY <1>2, <1>3, <1>4 DEF IInv

LEMMA LocallyKeeps == IInv /\ (\E c \in Callers : Locally(c)) => IInv'
<1> SUFFICES ASSUME IInv, NEW c \in Callers, Locally(c) PROVE IInv'
  OBVIOUS
<1> DEFINE h == Home[c]
           t == Clock(c)
           b == local[h]
<1>1. t \in Nat /\ h \in Replicas /\ t = now + Offset[h]
  BY ClockType DEF IInv, Clock
<1>2. Sound(b) /\ InOrder(h)
  BY <1>1 DEF IInv
<1>3. /\ now' = now /\ remote' = remote
      /\ local' = [local EXCEPT ![h] = Charge(b, t, TRUE)]
  BY DEF Locally
<1> HIDE DEF t, h
<1>4. /\ local'[h] = Charge(b, t, TRUE)
      /\ \A g \in Replicas : g # h => local'[g] = local[g]
  BY <1>1, <1>3 DEF IInv, TypeOK
<1>5. /\ Sound(local'[h]) /\ local'[h].last = t
      /\ b.last <= t => local'[h].slipped = b.slipped
  <2>1. TRUE \in BOOLEAN
    OBVIOUS
  <2>2. /\ Sound(Charge(b, t, TRUE)) /\ Charge(b, t, TRUE).last = t
        /\ b.last <= t => Charge(b, t, TRUE).slipped = b.slipped
    BY <1>1, <1>2, <2>1, ChargeLemma, Zenon
  <2>3. QED
    BY <1>4, <2>2, Zenon
<1>6. TypeOK'
  <2>1. local' \in [Replicas -> Bucket]
    <3>1. Charge(b, t, TRUE) \in Bucket
      BY <1>4, <1>5, Zenon DEF Sound
    <3>2. local \in [Replicas -> Bucket]
      BY Zenon DEF IInv, TypeOK
    <3>3. QED
      BY <1>1, <1>3, <3>1, <3>2, Zenon
  <2>2. QED
    <3>1. /\ point' \in [Callers -> {"idle", "asked", "local"}]
          /\ asked' \in [Callers -> Nat]
      <4>1. /\ point \in [Callers -> {"idle", "asked", "local"}]
            /\ asked \in [Callers -> Nat]
        BY Zenon DEF IInv, TypeOK
      <4>2. QED
        BY <4>1 DEF Locally, Returns
    <3>2. answer' \in [Callers -> {"none", "yes", "no", "no, locally"}]
      <4>1. answer \in [Callers -> {"none", "yes", "no", "no, locally"}]
        BY Zenon DEF IInv, TypeOK
      <4>2. \E v \in {"yes", "no, locally"} : answer' = [answer EXCEPT ![c] = v]
        BY DEF Locally
      <4>3. QED
        BY <4>1, <4>2
    <3>3. UNCHANGED <<now, primary, remote, calls, faults>>
      BY Zenon DEF Locally
    <3>4. QED
      BY <2>1, <3>1, <3>2, <3>3, Zenon DEF IInv, TypeOK
<1>7. InOrder(h)'
  <2>1. b.slipped = 0 /\ b.last <= t
    BY <1>1, <1>2 DEF InOrder
  <2>2. local'[h].slipped = 0 /\ local'[h].last <= t
    BY <1>1, <1>5, <2>1
  <2>3. t = now' + Offset[h]
    BY <1>1, <1>3
  <2>4. QED
    BY <2>2, <2>3, Zenon DEF InOrder
<1>8. \A g \in Replicas : Sound(local'[g]) /\ InOrder(g)'
  <2>1. ASSUME NEW g \in Replicas, g # h PROVE Sound(local'[g]) /\ InOrder(g)'
    BY <1>3, <1>4, <2>1 DEF IInv, InOrder
  <2>2. QED
    BY <1>5, <1>7, <2>1
<1>9. QED
  BY <1>3, <1>6, <1>8 DEF IInv

\* The books of every bucket balance in every reachable state.
THEOREM InvariantHolds == Spec => []IInv
<1>1. IInv /\ [Next]_vars => IInv'
  <2>1. IInv /\ UNCHANGED vars => IInv'
    BY DEF IInv, TypeOK, InOrder, vars
  <2>2. QED
    BY <2>1, TickKeeps, AskKeeps, RemoteKeeps, LocallyKeeps DEF Next
<1>2. QED
  BY <1>1, InitHolds, PTL DEF Spec

\* The variables keep their types; no bucket holds less than nothing or more
\* than a burst.
THEOREM TypeCorrect == Spec => []TypeOK
<1>1. IInv => TypeOK
  BY DEF IInv
<1>2. QED
  BY <1>1, InvariantHolds, PTL

\* What callers were granted fits the bucket's capacity and the refill since,
\* however calls, ticks, lost replies and lost buckets interleave; in Redis the
\* time by which older clocks have set the time stamp back is refilled twice,
\* and no more than that, and in memory no time stamp is ever set back.
THEOREM RateHolds == Spec => []RateKept
<1>1. ASSUME IInv PROVE RateKept
  <2>1. WithinRate(remote, Passed(remote) + remote.slipped)
    BY <1>1, RateLemma DEF IInv
  <2>2. ASSUME NEW g \in Replicas
        PROVE  WithinRate(local[g], Passed(local[g])) /\ local[g].slipped = 0
    <3>1. Sound(local[g]) /\ local[g].slipped = 0
      BY <1>1 DEF IInv, InOrder
    <3>2. Passed(local[g]) + 0 = Passed(local[g])
      BY <3>1, FieldTypes DEF Sound, Passed
    <3>3. WithinRate(local[g], Passed(local[g]) + local[g].slipped)
      BY <3>1, RateLemma
    <3>4. QED
      BY <3>1, <3>2, <3>3
  <2>3. QED
    BY <2>1, <2>2 DEF RateKept
<1>2. QED
  BY <1>1, InvariantHolds, PTL

\* Whoever is refused meets a bucket that holds less than a token even if all
\* the time since it was last full is refilled: nobody is refused early.
THEOREM RefusalsEarned == Spec => RefusedOnlyWhenSpent
<1>1. ASSUME IInv, Next, NEW c \in Callers PROVE RefusesWhenSpent(c)
  <2>1. /\ asked[c] \in Nat /\ Sound(remote)
        /\ Clock(c) \in Nat /\ Sound(local[Home[c]])
    BY <1>1, ClockType DEF IInv, TypeOK
  <2>2. ASSUME point'[c] = "idle", point[c] = "asked", answer'[c] = "no"
        PROVE  Spent(remote, asked[c])
    <3>1. Script(c)
      <4>1. /\ point \in [Callers -> {"idle", "asked", "local"}]
            /\ point' # point
        BY <1>1, <2>2 DEF IInv, TypeOK
      <4>2. PICK d \in Callers : Ask(d) \/ Script(d) \/ RedisFails(d) \/ Locally(d)
        BY <1>1, <4>1 DEF Next, vars, Tick, RedisForgets, ReplyLost
      <4>3. d = c
        BY <2>2, <4>1, <4>2 DEF Ask, Script, RedisFails, Locally, Returns
      <4>4. QED
        BY <2>2, <4>1, <4>2, <4>3 DEF Ask, RedisFails, Locally
    <3>2. answer \in [Callers -> {"none", "yes", "no", "no, locally"}]
      BY <1>1 DEF IInv, TypeOK
    <3>3. ~Grants(remote, asked[c])
      BY <2>2, <3>1, <3>2 DEF Script
    <3>4. QED
      BY <2>1, <3>3, ChargeLemma
  <2>3. ASSUME point'[c] = "idle", point[c] = "local", answer'[c] = "no, locally"
        PROVE  Spent(local[Home[c]], Clock(c))
    <3>1. Locally(c)
      <4>1. /\ point \in [Callers -> {"idle", "asked", "local"}]
            /\ point' # point
        BY <1>1, <2>3 DEF IInv, TypeOK
      <4>2. PICK d \in Callers : Ask(d) \/ Script(d) \/ RedisFails(d) \/ Locally(d)
        BY <1>1, <4>1 DEF Next, vars, Tick, RedisForgets, ReplyLost
      <4>3. d = c
        BY <2>3, <4>1, <4>2 DEF Ask, Script, RedisFails, Locally, Returns
      <4>4. QED
        BY <2>3, <4>1, <4>2, <4>3 DEF Ask, Script, RedisFails
    <3>2. answer \in [Callers -> {"none", "yes", "no", "no, locally"}]
      BY <1>1 DEF IInv, TypeOK
    <3>3. ~Grants(local[Home[c]], Clock(c))
      BY <2>3, <3>1, <3>2 DEF Locally
    <3>4. QED
      BY <2>1, <3>3, ChargeLemma
  <2>4. QED
    BY <2>2, <2>3 DEF RefusesWhenSpent
<1>2. IInv /\ [Next]_vars => [\A c \in Callers : RefusesWhenSpent(c)]_vars
  BY <1>1, Zenon
<1>3. QED
  BY <1>2, InvariantHolds, PTL DEF Spec, RefusedOnlyWhenSpent
=============================================================================

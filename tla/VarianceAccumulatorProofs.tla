---------------------- MODULE VarianceAccumulatorProofs ----------------------
(***************************************************************************)
(* Proofs about VarianceAccumulator for every window, feed and step size:  *)
(* the window behind a final variance, the rounds the search finds, and    *)
(* the sum that checkpoints add up to.                                     *)
(***************************************************************************)
EXTENDS VarianceAccumulator, CommonProofs

\* Whole intervals in a span, and in a longer one (_total, _available).
LEMMA Intervals ==
    ASSUME NEW a \in Nat, NEW b \in Nat, a <= b
    PROVE  /\ a \div SampleInterval \in Nat
           /\ b \div SampleInterval \in Nat
           /\ a \div SampleInterval <= b \div SampleInterval
<1>1. SampleInterval \in Nat /\ SampleInterval > 0
  BY WindowAssumption
<1> QED
  BY <1>1

\* The window has at least its opening sample (_total).
LEMMA TotalType == Total \in Nat /\ Total >= 1
<1>1. Expiry - Start \in Nat
  BY WindowAssumption
<1>2. (Expiry - Start) \div SampleInterval \in Nat
  BY <1>1, Intervals
<1> QED
  BY <1>2 DEF Total

\* Samples due at a time within the window, as a number (_available).
Due(limit) ==
    IF limit < Start THEN 0
    ELSE LET count == (limit - Start) \div SampleInterval + 1
         IN  IF count > Total THEN Total ELSE count

\* The samples due at a later time include those due before.
LEMMA DueGrows ==
    ASSUME NEW x \in Nat, NEW y \in Nat, x <= y
    PROVE  Due(x) \in Nat /\ Due(y) \in Nat /\ Due(x) <= Due(y) /\ Due(y) <= Total
<1>1. Start \in Nat /\ Total \in Nat
  BY TotalType, WindowAssumption
<1>2. CASE y < Start
  BY <1>1, <1>2 DEF Due
<1>3. CASE x < Start /\ Start <= y
  <2>1. y - Start \in Nat
    BY <1>1, <1>3
  <2>2. (y - Start) \div SampleInterval \in Nat
    BY <2>1, Intervals
  <2> QED  BY <1>1, <1>3, <2>2 DEF Due
<1>4. CASE Start <= x
  <2>1. x - Start \in Nat /\ y - Start \in Nat /\ x - Start <= y - Start
    BY <1>1, <1>4
  <2>2. /\ (x - Start) \div SampleInterval \in Nat
        /\ (y - Start) \div SampleInterval \in Nat
        /\ (x - Start) \div SampleInterval <= (y - Start) \div SampleInterval
    BY <2>1, Intervals
  <2>3. ~(x < Start) /\ ~(y < Start)
    BY <1>1, <1>4
  <2> QED  BY <1>1, <2>2, <2>3 DEF Due
<1> QED
  BY <1>1, <1>2, <1>3, <1>4

\* Available is what is due now, or at expiry if that is past.
LEMMA AvailableIsDue ==
    Available = Due(IF now < Expiry THEN now ELSE Expiry)
BY DEF Available, Due

\* Time only makes more samples available, never more than the window has.
LEMMA AvailableGrows ==
    ASSUME now \in Nat, now' \in Nat, now <= now'
    PROVE  /\ Available \in Nat /\ Available' \in Nat
           /\ Available <= Available' /\ Available' <= Total
<1> DEFINE x == IF now < Expiry THEN now ELSE Expiry
           y == IF now' < Expiry THEN now' ELSE Expiry
<1>1. x \in Nat /\ y \in Nat /\ x <= y
  BY WindowAssumption
<1>2. Available = Due(x)
  BY AvailableIsDue
<1>3. Available' = Due(y)
  BY DEF Due, Total, Available
<1> HIDE DEF x, y
<1> QED
  BY <1>1, <1>2, <1>3, DueGrows

-----------------------------------------------------------------------------
\* The search (_advance, _findLast).

\* The smaller of two numbers.
LEMMA MinOfTwo ==
    ASSUME NEW a \in Nat, NEW b \in Nat
    PROVE  Min({a, b}) \in {a, b} /\ Min({a, b}) <= a /\ Min({a, b}) <= b
<1>1. \E x \in {a, b} : \A y \in {a, b} : x <= y
  <2>1. CASE a <= b
    BY <2>1
  <2>2. CASE b <= a
    BY <2>2
  <2> QED  BY <2>1, <2>2
<1>2. Min({a, b}) \in {a, b} /\ \A y \in {a, b} : Min({a, b}) <= y
  BY SMTT(30), <1>1 DEF Min
<1> QED
  BY <1>2

\* The gallop and the bisection as iterations of one step.
Probe(q) ==
    [g \in [good : q.lo .. q.hi, step : 1 .. 2 * q.hi] |->
        IF g.good + g.step <= q.hi /\ g.good + g.step \in q.ok
        THEN [good |-> g.good + g.step, step |-> 2 * g.step] ELSE g]

Probed(q, n) == Repeated([good |-> q.lo, step |-> 1], Probe(q))[n]

Middle(b) == b.good + (b.bad - b.good) \div 2

Halve(q) ==
    [b \in [good : q.lo .. q.hi, bad : q.lo .. q.hi + 1] |->
        IF b.bad - b.good <= 1 THEN b
        ELSE IF Middle(b) \in q.ok THEN [b EXCEPT !.good = Middle(b)]
                                   ELSE [b EXCEPT !.bad = Middle(b)]]

Gap(q) == [good |-> Probed(q, q.hi).good,
           bad  |-> Min({Probed(q, q.hi).good + Probed(q, q.hi).step, q.hi + 1})]

Halved(q, n) == Repeated(Gap(q), Halve(q))[n]

LEMMA SearchLoops ==
    ASSUME NEW q \in Searches
    PROVE  LargestIn[q] = IF q.lo >= q.hi THEN q.lo ELSE Halved(q, q.hi).good
BY DEF LargestIn, Halved, Halve, Middle, Gap, Probed, Probe, Repeated

\* Bounds of a search, and the round it is for.
Sought(q, m) ==
    /\ q \in Searches
    /\ q.lo >= 1 /\ q.lo < q.hi
    /\ m \in q.lo .. q.hi
    /\ \A r \in q.lo .. q.hi : r \in q.ok <=> r <= m

\* After n probes the gallop has failed one or is n rounds on.
LEMMA GallopFinds ==
    ASSUME NEW q, NEW m, Sought(q, m), NEW n \in Nat
    PROVE  LET g == Probed(q, n) IN
           /\ g \in [good : q.lo .. m, step : 1 .. 2 * q.hi]
           /\ \/ g.good + g.step > m
              \/ g.good >= q.lo + n
<1> DEFINE G == [good : q.lo .. q.hi, step : 1 .. 2 * q.hi]
           g0 == [good |-> q.lo, step |-> 1]
           h == Repeated(g0, Probe(q))
           I == {k \in Nat : /\ h[k].good <= m
                             /\ h[k].good + h[k].step > m \/ h[k].good >= q.lo + k}
<1>1. q.lo \in Nat /\ q.hi \in Nat /\ q.lo >= 1 /\ q.lo < q.hi /\ m \in Nat /\ q.lo <= m /\ m <= q.hi
  BY DEF Sought, Searches
<1>2. g0 \in G
  BY <1>1
<1>3. ASSUME NEW g \in G
      PROVE  /\ Probe(q)[g] \in G
             /\ g.good <= m => Probe(q)[g].good <= m
             /\ Probe(q)[g].good + Probe(q)[g].step > m \/ Probe(q)[g].good >= g.good + 1
  <2>1. g.good \in q.lo .. q.hi /\ g.step \in 1 .. 2 * q.hi
    OBVIOUS
  <2>2. Probe(q)[g] = IF g.good + g.step <= q.hi /\ g.good + g.step \in q.ok
                      THEN [good |-> g.good + g.step, step |-> 2 * g.step] ELSE g
    BY DEF Probe
  <2>3. CASE g.good + g.step <= q.hi /\ g.good + g.step \in q.ok
    <3>1. g.good + g.step \in q.lo .. q.hi /\ 2 * g.step \in 1 .. 2 * q.hi
      BY <1>1, <2>1, <2>3
    <3>2. g.good + g.step <= m
      BY <2>3, <3>1 DEF Sought, Searches
    <3> QED
      BY <1>1, <2>1, <2>2, <2>3, <3>1, <3>2
  <2>4. CASE ~(g.good + g.step <= q.hi /\ g.good + g.step \in q.ok)
    <3>1. g.good + g.step > m
      <4>1. CASE g.good + g.step <= q.hi
        <5>1. g.good + g.step \in q.lo .. q.hi
          BY <1>1, <2>1, <4>1
        <5> QED
          BY <1>1, <2>1, <2>4, <4>1, <5>1 DEF Sought, Searches
      <4>2. CASE ~(g.good + g.step <= q.hi)
        BY <1>1, <2>1, <4>2
      <4> QED
        BY <4>1, <4>2
    <3> QED
      BY <2>2, <2>4, <3>1
  <2> QED
    BY <2>3, <2>4
<1>4. Probe(q) \in [G -> G]
  BY <1>3 DEF Probe
<1>5. h \in [Nat -> G] /\ h[0] = g0 /\ \A k \in Nat : h[k + 1] = Probe(q)[h[k]]
  <2> HIDE DEF G, g0
  <2>1. h \in [Nat -> G] /\ Iterates(h, g0, Probe(q))
    BY <1>2, <1>4, RepeatedIterates
  <2> QED
    BY <2>1 DEF Iterates
<1> HIDE DEF h
<1>6. Nat \subseteq I
  <2>1. 0 \in I
    <3>1. h[0].good = q.lo
      BY <1>5
    <3> QED
      BY <1>1, <3>1
  <2>2. ASSUME NEW k \in Nat, k \in I PROVE k + 1 \in I
    <3> HIDE DEF G
    <3>1. h[k] \in G /\ h[k + 1] = Probe(q)[h[k]] /\ h[k + 1] \in G
      BY <1>5
    <3>2. /\ h[k + 1].good <= m
          /\ h[k + 1].good + h[k + 1].step > m \/ h[k + 1].good >= h[k].good + 1
      BY <1>3, <2>2, <3>1
    <3>3. h[k + 1].good >= q.lo + (k + 1) \/ h[k + 1].good + h[k + 1].step > m
      <4>1. CASE h[k].good >= q.lo + k
        <5>1. h[k].good \in Nat /\ h[k + 1].good \in Nat
          BY <1>1, <3>1 DEF G
        <5> QED
          BY <1>1, <3>2, <4>1, <5>1
      <4>2. CASE h[k].good + h[k].step > m
        <5>1. h[k].good \in Nat /\ h[k].step \in Nat
          BY <1>1, <3>1 DEF G
        <5>2. ~(h[k].good + h[k].step <= q.hi /\ h[k].good + h[k].step \in q.ok)
          <6> DEFINE r == h[k].good + h[k].step
          <6>1. r \in Nat /\ r > m /\ r >= q.lo
            BY <1>1, <4>2, <5>1
          <6> HIDE DEF r
          <6>2. r <= q.hi => r \in q.lo .. q.hi
            BY <1>1, <6>1
          <6>3. ~(r <= q.hi /\ r \in q.ok)
            BY <1>1, <6>1, <6>2 DEF Sought, Searches
          <6> QED
            BY <6>3 DEF r
        <5>3. Probe(q)[h[k]] = h[k]
          BY <3>1, <5>2 DEF Probe, G
        <5> QED
          BY <3>1, <4>2, <5>3
      <4> QED
        BY <2>2, <4>1, <4>2
    <3> QED
      BY <3>2, <3>3
  <2> HIDE DEF I
  <2> QED
    BY <2>1, <2>2, NatInductive
<1>7. h[n] \in G /\ n \in I
  BY <1>5, <1>6
<1>8. h[n] \in [good : q.lo .. m, step : 1 .. 2 * q.hi]
  BY <1>1, <1>7
<1> QED
  BY <1>7, <1>8 DEF Probed, h

\* The gallop ends in a gap that holds the last good round.
LEMMA GapFinds ==
    ASSUME NEW q, NEW m, Sought(q, m)
    PROVE  /\ Gap(q) \in [good : q.lo .. q.hi, bad : q.lo .. q.hi + 1]
           /\ Gap(q).good <= m /\ m < Gap(q).bad
<1> DEFINE g == Probed(q, q.hi)
           next == g.good + g.step
           above == q.hi + 1
<1>1. q.lo \in Nat /\ q.hi \in Nat /\ q.lo >= 1 /\ q.lo < q.hi /\ m \in Nat /\ q.lo <= m /\ m <= q.hi
  BY DEF Sought, Searches
<1>2. /\ g \in [good : q.lo .. m, step : 1 .. 2 * q.hi]
      /\ g.good + g.step > m \/ g.good >= q.lo + q.hi
  BY <1>1, GallopFinds
<1> HIDE DEF g
<1>3. g.good \in q.lo .. m /\ g.step \in 1 .. 2 * q.hi
  BY <1>2
<1>4. next \in Nat /\ above \in Nat /\ next > m /\ above > m /\ next >= q.lo
  BY <1>1, <1>2, <1>3
<1>5. Gap(q) = [good |-> g.good, bad |-> Min({next, above})]
  BY DEF Gap, g
<1> HIDE DEF next
<1>6. Min({next, above}) \in {next, above} /\ Min({next, above}) <= above
  <2>1. above \in Nat
    BY <1>4
  <2> HIDE DEF above
  <2> QED
    BY <1>4, <2>1, MinOfTwo
<1>7. Min({next, above}) \in q.lo .. q.hi + 1 /\ Min({next, above}) > m
  BY <1>1, <1>4, <1>6
<1>8. g.good \in q.lo .. q.hi /\ g.good <= m
  BY <1>1, <1>3
<1> QED
  BY <1>5, <1>7, <1>8

\* The middle of a gap lies strictly inside it.
LEMMA MiddleInside ==
    ASSUME NEW good \in Nat, NEW bad \in Nat, good + 1 < bad
    PROVE  LET middle == good + (bad - good) \div 2 IN
           middle \in Nat /\ good < middle /\ middle < bad
<1> DEFINE d == bad - good
           h == d \div 2
<1>1. d \in Nat /\ d >= 2
  OBVIOUS
<1>2. h \in Nat /\ h >= 1 /\ h < d
  <2> HIDE DEF d
  <2> QED
    BY <1>1
<1> HIDE DEF h
<1>3. good + h \in Nat /\ good < good + h /\ good + h < bad
  BY <1>2
<1> QED
  BY <1>3 DEF h

\* A halving keeps the sought round in the gap and narrows it.
LEMMA HalveStep ==
    ASSUME NEW q, NEW m, Sought(q, m),
           NEW b \in [good : q.lo .. q.hi, bad : q.lo .. q.hi + 1],
           b.good <= m, m < b.bad
    PROVE  /\ Halve(q)[b] \in [good : q.lo .. q.hi, bad : q.lo .. q.hi + 1]
           /\ Halve(q)[b].good <= m /\ m < Halve(q)[b].bad
           /\ \/ Halve(q)[b].bad - Halve(q)[b].good <= 1
              \/ Halve(q)[b].bad - Halve(q)[b].good + 1 <= b.bad - b.good
<1> DEFINE c == Middle(b)
<1>1. q.lo \in Nat /\ q.hi \in Nat /\ q.lo >= 1 /\ q.lo < q.hi /\ m \in Nat /\ q.lo <= m /\ m <= q.hi
  BY DEF Sought, Searches
<1>2. /\ b.good \in Nat /\ b.bad \in Nat
      /\ q.lo <= b.good /\ b.good <= q.hi /\ q.lo <= b.bad /\ b.bad <= q.hi + 1
      /\ b = [good |-> b.good, bad |-> b.bad]
  BY <1>1
<1>3. Halve(q)[b] = IF b.bad - b.good <= 1 THEN b
                    ELSE IF c \in q.ok THEN [good |-> c, bad |-> b.bad]
                                       ELSE [good |-> b.good, bad |-> c]
  BY <1>2 DEF Halve
<1>4. CASE b.bad - b.good <= 1
  BY <1>3, <1>4
<1>5. CASE ~(b.bad - b.good <= 1)
  <2>1. c \in Nat /\ b.good < c /\ c < b.bad
    <3>1. b.good + 1 < b.bad
      BY <1>2, <1>5
    <3> QED
      BY <1>2, <3>1, MiddleInside DEF Middle
  <2> HIDE DEF c
  <2>2. c \in q.lo .. q.hi /\ c \in q.lo .. q.hi + 1
    BY <1>1, <1>2, <2>1
  <2>3. CASE c \in q.ok
    <3>1. c <= m
      BY <2>2, <2>3 DEF Sought, Searches
    <3>2. Halve(q)[b] = [good |-> c, bad |-> b.bad]
      BY <1>3, <1>5, <2>3
    <3>3. b.bad - c + 1 <= b.bad - b.good
      BY <1>2, <2>1
    <3> QED
      BY <2>2, <3>1, <3>2, <3>3
  <2>4. CASE c \notin q.ok
    <3>1. m < c
      BY <1>1, <2>1, <2>2, <2>4 DEF Sought, Searches
    <3>2. Halve(q)[b] = [good |-> b.good, bad |-> c]
      BY <1>3, <1>5, <2>4
    <3>3. c - b.good + 1 <= b.bad - b.good
      BY <1>2, <2>1
    <3> QED
      BY <2>2, <3>1, <3>2, <3>3
  <2> QED
    BY <2>3, <2>4
<1> QED
  BY <1>4, <1>5

\* Bisection ends at the sought round.
LEMMA BisectionFinds ==
    ASSUME NEW q, NEW m, Sought(q, m)
    PROVE  Halved(q, q.hi).good = m
<1> DEFINE B == [good : q.lo .. q.hi, bad : q.lo .. q.hi + 1]
           h == Repeated(Gap(q), Halve(q))
           I == {k \in Nat : /\ h[k].good <= m /\ m < h[k].bad
                             /\ \/ h[k].bad - h[k].good <= 1
                                \/ h[k].bad - h[k].good + k <= q.hi}
<1>1. q.lo \in Nat /\ q.hi \in Nat /\ q.lo >= 1 /\ q.lo < q.hi /\ m \in Nat /\ q.lo <= m /\ m <= q.hi
  BY DEF Sought, Searches
<1>2. Gap(q) \in B /\ Gap(q).good <= m /\ m < Gap(q).bad
  BY GapFinds
<1>3. Halve(q) \in [B -> B]
  <2>1. ASSUME NEW b \in B PROVE Halve(q)[b] \in B
    <3>1. /\ b.good \in Nat /\ b.bad \in Nat
          /\ q.lo <= b.good /\ b.good <= q.hi /\ q.lo <= b.bad /\ b.bad <= q.hi + 1
          /\ b = [good |-> b.good, bad |-> b.bad]
      BY <1>1
    <3>2. Halve(q)[b] = IF b.bad - b.good <= 1 THEN b
                        ELSE IF Middle(b) \in q.ok THEN [good |-> Middle(b), bad |-> b.bad]
                                                   ELSE [good |-> b.good, bad |-> Middle(b)]
      BY <3>1 DEF Halve
    <3>3. CASE b.bad - b.good <= 1
      BY <3>2, <3>3
    <3>4. CASE ~(b.bad - b.good <= 1)
      <4>1. b.good + 1 < b.bad
        BY <3>1, <3>4
      <4>2. Middle(b) \in Nat /\ b.good < Middle(b) /\ Middle(b) < b.bad
        BY <3>1, <4>1, MiddleInside DEF Middle
      <4>3. Middle(b) \in q.lo .. q.hi /\ Middle(b) \in q.lo .. q.hi + 1
        BY <1>1, <3>1, <4>2
      <4> QED
        BY <3>2, <3>4, <4>3
    <3> QED
      BY <3>3, <3>4
  <2> QED
    BY <2>1 DEF Halve
<1>4. h \in [Nat -> B] /\ h[0] = Gap(q) /\ \A k \in Nat : h[k + 1] = Halve(q)[h[k]]
  <2> HIDE DEF B
  <2>1. h \in [Nat -> B] /\ Iterates(h, Gap(q), Halve(q))
    BY <1>2, <1>3, RepeatedIterates
  <2> QED
    BY <2>1 DEF Iterates
<1> HIDE DEF h
<1>5. Nat \subseteq I
  <2>1. 0 \in I
    <3>1. Gap(q).good \in Nat /\ Gap(q).bad \in Nat /\ Gap(q).good >= q.lo /\ Gap(q).bad <= q.hi + 1
      BY <1>1, <1>2
    <3>2. Gap(q).bad - Gap(q).good + 0 <= q.hi
      BY <1>1, <3>1
    <3> QED
      BY <1>2, <1>4, <3>2
  <2>2. ASSUME NEW k \in Nat, k \in I PROVE k + 1 \in I
    <3>1. h[k] \in B /\ h[k + 1] \in B /\ h[k + 1] = Halve(q)[h[k]] /\ h[k].good <= m /\ m < h[k].bad
      BY <1>4, <2>2
    <3>2. /\ h[k + 1].good <= m /\ m < h[k + 1].bad
          /\ \/ h[k + 1].bad - h[k + 1].good <= 1
             \/ h[k + 1].bad - h[k + 1].good + 1 <= h[k].bad - h[k].good
      BY <3>1, HalveStep
    <3>3. /\ h[k].good \in Nat /\ h[k].bad \in Nat
          /\ h[k + 1].good \in Nat /\ h[k + 1].bad \in Nat
      BY <1>1, <3>1
    <3>4. h[k].bad - h[k].good <= 1 \/ h[k].bad - h[k].good + k <= q.hi
      BY <2>2
    <3>5. h[k + 1].bad - h[k + 1].good <= 1 \/ h[k + 1].bad - h[k + 1].good + (k + 1) <= q.hi
      BY <1>1, <3>2, <3>3, <3>4
    <3> QED
      BY <3>2, <3>5
  <2> HIDE DEF I
  <2> QED
    BY <2>1, <2>2, NatInductive
<1>6. h[q.hi] \in B /\ q.hi \in I
  BY <1>1, <1>4, <1>5
<1>7. h[q.hi].good \in Nat /\ h[q.hi].bad \in Nat
  BY <1>1, <1>6
<1>8. h[q.hi].good = m
  BY <1>1, <1>6, <1>7
<1> QED
  BY <1>8 DEF Halved, h

\* Where the rounds from lo to hi that count are those up to m, the search
\* finds m.
LEMMA SearchFinds ==
    ASSUME NEW ok \in SUBSET Nat, NEW lo \in Nat, NEW hi \in Nat, lo >= 1,
           NEW m \in lo .. hi, \A r \in lo .. hi : r \in ok <=> r <= m
    PROVE  Search(ok, lo, hi) = m
<1> DEFINE q == [ok |-> ok, lo |-> lo, hi |-> hi]
<1>1. q \in Searches
  BY DEF Searches
<1>2. Search(ok, lo, hi) = IF lo >= hi THEN lo ELSE Halved(q, q.hi).good
  BY <1>1, SearchLoops DEF Search
<1>3. CASE lo >= hi
  BY <1>2, <1>3
<1>4. CASE ~(lo >= hi)
  <2>1. Sought(q, m)
    BY <1>4 DEF Sought, Searches
  <2> HIDE DEF q
  <2> QED
    BY <1>2, <1>4, <2>1, BisectionFinds
<1> QED
  BY <1>3, <1>4

-----------------------------------------------------------------------------
\* The feed (_locate, nextSample).

\* The rounds of a phase: timestamped, answered in themselves, in order.
Clean(rounds) ==
    \A r \in DOMAIN rounds :
        /\ rounds[r].at # 0 /\ rounds[r].whole
        /\ \A k \in DOMAIN rounds : k <= r => rounds[k].at <= rounds[r].at

CleanHistory(f) == f \in Seq(Seq(Rounds)) /\ \A p \in DOMAIN f : Clean(f[p])

\* The rounds of a phase at or before a time.
Counting(f, p, t) == {r \in DOMAIN f[p] : AtOrBefore(f, p, r, t)}

\* A cursor at a round of the feed at or before a time.
Reached(f, c, t) ==
    /\ c \in Cursors
    /\ c.phase \in DOMAIN f /\ c.round \in DOMAIN f[c.phase]
    /\ f[c.phase][c.round].at <= t

LEMMA HistoryTypes ==
    ASSUME NEW f \in Seq(Seq(Rounds))
    PROVE  /\ Len(f) \in Nat /\ DOMAIN f = 1 .. Len(f)
           /\ \A p \in DOMAIN f :
                 /\ f[p] \in Seq(Rounds)
                 /\ Len(f[p]) \in Nat /\ DOMAIN f[p] = 1 .. Len(f[p])
                 /\ \A r \in DOMAIN f[p] : f[p][r] \in Rounds /\ f[p][r].at \in Nat
<1>1. ASSUME NEW S, NEW s \in Seq(S)
      PROVE  /\ Len(s) \in Nat /\ DOMAIN s = 1 .. Len(s)
             /\ \A i \in DOMAIN s : s[i] \in S
  OBVIOUS
<1>2. \A r \in Rounds : r.at \in Nat
  BY DEF Rounds
<1>3. /\ Len(f) \in Nat /\ DOMAIN f = 1 .. Len(f)
      /\ \A p \in DOMAIN f : f[p] \in Seq(Rounds)
  BY <1>1
<1> QED
  BY <1>1, <1>2, <1>3

\* The last round of a phase of a clean history is found.
LEMMA FindsLast ==
    ASSUME NEW f, CleanHistory(f), NEW p \in DOMAIN f, f[p] # <<>>
    PROVE  LastRound(f, p) = Len(f[p])
<1> DEFINE n == Len(f[p])
           ok == {r \in DOMAIN f[p] : Exists(f, p, r)}
<1>1. f[p] \in Seq(Rounds) /\ n \in Nat /\ DOMAIN f[p] = 1 .. n
  BY HistoryTypes DEF CleanHistory
<1>2. n >= 1
  BY <1>1
<1>3. ok = 1 .. n
  BY <1>1 DEF CleanHistory, Clean, Exists
<1> HIDE DEF n
<1>4. FindLast(f, p) = Search(ok, 1, 2 * n)
  BY DEF FindLast, n
<1> HIDE DEF ok
<1>5. /\ ok \in SUBSET Nat /\ 2 * n \in Nat /\ n \in 1 .. 2 * n
      /\ \A r \in 1 .. 2 * n : r \in ok <=> r <= n
  BY <1>1, <1>2, <1>3
<1>6. Search(ok, 1, 2 * n) = n
  BY SMTT(30), <1>5, SearchFinds
<1> QED
  BY <1>4, <1>6 DEF LastRound, n

\* From a round at or before a time the search advances to the latest one of
\* its phase.
LEMMA AdvanceFinds ==
    ASSUME NEW f, CleanHistory(f), NEW t \in Nat, NEW c, Reached(f, c, t)
    PROVE  /\ Advance(f, c, t) = Cursor(c.phase, Max(Counting(f, c.phase, t)))
           /\ Reached(f, Cursor(c.phase, Max(Counting(f, c.phase, t))), t)
<1> DEFINE p == c.phase
           n == Len(f[p])
           ok == Counting(f, p, t)
           m == Max(ok)
<1>1. /\ p \in DOMAIN f /\ c.round \in DOMAIN f[p] /\ f[p][c.round].at <= t
      /\ c = Cursor(p, c.round) /\ p \in Nat
  BY DEF Reached, Cursors, Cursor
<1>2. /\ f[p] \in Seq(Rounds) /\ n \in Nat /\ DOMAIN f[p] = 1 .. n
      /\ \A r \in DOMAIN f[p] : f[p][r].at \in Nat
  BY <1>1, HistoryTypes DEF CleanHistory
<1>3. Clean(f[p])
  BY <1>1 DEF CleanHistory
<1>4. \A r \in 1 .. n : r \in ok <=> f[p][r].at <= t
  BY <1>1, <1>2, <1>3 DEF Clean, Counting, AtOrBefore, Exists
<1>5. ok \subseteq 1 .. n
  BY <1>2 DEF Counting
<1>6. c.round \in ok
  BY <1>1, <1>2, <1>4
<1> HIDE DEF ok
<1>7. m \in ok /\ \A x \in ok : x <= m
  <2>1. ok \subseteq 0 .. n /\ ok # {}
    BY <1>2, <1>5, <1>6
  <2> HIDE DEF n
  <2> QED
    BY <1>2, <2>1, MaxOfNumbers
<1> HIDE DEF m
<1>8. m \in 1 .. n /\ m \in Nat /\ f[p][m].at <= t
  BY <1>2, <1>4, <1>5, <1>7
<1>9. \A r \in 1 .. n : r \in ok <=> r <= m
  <2> SUFFICES ASSUME NEW r \in 1 .. n, r <= m PROVE r \in ok
    BY <1>7
  <2>1. f[p][r].at <= f[p][m].at
    BY <1>2, <1>3, <1>8 DEF Clean
  <2>2. f[p][r].at \in Nat /\ f[p][m].at \in Nat
    BY <1>2, <1>8
  <2>3. f[p][r].at <= t
    BY SMTT(30), <1>8, <2>1, <2>2
  <2> QED
    BY <1>4, <2>3
<1>10. LastRound(f, p) = n
  BY <1>1, FindsLast
<1>11. Advance(f, c, t) = Cursor(p, Search(ok, c.round, n))
  BY <1>10 DEF Advance, ok, Counting
<1>12. Search(ok, c.round, n) = m
  <2>1. /\ ok \in SUBSET Nat /\ c.round \in Nat /\ c.round >= 1 /\ m \in c.round .. n
        /\ \A r \in c.round .. n : r \in ok <=> r <= m
    <3>1. ok \in SUBSET Nat
      BY <1>5
    <3>2. c.round \in Nat /\ c.round >= 1 /\ c.round <= m
      BY <1>1, <1>2, <1>6, <1>7
    <3>3. c.round .. n \subseteq 1 .. n /\ m \in c.round .. n
      BY <1>2, <1>8, <3>2
    <3> QED
      BY <1>9, <3>1, <3>2, <3>3
  <2> HIDE DEF n
  <2> QED
    BY <1>2, <2>1, SearchFinds
<1>13. Reached(f, Cursor(p, m), t)
  BY <1>1, <1>2, <1>8 DEF Reached, Cursor, Cursors
<1> QED
  BY <1>11, <1>12, <1>13 DEF m, ok

\* The round a time stands for, in the searches' terms.
LEMMA LatestIs ==
    ASSUME NEW f, CleanHistory(f), NEW t \in Nat, Located(f, t)
    PROVE  LET p == Max(StartedPhases(f, 1, t)) IN
           /\ p \in StartedPhases(f, 1, t) /\ \A q \in StartedPhases(f, 1, t) : q <= p
           /\ Reached(f, Cursor(p, 1), t)
           /\ LatestAt(f, t) = Cursor(p, Max(Counting(f, p, t)))
<1> DEFINE S == StartedPhases(f, 1, t)
           p == Max(S)
           Valid(q, r) == f[q][r].whole /\ f[q][r].at \in 1 .. t
<1>1. Len(f) \in Nat /\ DOMAIN f = 1 .. Len(f)
  BY HistoryTypes DEF CleanHistory
<1>2. S \subseteq 0 .. Len(f) /\ S # {} /\ S \subseteq DOMAIN f
  BY <1>1 DEF StartedPhases, Located
<1>3. S = {q \in DOMAIN f : f[q] /= <<>> /\ Valid(q, 1)}
  <2> SUFFICES ASSUME NEW q \in DOMAIN f
               PROVE  AtOrBefore(f, q, 1, t) <=> f[q] /= <<>> /\ Valid(q, 1)
    BY <1>1 DEF StartedPhases
  <2>1. /\ f[q] \in Seq(Rounds) /\ DOMAIN f[q] = 1 .. Len(f[q])
        /\ Len(f[q]) \in Nat /\ \A r \in DOMAIN f[q] : f[q][r].at \in Nat
    BY HistoryTypes DEF CleanHistory
  <2>2. f[q] /= <<>> <=> 1 \in DOMAIN f[q]
    BY <2>1
  <2> QED
    BY <2>1, <2>2 DEF AtOrBefore, Exists
<1>4. p \in S /\ \A q \in S : q <= p
  <2> HIDE DEF S
  <2> QED
    BY <1>1, <1>2, MaxOfNumbers
<1>5. Reached(f, Cursor(p, 1), t)
  <2>1. p \in DOMAIN f /\ p \in Nat /\ AtOrBefore(f, p, 1, t)
    <3> HIDE DEF p
    <3> QED
      BY <1>1, <1>2, <1>4 DEF StartedPhases
  <2> HIDE DEF p
  <2>2. 1 \in DOMAIN f[p] /\ f[p][1].at <= t
    BY <2>1 DEF AtOrBefore, Exists
  <2>3. Cursor(p, 1) \in Cursors /\ Cursor(p, 1).phase = p /\ Cursor(p, 1).round = 1
    BY <2>1 DEF Cursor, Cursors
  <2> QED
    BY <2>1, <2>2, <2>3 DEF Reached
<1>6. Counting(f, p, t) = {r \in DOMAIN f[p] : Valid(p, r)}
  <2> SUFFICES ASSUME NEW r \in DOMAIN f[p]
               PROVE  AtOrBefore(f, p, r, t) <=> Valid(p, r)
    BY DEF Counting
  <2>1. p \in DOMAIN f
    BY <1>2, <1>4
  <2>2. f[p][r].at \in Nat
    BY SMTT(30), <2>1, HistoryTypes DEF CleanHistory
  <2> QED
    BY <2>1, <2>2 DEF AtOrBefore, Exists
<1>7. LatestAt(f, t) = Cursor(p, Max(Counting(f, p, t)))
  BY <1>3, <1>6 DEF LatestAt
<1> QED
  BY <1>4, <1>5, <1>7

\* A search from scratch finds it.
LEMMA LocateFinds ==
    ASSUME NEW f, CleanHistory(f), NEW t \in Nat, Located(f, t)
    PROVE  Locate(f, t) = LatestAt(f, t) /\ Reached(f, LatestAt(f, t), t)
<1> DEFINE p == Max(StartedPhases(f, 1, t))
<1>1. Reached(f, Cursor(p, 1), t) /\ LatestAt(f, t) = Cursor(p, Max(Counting(f, p, t)))
  BY LatestIs
<1> HIDE DEF p
<1>2. /\ Advance(f, Cursor(p, 1), t) = Cursor(p, Max(Counting(f, p, t)))
      /\ Reached(f, Cursor(p, Max(Counting(f, p, t))), t)
  <2>1. Cursor(p, 1).phase = p
    BY DEF Cursor
  <2> QED
    BY <1>1, <2>1, AdvanceFinds
<1> QED
  BY <1>1, <1>2 DEF Locate, p

\* So does a search resumed at an earlier round.
LEMMA NextFinds ==
    ASSUME NEW f, CleanHistory(f), NEW t \in Nat, NEW c, Reached(f, c, t)
    PROVE  /\ Located(f, t)
           /\ NextSample(f, c, t) = LatestAt(f, t)
<1> DEFINE S == StartedPhases(f, 1, t)
           later == StartedPhases(f, c.phase + 1, t)
           p == Max(S)
<1>1. /\ Len(f) \in Nat /\ DOMAIN f = 1 .. Len(f)
      /\ c.phase \in DOMAIN f /\ c.phase \in Nat /\ c.round \in DOMAIN f[c.phase]
      /\ f[c.phase][c.round].at <= t /\ Clean(f[c.phase])
  BY HistoryTypes DEF CleanHistory, Reached, Cursors
<1>2. c.phase \in S
  <2>1. /\ DOMAIN f[c.phase] = 1 .. Len(f[c.phase]) /\ Len(f[c.phase]) \in Nat
        /\ \A r \in DOMAIN f[c.phase] : f[c.phase][r].at \in Nat
    BY <1>1, HistoryTypes DEF CleanHistory
  <2>2. 1 \in DOMAIN f[c.phase] /\ 1 <= c.round
    BY <1>1, <2>1
  <2>3. f[c.phase][1].at <= f[c.phase][c.round].at /\ f[c.phase][1].at # 0 /\ f[c.phase][1].whole
    BY <1>1, <2>2 DEF Clean
  <2>4. f[c.phase][1].at <= t
    BY SMTT(30), <1>1, <2>1, <2>2, <2>3
  <2> QED
    BY <1>1, <2>2, <2>3, <2>4 DEF StartedPhases, AtOrBefore, Exists
<1>3. Located(f, t)
  BY <1>2 DEF Located
<1>4. /\ p \in S /\ \A q \in S : q <= p
      /\ Reached(f, Cursor(p, 1), t)
      /\ LatestAt(f, t) = Cursor(p, Max(Counting(f, p, t)))
  BY <1>3, LatestIs
<1>5. later = {q \in S : q > c.phase} /\ \A q \in S : q \in Nat
  BY <1>1 DEF StartedPhases
<1> HIDE DEF S
<1>6. CASE later = {}
  <2>1. p = c.phase
    BY <1>1, <1>2, <1>4, <1>5, <1>6
  <2>2. NextSample(f, c, t) = Advance(f, c, t)
    BY <1>6 DEF NextSample
  <2>3. Advance(f, c, t) = Cursor(c.phase, Max(Counting(f, c.phase, t)))
    BY AdvanceFinds
  <2> QED
    BY <1>3, <1>4, <2>1, <2>2, <2>3
<1>7. CASE later # {}
  <2>1. Max(later) = p
    <3>1. later \subseteq 0 .. Len(f)
      BY <1>1 DEF StartedPhases
    <3> HIDE DEF later
    <3>2. Max(later) \in later /\ \A q \in later : q <= Max(later)
      BY <1>1, <1>7, <3>1, MaxOfNumbers
    <3>3. Max(later) \in S /\ Max(later) > c.phase /\ Max(later) <= p
      BY <1>4, <1>5, <3>2 DEF later
    <3>4. p \in S /\ p \in Nat /\ Max(later) \in Nat
      BY <1>4, <1>5, <3>3
    <3>5. p > c.phase
      BY <1>1, <3>3, <3>4
    <3>6. p \in later
      BY <1>5, <3>4, <3>5
    <3>7. p <= Max(later)
      BY <3>2, <3>6
    <3> HIDE DEF p
    <3> QED
      BY <3>3, <3>4, <3>7
  <2>2. NextSample(f, c, t) = Advance(f, Cursor(p, 1), t)
    BY <1>7, <2>1 DEF NextSample
  <2>3. Cursor(p, 1).phase = p
    BY DEF Cursor
  <2> HIDE DEF p
  <2>4. Advance(f, Cursor(p, 1), t) = Cursor(p, Max(Counting(f, p, t)))
    BY <1>4, <2>3, AdvanceFinds
  <2> QED
    BY <1>3, <1>4, <2>2, <2>4
<1> QED
  BY <1>6, <1>7

-----------------------------------------------------------------------------
\* WholeWindow with the facts about the counters its steps need, and the
\* final variance in the form finalize computes it.
ProgressInv ==
    /\ now \in Nat
    /\ acc.processedSamples \in Nat
    /\ acc.processedSamples <= Available
    /\ acc.processedSamples > 0 =>
        acc.processedThrough = SampleTime(acc.processedSamples)
    /\ final /= NotFinal =>
        /\ acc.processedSamples = Total
        /\ final = Annualize(acc.sum, Expiry - Start)

\* The sampling grid ends at the expiry (the divisibility _validate asks for).
LEMMA LastSampleAtExpiry == SampleTime(Total) = Expiry
<1> DEFINE d == Expiry - Start
           q == d \div SampleInterval
<1>1. d \in Nat /\ SampleInterval \in Nat /\ SampleInterval > 0
      /\ d % SampleInterval = 0 /\ Start \in Nat /\ Expiry \in Nat
  BY WindowAssumption
<1>2. q \in Nat
  BY <1>1, Intervals
<1>3. q * SampleInterval = d
  <2> HIDE DEF d
  <2> QED  BY <1>1
<1>4. SampleTime(Total) = Start + (Total - 1) * SampleInterval
  BY DEF SampleTime
<1>5. Total - 1 = q
  <2>1. Total = q + 1
    BY DEF Total
  <2> HIDE DEF q
  <2> QED  BY <1>2, <2>1
<1>6. SampleTime(Total) = Start + d
  <2> HIDE DEF d, q
  <2> QED  BY <1>3, <1>4, <1>5
<1> QED
  BY <1>1, <1>6

\* A final variance is what realizedSoFar reports at the end of the window.
LEMMA ProgressIsWhole == ProgressInv => WholeWindow
<1> SUFFICES ASSUME ProgressInv PROVE WholeWindow
  OBVIOUS
<1>1. ASSUME final /= NotFinal PROVE final = RealizedSoFar
  <2>1. acc.processedSamples = Total /\ acc.processedSamples /= 0
    BY <1>1, TotalType DEF ProgressInv
  <2>2. acc.processedThrough = Expiry
    BY <2>1, TotalType, LastSampleAtExpiry DEF ProgressInv
  <2> QED  BY <1>1, <2>1, <2>2 DEF ProgressInv, RealizedSoFar
<1> QED
  BY <1>1 DEF ProgressInv, WholeWindow

\* Initially nothing is stored and nothing is final.
LEMMA ProgressInit == Init => ProgressInv
<1> SUFFICES ASSUME Init PROVE ProgressInv
  OBVIOUS
<1>1. now \in Nat /\ acc.processedSamples = 0 /\ final = NotFinal
  BY FeedAssumption DEF Init, EmptyAccumulator
<1>2. Available \in Nat
  <2> DEFINE x == IF now < Expiry THEN now ELSE Expiry
  <2>1. x \in Nat
    BY <1>1, WindowAssumption
  <2>2. Available = Due(x)
    BY AvailableIsDue
  <2> HIDE DEF x
  <2> QED  BY <2>1, <2>2, DueGrows
<1> QED
  BY <1>1, <1>2 DEF ProgressInv

\* What is due does not depend on anything but the clock.
LEMMA AvailableKept == now' = now => Available' = Available
BY DEF Available, Total

\* A checkpoint happens only while the window is incomplete, and stores no
\* sample that is not due.
LEMMA CheckpointStep ==
    ASSUME ProgressInv, NEW maxSamples \in Nat \ {0}, Checkpoint(maxSamples)
    PROVE  /\ acc.processedSamples < Total
           /\ acc'.processedSamples \in Nat
           /\ acc'.processedSamples > acc.processedSamples
           /\ acc'.processedSamples <= Available
           /\ acc'.processedThrough = SampleTime(acc'.processedSamples)
           /\ UNCHANGED <<now, feed, final>>
<1> DEFINE next == acc.processedSamples + maxSamples
           last == Min({Available, next})
<1>1. Available \in Nat /\ Available <= Total /\ acc.processedSamples \in Nat
  <2> DEFINE x == IF now < Expiry THEN now ELSE Expiry
  <2>1. x \in Nat
    BY WindowAssumption DEF ProgressInv
  <2>2. Available = Due(x)
    BY AvailableIsDue
  <2> HIDE DEF x
  <2> QED  BY <2>1, <2>2, DueGrows DEF ProgressInv
<1>2. next \in Nat /\ next > acc.processedSamples
  BY <1>1
<1>3. acc.processedSamples < Available /\ UNCHANGED <<now, feed, final>>
  BY DEF Checkpoint
<1>4. /\ acc'.processedSamples = last
      /\ acc'.processedThrough = SampleTime(last)
  BY DEF Checkpoint
<1>5. last \in {Available, next} /\ last <= Available
  <2> HIDE DEF next
  <2> QED  BY <1>1, <1>2, MinOfTwo
<1> HIDE DEF last
<1>6. last \in Nat /\ last > acc.processedSamples
  BY <1>1, <1>2, <1>3, <1>5
<1> QED
  BY <1>1, <1>3, <1>4, <1>5, <1>6, TotalType

\* Every step keeps the progress invariant.
LEMMA ProgressStep == ProgressInv /\ [Next]_vars => ProgressInv'
<1> SUFFICES ASSUME ProgressInv, [Next]_vars PROVE ProgressInv'
  OBVIOUS
<1> USE DEF ProgressInv
<1>1. CASE CheckpointAny
  <2>1. PICK maxSamples \in 1 .. MaxSamplesPerCall : Checkpoint(maxSamples)
    BY <1>1 DEF CheckpointAny
  <2>2. maxSamples \in Nat \ {0}
    BY WindowAssumption
  <2>3. /\ acc.processedSamples < Total
        /\ acc'.processedSamples \in Nat
        /\ acc'.processedSamples <= Available
        /\ acc'.processedThrough = SampleTime(acc'.processedSamples)
        /\ UNCHANGED <<now, feed, final>>
    BY <2>1, <2>2, CheckpointStep
  <2>4. final' = NotFinal
    BY <2>3, TotalType
  <2>5. Available' = Available
    BY <2>3, AvailableKept
  <2>6. SampleTime(acc'.processedSamples) = SampleTime(acc.processedSamples)'
    BY DEF SampleTime
  <2> QED  BY <2>3, <2>4, <2>5, <2>6
<1>2. CASE Finalize
  <2>1. /\ UNCHANGED <<now, feed, acc>>
        /\ acc.processedSamples = Total
        /\ final' = Annualize(acc.sum, Expiry - Start)
    BY <1>2 DEF Finalize
  <2>2. Available' = Available
    BY <2>1, AvailableKept
  <2> QED  BY <2>1, <2>2 DEF Total, SampleTime, Annualize
<1>3. CASE Heartbeat \/ (\E rounds \in NewPhases : NewPhase(rounds)) \/ UNCHANGED vars
  <2>1. UNCHANGED <<now, acc, final>>
    BY <1>3 DEF Heartbeat, PushRound, NewPhase, vars
  <2>2. Available' = Available
    BY <2>1, AvailableKept
  <2> QED  BY <2>1, <2>2 DEF Total, SampleTime, Annualize
<1>4. CASE Tick
  <2>1. now' \in Nat /\ now <= now' /\ UNCHANGED <<feed, acc, final>>
    BY <1>4, TimeAssumption DEF Tick
  <2>2. Available \in Nat /\ Available' \in Nat /\ Available <= Available'
    BY <2>1, AvailableGrows
  <2> QED  BY <2>1, <2>2 DEF Total, SampleTime, Annualize
<1> QED
  BY <1>1, <1>2, <1>3, <1>4 DEF Next

\* No checkpoint runs ahead of the clock and a final variance rests on every
\* sample of the window, whoever calls with whatever budget (checkpoint,
\* finalize).
THEOREM WindowTheorem == Spec => []WholeWindow
<1> QED
  BY ProgressIsWhole, ProgressInit, ProgressStep, PTL DEF Spec

\* Once the variance is final neither it nor the samples under it change.
THEOREM FinalTheorem == Spec => FinalForever
<1>1. ProgressInv /\ [Next]_vars => [final /= NotFinal => UNCHANGED <<acc, final>>]_vars
  <2> SUFFICES ASSUME ProgressInv, Next, final /= NotFinal
               PROVE  UNCHANGED <<acc, final>>
    OBVIOUS
  <2>1. acc.processedSamples = Total
    BY DEF ProgressInv
  <2>2. CASE CheckpointAny
    <3>1. PICK maxSamples \in 1 .. MaxSamplesPerCall : Checkpoint(maxSamples)
      BY <2>2 DEF CheckpointAny
    <3>2. maxSamples \in Nat \ {0}
      BY WindowAssumption
    <3>3. acc.processedSamples < Total
      BY <3>1, <3>2, CheckpointStep
    <3> QED  BY <2>1, <3>3, TotalType
  <2>3. ~Finalize
    BY DEF Finalize
  <2>4. CASE Heartbeat \/ (\E rounds \in NewPhases : NewPhase(rounds)) \/ Tick
    BY <2>4 DEF Heartbeat, PushRound, NewPhase, Tick
  <2> QED  BY <2>2, <2>3, <2>4 DEF Next
<1> QED
  BY <1>1, ProgressInit, ProgressStep, PTL DEF Spec, FinalForever

-----------------------------------------------------------------------------
\* The search on every reachable feed.

\* A feed that answers every round of its own, in order: what Chainlink's
\* aggregators promise and the search relies on.
CleanFeed ==
    /\ Wholeness \subseteq {TRUE}
    /\ \A p \in DOMAIN InitialFeed : Clean(InitialFeed[p])
    /\ \A rounds \in NewPhases : Clean(rounds)

FeedInv ==
    /\ now \in Nat \ {0}
    /\ CleanHistory(feed) /\ Len(feed) >= 1
    /\ \A p \in DOMAIN feed : \A r \in DOMAIN feed[p] : feed[p][r].at <= now

\* One history continues another: no phase or round of it is changed.
Continues(g, f) ==
    /\ DOMAIN f \subseteq DOMAIN g
    /\ \A p \in DOMAIN f :
          /\ DOMAIN f[p] \subseteq DOMAIN g[p]
          /\ \A r \in DOMAIN f[p] : g[p][r] = f[p][r]

LEMMA FeedInit == CleanFeed /\ Init => FeedInv
<1> SUFFICES ASSUME CleanFeed, Init PROVE FeedInv
  OBVIOUS
<1>1. now = Created /\ feed = InitialFeed
  BY DEF Init
<1>2. InitialFeed \in Seq(Seq(Rounds)) /\ InitialFeed # <<>> /\ Created \in Nat \ {0}
  BY FeedAssumption
<1>3. Len(InitialFeed) >= 1
  BY <1>2
<1> QED
  BY <1>1, <1>2, <1>3, FeedAssumption DEF FeedInv, CleanHistory, CleanFeed

\* A round added to a phase is its last.
LEMMA RoundAdded ==
    ASSUME CleanFeed, FeedInv, NEW answer \in Answers, NEW whole \in Wholeness,
           PushRound(answer, whole)
    PROVE  /\ CleanHistory(feed') /\ Len(feed') = Len(feed)
           /\ Continues(feed', feed)
           /\ \A p \in DOMAIN feed' : \A r \in DOMAIN feed'[p] :
                 \/ p \in DOMAIN feed /\ r \in DOMAIN feed[p]
                 \/ feed'[p][r].at = now
           /\ now \in RoundTimes
<1> DEFINE last == Len(feed)
           old == feed[last]
           new == [at |-> now, answer |-> answer, whole |-> whole]
           more == Append(old, new)
<1>1. /\ feed \in Seq(Seq(Rounds)) /\ last \in Nat /\ last >= 1 /\ DOMAIN feed = 1 .. last
      /\ now \in Nat \ {0} /\ last \in DOMAIN feed
  BY HistoryTypes DEF FeedInv, CleanHistory
<1>2. /\ old \in Seq(Rounds) /\ Len(old) \in Nat /\ DOMAIN old = 1 .. Len(old)
      /\ Clean(old) /\ \A r \in DOMAIN old : old[r].at \in Nat /\ old[r].at <= now
  BY <1>1, HistoryTypes DEF FeedInv, CleanHistory
<1>3. new \in Rounds /\ whole = TRUE /\ answer \in Int
  BY <1>1, FeedAssumption DEF Rounds, CleanFeed
<1>4. feed' = [feed EXCEPT ![last] = more] /\ now \in RoundTimes
  BY DEF PushRound
<1> HIDE DEF new
<1>5. /\ more \in Seq(Rounds) /\ DOMAIN more = 1 .. Len(old) + 1
      /\ \A r \in DOMAIN old : more[r] = old[r]
      /\ more[Len(old) + 1] = new
  BY <1>2, <1>3
<1> HIDE DEF more
<1>6. /\ feed' \in Seq(Seq(Rounds)) /\ Len(feed') = last /\ DOMAIN feed' = DOMAIN feed
      /\ feed'[last] = more /\ \A p \in DOMAIN feed \ {last} : feed'[p] = feed[p]
  <2> HIDE DEF last
  <2>1. [feed EXCEPT ![last] = more] \in Seq(Seq(Rounds))
    BY <1>1, <1>5
  <2>2. Len([feed EXCEPT ![last] = more]) = Len(feed)
    BY <1>1, <1>5
  <2> QED
    BY <1>1, <1>4, <1>5, <2>1, <2>2 DEF last
<1>7. new.at = now /\ new.whole
  BY <1>3 DEF new
<1>8. Clean(more)
  <2> SUFFICES ASSUME NEW r \in DOMAIN more
               PROVE  /\ more[r].at # 0 /\ more[r].whole
                      /\ \A k \in DOMAIN more : k <= r => more[k].at <= more[r].at
    BY DEF Clean
  <2>1. CASE r \in DOMAIN old
    <3>1. more[r].at # 0 /\ more[r].whole
      BY <1>2, <1>5, <2>1 DEF Clean
    <3>2. ASSUME NEW k \in DOMAIN more, k <= r PROVE more[k].at <= more[r].at
      <4>1. k \in DOMAIN old
        BY <1>2, <1>5, <2>1, <3>2
      <4> QED
        BY <1>2, <1>5, <2>1, <3>2, <4>1 DEF Clean
    <3> QED
      BY <3>1, <3>2
  <2>2. CASE r \notin DOMAIN old
    <3>1. r = Len(old) + 1
      BY <1>2, <1>5, <2>2
    <3>2. more[r].at = now /\ more[r].whole
      BY <1>5, <1>7, <3>1
    <3>3. ASSUME NEW k \in DOMAIN more PROVE more[k].at <= now
      <4>1. CASE k \in DOMAIN old
        BY <1>2, <1>5, <4>1
      <4>2. CASE k \notin DOMAIN old
        <5>1. k = Len(old) + 1
          BY <1>2, <1>5, <4>2
        <5> QED
          BY <1>1, <1>5, <1>7, <5>1
      <4> QED
        BY <4>1, <4>2
    <3> QED
      BY <1>1, <3>2, <3>3
  <2> QED
    BY <2>1, <2>2
<1>9. CleanHistory(feed')
  BY <1>6, <1>8 DEF CleanHistory, FeedInv
<1>10. Continues(feed', feed)
  <2> SUFFICES ASSUME NEW p \in DOMAIN feed
               PROVE  /\ DOMAIN feed[p] \subseteq DOMAIN feed'[p]
                      /\ \A r \in DOMAIN feed[p] : feed'[p][r] = feed[p][r]
    BY <1>6 DEF Continues
  <2>1. CASE p = last
    <3>1. feed[p] = old /\ feed'[p] = more
      BY <1>6, <2>1
    <3>2. DOMAIN old \subseteq DOMAIN more
      BY <1>2, <1>5
    <3> HIDE DEF old
    <3> QED
      BY <1>5, <3>1, <3>2
  <2>2. CASE p # last
    BY <1>6, <2>2
  <2> QED
    BY <2>1, <2>2
<1>11. ASSUME NEW p \in DOMAIN feed', NEW r \in DOMAIN feed'[p], ~(p \in DOMAIN feed /\ r \in DOMAIN feed[p])
       PROVE  feed'[p][r].at = now
  <2>1. p = last
    BY <1>6, <1>11
  <2>2. r = Len(old) + 1
    BY <1>2, <1>5, <1>6, <1>11, <2>1
  <2> QED
    BY <1>5, <1>6, <1>7, <2>1, <2>2
<1> QED
  BY <1>4, <1>6, <1>9, <1>10, <1>11

\* A phase added is the last.
LEMMA PhaseAdded ==
    ASSUME CleanFeed, FeedInv, NEW rounds \in NewPhases, NewPhase(rounds)
    PROVE  /\ CleanHistory(feed') /\ Len(feed') = Len(feed) + 1
           /\ Continues(feed', feed)
           /\ \A p \in DOMAIN feed' : \A r \in DOMAIN feed'[p] :
                 \/ p \in DOMAIN feed /\ r \in DOMAIN feed[p]
                 \/ r \in DOMAIN rounds /\ feed'[p][r] = rounds[r]
<1> DEFINE last == Len(feed)
<1>1. /\ feed \in Seq(Seq(Rounds)) /\ last \in Nat /\ DOMAIN feed = 1 .. last
  BY HistoryTypes DEF FeedInv, CleanHistory
<1>2. rounds \in Seq(Rounds) /\ Clean(rounds)
  BY FeedAssumption DEF CleanFeed
<1>3. feed' = Append(feed, rounds)
  BY DEF NewPhase
<1>4. /\ feed' \in Seq(Seq(Rounds)) /\ Len(feed') = last + 1 /\ DOMAIN feed' = 1 .. last + 1
      /\ \A p \in DOMAIN feed : feed'[p] = feed[p]
      /\ feed'[last + 1] = rounds
  BY <1>1, <1>2, <1>3
<1>5. ASSUME NEW p \in DOMAIN feed', p \notin DOMAIN feed PROVE p = last + 1
  BY <1>1, <1>4, <1>5
<1>6. CleanHistory(feed')
  BY <1>2, <1>4, <1>5 DEF CleanHistory, FeedInv
<1>7. Continues(feed', feed)
  BY <1>1, <1>4 DEF Continues
<1> QED
  BY <1>4, <1>5, <1>6, <1>7

LEMMA FeedStep == CleanFeed /\ FeedInv /\ [Next]_vars => FeedInv'
<1> SUFFICES ASSUME CleanFeed, FeedInv, [Next]_vars PROVE FeedInv'
  OBVIOUS
<1>1. CASE Heartbeat
  <2>1. PICK answer \in Answers, whole \in Wholeness : PushRound(answer, whole)
    BY <1>1 DEF Heartbeat
  <2>2. now' = now /\ now \in Nat
    BY <2>1 DEF PushRound, FeedInv
  <2>3. ASSUME NEW p \in DOMAIN feed', NEW r \in DOMAIN feed'[p] PROVE feed'[p][r].at <= now
    <3>1. CASE p \in DOMAIN feed /\ r \in DOMAIN feed[p]
      BY <2>1, <3>1, RoundAdded DEF Continues, FeedInv
    <3>2. CASE ~(p \in DOMAIN feed /\ r \in DOMAIN feed[p])
      <4>1. feed'[p][r].at = now
        BY <2>1, <3>2, RoundAdded
      <4> QED
        BY <2>2, <4>1
    <3> QED
      BY <3>1, <3>2
  <2>4. CleanHistory(feed') /\ Len(feed') = Len(feed)
    BY <2>1, RoundAdded
  <2> QED
    BY <2>2, <2>3, <2>4 DEF FeedInv
<1>2. CASE \E rounds \in NewPhases : NewPhase(rounds)
  <2>1. PICK rounds \in NewPhases : NewPhase(rounds)
    BY <1>2
  <2>2. now' = now /\ now \in Nat /\ \A r \in DOMAIN rounds : rounds[r].at <= now
    BY <2>1 DEF NewPhase, FeedInv
  <2>3. ASSUME NEW p \in DOMAIN feed', NEW r \in DOMAIN feed'[p] PROVE feed'[p][r].at <= now
    <3>1. CASE p \in DOMAIN feed /\ r \in DOMAIN feed[p]
      BY <2>1, <3>1, PhaseAdded DEF Continues, FeedInv
    <3>2. CASE ~(p \in DOMAIN feed /\ r \in DOMAIN feed[p])
      <4>1. r \in DOMAIN rounds /\ feed'[p][r] = rounds[r]
        BY <2>1, <3>2, PhaseAdded
      <4> QED
        BY <2>2, <4>1
    <3> QED
      BY <3>1, <3>2
  <2>4. CleanHistory(feed') /\ Len(feed') = Len(feed) + 1
    BY <2>1, PhaseAdded
  <2>5. Len(feed) \in Nat
    BY HistoryTypes DEF FeedInv, CleanHistory
  <2> QED
    BY <2>2, <2>3, <2>4, <2>5 DEF FeedInv
<1>3. CASE Tick
  <2>1. now' = now + 1 /\ feed' = feed
    BY <1>3 DEF Tick
  <2>2. ASSUME NEW p \in DOMAIN feed, NEW r \in DOMAIN feed[p] PROVE feed[p][r].at <= now + 1
    <3>1. feed[p][r].at <= now /\ now \in Nat
      BY DEF FeedInv
    <3>2. feed[p][r].at \in Nat
      BY HistoryTypes DEF FeedInv, CleanHistory
    <3> QED
      BY <3>1, <3>2
  <2> QED
    BY <2>1, <2>2 DEF FeedInv
<1>4. CASE CheckpointAny \/ Finalize \/ UNCHANGED vars
  <2>1. UNCHANGED <<now, feed>>
    BY <1>4 DEF CheckpointAny, Checkpoint, Finalize, vars
  <2> QED
    BY <2>1 DEF FeedInv
<1> QED
  BY <1>1, <1>2, <1>3, <1>4 DEF Next

\* On a clean feed the galloping search finds the latest round at or before
\* any time the feed covers, whatever the number of phases and rounds and the
\* times between them (priceAt, beginScan).
THEOREM SearchTheorem == ASSUME CleanFeed PROVE Spec => []SearchFindsLatest
<1>1. FeedInv => SearchFindsLatest
  <2> SUFFICES ASSUME FeedInv, NEW t \in 1 .. now, Located(feed, t)
               PROVE  Locate(feed, t) = LatestAt(feed, t)
    BY DEF SearchFindsLatest
  <2>1. CleanHistory(feed) /\ t \in Nat
    BY DEF FeedInv
  <2> QED
    BY <2>1, LocateFinds
<1>2. Init => FeedInv
  BY FeedInit
<1>3. FeedInv /\ [Next]_vars => FeedInv'
  BY FeedStep
<1> QED
  BY <1>1, <1>2, <1>3, PTL DEF Spec

-----------------------------------------------------------------------------
\* The scan (beginScan, resumeScan, nextSample).

\* Sample times are numbers in the samples' order.
LEMMA SampleTimesGrow ==
    ASSUME NEW i \in Nat, NEW j \in Nat, 1 <= i, i <= j
    PROVE  /\ SampleTime(i) \in Nat /\ SampleTime(j) \in Nat
           /\ SampleTime(i) <= SampleTime(j)
           /\ SampleTime(1) = Start
<1> DEFINE a == i - 1
           b == j - 1
<1>1. a \in Nat /\ b \in Nat /\ a <= b
  OBVIOUS
<1>2. SampleInterval \in Nat /\ Start \in Nat
  BY WindowAssumption
<1>3. SampleTime(i) = Start + a * SampleInterval /\ SampleTime(j) = Start + b * SampleInterval
  BY DEF SampleTime
<1>4. SampleTime(1) = Start
  BY <1>2 DEF SampleTime
<1> HIDE DEF a, b
<1>5. a * SampleInterval \in Nat /\ b * SampleInterval \in Nat
  BY <1>1, <1>2
<1>6. a * SampleInterval <= b * SampleInterval
  BY <1>1, <1>2
<1> QED
  BY <1>2, <1>3, <1>4, <1>5, <1>6

\* The round reached for a time is also reached for a later one.
LEMMA ReachedLater ==
    ASSUME NEW f, CleanHistory(f), NEW s \in Nat, NEW t \in Nat, s <= t,
           NEW c, Reached(f, c, s)
    PROVE  Reached(f, c, t)
<1>1. f[c.phase][c.round].at \in Nat
  BY HistoryTypes DEF CleanHistory, Reached
<1> QED
  BY <1>1 DEF Reached

\* What the scan needs of the samples stored: a cursor to resume from.
Resumable(n) == n > 0 => Reached(feed, acc.lastRound, SampleTime(n))

\* The rounds of the samples from first on are there.
LEMMA SamplesReached ==
    ASSUME CleanHistory(feed), NEW first \in Nat, first >= 1,
           Resumable(first - 1), first = 1 => Located(feed, Start),
           NEW i \in Nat, i >= first
    PROVE  /\ Located(feed, SampleTime(i))
           /\ Reached(feed, LatestAt(feed, SampleTime(i)), SampleTime(i))
<1>1. PICK c : Reached(feed, c, SampleTime(i))
  <2>1. CASE first = 1
    <3>1. /\ Start \in Nat /\ SampleTime(i) \in Nat /\ Start <= SampleTime(i)
      BY <2>1, SampleTimesGrow
    <3>2. Reached(feed, LatestAt(feed, Start), Start)
      BY <2>1, <3>1, LocateFinds
    <3> QED
      BY <3>1, <3>2, ReachedLater
  <2>2. CASE first # 1
    <3> DEFINE k == first - 1
    <3>1. k \in Nat /\ 1 <= k /\ k <= i /\ k > 0
      BY <2>2
    <3> HIDE DEF k
    <3>2. /\ SampleTime(k) \in Nat /\ SampleTime(i) \in Nat /\ SampleTime(k) <= SampleTime(i)
      BY <3>1, SampleTimesGrow
    <3>3. Reached(feed, acc.lastRound, SampleTime(k))
      BY <3>1 DEF Resumable, k
    <3> QED
      BY <3>2, <3>3, ReachedLater
  <2> QED
    BY <2>1, <2>2
<1>2. SampleTime(i) \in Nat
  BY SampleTimesGrow
<1>3. Located(feed, SampleTime(i))
  BY <1>1, <1>2, NextFinds
<1> QED
  BY <1>2, <1>3, LocateFinds

\* A scan's cursors, each searched from the one before.
Follow ==
    [x \in [from : Cursors, sample : Nat] |->
        NextSample(feed, x.from, SampleTime(x.sample))]

Scans(first, last, cursor) ==
    cursor = [i \in first - 1 .. last |->
                IF i < first THEN acc.lastRound
                ELSE IF i = 1 THEN Locate(feed, Start)
                ELSE Follow[[from |-> cursor[i - 1], sample |-> i]]]

LEMMA ScanIsChosen ==
    ASSUME NEW first, NEW last
    PROVE  Scan(first, last) = CHOOSE cursor : Scans(first, last, cursor)
BY DEF Scan, Scans, Follow

\* Every sample's cursor is the latest round at or before its time, however
\* the scan got there.
LEMMA ScanFinds ==
    ASSUME CleanHistory(feed), NEW first \in Nat, first >= 1, NEW last \in Nat, first <= last,
           Resumable(first - 1), first = 1 => Located(feed, Start)
    PROVE  \A i \in first - 1 .. last :
              Scan(first, last)[i] = IF i < first THEN acc.lastRound
                                     ELSE LatestAt(feed, SampleTime(i))
<1> DEFINE w == [i \in first - 1 .. last |->
                    IF i < first THEN acc.lastRound ELSE LatestAt(feed, SampleTime(i))]
           c == Scan(first, last)
<1>1. ASSUME NEW cursor, NEW i \in first .. last,
             cursor[i - 1] = IF i - 1 < first THEN acc.lastRound
                             ELSE LatestAt(feed, SampleTime(i - 1))
      PROVE  (IF i = 1 THEN Locate(feed, Start) ELSE Follow[[from |-> cursor[i - 1], sample |-> i]])
                = LatestAt(feed, SampleTime(i))
  <2>1. CASE i = 1
    <3>1. Start \in Nat /\ SampleTime(1) = Start /\ first = 1
      BY <2>1, SampleTimesGrow
    <3> QED
      BY <2>1, <3>1, LocateFinds
  <2>2. CASE i # 1
    <3> DEFINE k == i - 1
    <3>1. k \in Nat /\ i \in Nat /\ 1 <= k /\ k <= i /\ k >= first - 1
      BY <2>2
    <3>2. /\ SampleTime(k) \in Nat /\ SampleTime(i) \in Nat /\ SampleTime(k) <= SampleTime(i)
      <4> HIDE DEF k
      <4> QED
        BY <3>1, SampleTimesGrow
    <3>3. Reached(feed, cursor[k], SampleTime(k))
      <4>1. CASE k < first
        <5>1. k = first - 1 /\ k > 0
          BY <3>1, <4>1
        <5>2. Resumable(k)
          BY <5>1
        <5>3. cursor[k] = acc.lastRound
          BY <1>1, <4>1
        <5> HIDE DEF k
        <5> QED
          BY <5>1, <5>2, <5>3 DEF Resumable
      <4>2. CASE ~(k < first)
        <5>1. cursor[k] = LatestAt(feed, SampleTime(k))
          BY <1>1, <4>2
        <5>2. k \in Nat /\ k >= first
          BY <3>1, <4>2
        <5> HIDE DEF k
        <5> QED
          BY <5>1, <5>2, SamplesReached
      <4> QED
        BY <4>1, <4>2
    <3> DEFINE x == [from |-> cursor[k], sample |-> i]
    <3>4. x \in [from : Cursors, sample : Nat] /\ x.from = cursor[k] /\ x.sample = i
      BY <3>1, <3>3 DEF Reached
    <3> HIDE DEF x
    <3>5. Follow[x] = NextSample(feed, cursor[k], SampleTime(i))
      BY <3>4 DEF Follow
    <3>6. Reached(feed, cursor[k], SampleTime(i))
      <4> HIDE DEF k
      <4> QED
        BY <3>2, <3>3, ReachedLater
    <3>7. NextSample(feed, cursor[k], SampleTime(i)) = LatestAt(feed, SampleTime(i))
      <4> HIDE DEF k
      <4> QED
        BY <3>2, <3>6, NextFinds
    <3> QED
      BY <2>2, <3>5, <3>7 DEF x
  <2> QED
    BY <2>1, <2>2
<1>2. Scans(first, last, w)
  <2>1. ASSUME NEW i \in first - 1 .. last
        PROVE  w[i] = IF i < first THEN acc.lastRound
                      ELSE IF i = 1 THEN Locate(feed, Start)
                      ELSE Follow[[from |-> w[i - 1], sample |-> i]]
    <3>1. CASE i < first
      BY <3>1
    <3>2. CASE ~(i < first)
      <4>1. i \in first .. last /\ i - 1 \in first - 1 .. last
        BY <3>2
      <4>2. w[i - 1] = IF i - 1 < first THEN acc.lastRound
                       ELSE LatestAt(feed, SampleTime(i - 1))
        BY <4>1
      <4>3. w[i] = LatestAt(feed, SampleTime(i))
        BY <3>2
      <4> HIDE DEF w
      <4> QED
        BY <1>1, <3>2, <4>1, <4>2, <4>3
    <3> QED
      BY <3>1, <3>2
  <2>2. w = [i \in first - 1 .. last |-> w[i]]
    OBVIOUS
  <2> HIDE DEF w
  <2> QED
    BY <2>1, <2>2 DEF Scans
<1>3. Scans(first, last, c)
  <2> HIDE DEF w
  <2> QED
    BY <1>2, ScanIsChosen
<1> HIDE DEF c
<1> DEFINE At(i) == c[i] = IF i < first THEN acc.lastRound ELSE LatestAt(feed, SampleTime(i))
           I == {k \in Nat : k <= last - first + 1 => At(first - 1 + k)}
<1>4. Nat \subseteq I
  <2>1. 0 \in I
    <3>1. first - 1 \in first - 1 .. last /\ first - 1 < first /\ first - 1 + 0 = first - 1
      OBVIOUS
    <3>2. c[first - 1] = acc.lastRound
      BY <1>3, <3>1 DEF Scans
    <3> QED
      BY <3>1, <3>2
  <2>2. ASSUME NEW k \in Nat, k \in I PROVE k + 1 \in I
    <3> SUFFICES ASSUME k + 1 <= last - first + 1 PROVE At(first - 1 + (k + 1))
      OBVIOUS
    <3> DEFINE i == first + k
    <3>1. i \in first .. last /\ i - 1 = first - 1 + k /\ first - 1 + (k + 1) = i
      OBVIOUS
    <3>2. At(i - 1)
      <4>1. At(first - 1 + k)
        BY <2>2
      <4> HIDE DEF At, i
      <4> QED
        BY <3>1, <4>1
    <3>3. i \in first - 1 .. last /\ ~(i < first)
      BY <3>1
    <3> HIDE DEF i
    <3>4. c[i] = IF i = 1 THEN Locate(feed, Start)
                 ELSE Follow[[from |-> c[i - 1], sample |-> i]]
      BY <1>3, <3>3 DEF Scans
    <3>5. c[i] = LatestAt(feed, SampleTime(i))
      BY <1>1, <3>1, <3>2, <3>4
    <3> QED
      BY <3>1, <3>3, <3>5
  <2> HIDE DEF I
  <2> QED
    BY <2>1, <2>2, NatInductive
<1> SUFFICES ASSUME NEW i \in first - 1 .. last PROVE At(i)
  BY DEF c
<1>5. i - first + 1 \in Nat /\ i - first + 1 <= last - first + 1 /\ first - 1 + (i - first + 1) = i
  OBVIOUS
<1>6. i - first + 1 \in I
  BY <1>4, <1>5
<1> QED
  BY <1>5, <1>6

\* The samples stored can be resumed from.
SamplesInv == acc.processedSamples \in Nat /\ Resumable(acc.processedSamples)

\* A checkpoint scans from the first sample not stored to the last it stores.
LEMMA CheckpointScans ==
    ASSUME FeedInv, ProgressInv, SamplesInv,
           NEW maxSamples \in Nat \ {0}, Checkpoint(maxSamples)
    PROVE  LET first == acc.processedSamples + 1
               last == acc'.processedSamples
           IN  /\ first \in Nat /\ first >= 1 /\ last \in Nat /\ first <= last
               /\ first = 1 => Located(feed, Start)
               /\ \A i \in first - 1 .. last :
                     Scan(first, last)[i] = IF i < first THEN acc.lastRound
                                            ELSE LatestAt(feed, SampleTime(i))
               /\ acc'.lastRound = LatestAt(feed, SampleTime(last))
               /\ Reached(feed, acc'.lastRound, SampleTime(last))
<1> DEFINE first == acc.processedSamples + 1
           last == acc'.processedSamples
<1>1. first \in Nat /\ first >= 1 /\ first - 1 = acc.processedSamples
  BY DEF SamplesInv
<1>2. last \in Nat /\ first <= last
  <2>1. last \in Nat /\ last > acc.processedSamples
    BY CheckpointStep
  <2>2. acc.processedSamples \in Nat
    BY DEF SamplesInv
  <2> HIDE DEF last
  <2> QED
    BY <2>1, <2>2
<1>3. first = 1 => Located(feed, Start)
  BY DEF Checkpoint
<1>4. acc'.lastRound = Scan(first, last)[last]
  BY DEF Checkpoint
<1>5. Resumable(first - 1) /\ CleanHistory(feed)
  <2>1. Resumable(acc.processedSamples) /\ CleanHistory(feed)
    BY DEF SamplesInv, FeedInv
  <2> HIDE DEF first
  <2> QED
    BY <1>1, <2>1
<1> HIDE DEF first, last
<1>6. \A i \in first - 1 .. last :
         Scan(first, last)[i] = IF i < first THEN acc.lastRound
                                ELSE LatestAt(feed, SampleTime(i))
  BY <1>1, <1>2, <1>3, <1>5, ScanFinds
<1>7. acc'.lastRound = LatestAt(feed, SampleTime(last))
  <2>1. last \in first - 1 .. last /\ ~(last < first)
    BY <1>1, <1>2
  <2> QED
    BY <1>4, <1>6, <2>1
<1>8. Reached(feed, acc'.lastRound, SampleTime(last))
  <2>1. Reached(feed, LatestAt(feed, SampleTime(last)), SampleTime(last))
    BY <1>1, <1>2, <1>3, <1>5, SamplesReached
  <2> QED
    BY <1>7, <2>1
<1> QED
  BY <1>1, <1>2, <1>3, <1>6, <1>7, <1>8 DEF first, last

\* A round reached stays reached whatever the feed adds.
LEMMA ReachedKept ==
    ASSUME NEW f, NEW g, Continues(g, f), NEW t, NEW c, Reached(f, c, t)
    PROVE  Reached(g, c, t)
BY DEF Continues, Reached

\* A step continues the feed's history.
LEMMA FeedContinues ==
    ASSUME CleanFeed, FeedInv, [Next]_vars
    PROVE  Continues(feed', feed)
<1>1. CASE Heartbeat
  BY <1>1, RoundAdded DEF Heartbeat
<1>2. CASE \E rounds \in NewPhases : NewPhase(rounds)
  BY <1>2, PhaseAdded
<1>3. CASE CheckpointAny \/ Finalize \/ Tick \/ UNCHANGED vars
  <2>1. feed' = feed
    BY <1>3 DEF CheckpointAny, Checkpoint, Finalize, Tick, vars
  <2> QED
    BY <2>1 DEF Continues
<1> QED
  BY <1>1, <1>2, <1>3 DEF Next

LEMMA SamplesStep ==
    ASSUME CleanFeed, FeedInv, ProgressInv, SamplesInv, [Next]_vars
    PROVE  /\ SamplesInv'
           /\ acc' # acc => acc'.lastRound = LatestAt(feed, SampleTime(acc'.processedSamples))
<1>1. CASE CheckpointAny
  <2>1. PICK maxSamples \in 1 .. MaxSamplesPerCall : Checkpoint(maxSamples)
    BY <1>1 DEF CheckpointAny
  <2>2. maxSamples \in Nat \ {0}
    BY WindowAssumption
  <2>3. /\ acc'.processedSamples \in Nat
        /\ acc'.lastRound = LatestAt(feed, SampleTime(acc'.processedSamples))
        /\ Reached(feed, acc'.lastRound, SampleTime(acc'.processedSamples))
    BY <2>1, <2>2, CheckpointScans
  <2>4. feed' = feed
    BY <2>1 DEF Checkpoint
  <2>5. SampleTime(acc'.processedSamples) = SampleTime(acc.processedSamples)'
    BY DEF SampleTime
  <2> QED
    BY <2>3, <2>4, <2>5 DEF SamplesInv, Resumable
<1>2. CASE Heartbeat \/ (\E rounds \in NewPhases : NewPhase(rounds)) \/ Finalize \/ Tick \/ UNCHANGED vars
  <2>1. acc' = acc
    BY <1>2 DEF Heartbeat, PushRound, NewPhase, Finalize, Tick, vars
  <2>2. Continues(feed', feed)
    BY FeedContinues
  <2>3. SampleTime(acc.processedSamples)' = SampleTime(acc.processedSamples)
    BY <2>1 DEF SampleTime
  <2>4. ASSUME acc.processedSamples > 0
        PROVE  Reached(feed', acc.lastRound, SampleTime(acc.processedSamples))
    <3>1. Reached(feed, acc.lastRound, SampleTime(acc.processedSamples))
      BY <2>4 DEF SamplesInv, Resumable
    <3> QED
      BY <2>2, <3>1, ReachedKept
  <2> QED
    BY <2>1, <2>3, <2>4 DEF SamplesInv, Resumable
<1> QED
  BY <1>1, <1>2 DEF Next

LEMMA SamplesInit == Init => SamplesInv
BY DEF Init, EmptyAccumulator, SamplesInv, Resumable

\* On a clean feed the sample a checkpoint stops at is the latest round at or
\* before its time, at whatever sample and in whatever phase the search was
\* left the call before (resumeScan, nextSample).
THEOREM SamplesTheorem == ASSUME CleanFeed PROVE Spec => SamplesAreLatest
<1>1. Init => FeedInv /\ ProgressInv /\ SamplesInv
  BY FeedInit, ProgressInit, SamplesInit
<1>2. FeedInv /\ ProgressInv /\ SamplesInv /\ [Next]_vars
        => FeedInv' /\ ProgressInv' /\ SamplesInv'
  BY FeedStep, ProgressStep, SamplesStep
<1>3. FeedInv /\ ProgressInv /\ SamplesInv /\ [Next]_vars
        => [acc' /= acc =>
              acc'.lastRound = LatestAt(feed, SampleTime(acc'.processedSamples))]_vars
  BY SamplesStep
<1> QED
  BY <1>1, <1>2, <1>3, PTL DEF Spec, SamplesAreLatest

-----------------------------------------------------------------------------
\* The sum (checkpoint, RealizedVariance.compute).

\* The feed adds no round at the very time of a sample, and its new phases
\* start empty.
QuietFeed ==
    /\ CleanFeed
    /\ \A i \in 1 .. Total : SampleTime(i) \notin RoundTimes
    /\ NewPhases \subseteq {<<>>}

IntegerReturns == \A a, b \in Int : SquaredReturn(a, b) \in Int

\* What one history adds to another comes after a time.
AddsAfter(g, f, t) ==
    \A p \in DOMAIN g : \A r \in DOMAIN g[p] :
        \/ p \in DOMAIN f /\ r \in DOMAIN f[p]
        \/ g[p][r].at > t

\* Rounds added after a time leave the latest one at or before it alone.
LEMMA LatestKept ==
    ASSUME NEW f, CleanHistory(f), NEW g, CleanHistory(g), Continues(g, f),
           NEW t \in Nat, Located(f, t), AddsAfter(g, f, t)
    PROVE  /\ Located(g, t) /\ LatestAt(g, t) = LatestAt(f, t)
           /\ AnswerAt(g, LatestAt(g, t)) = AnswerAt(f, LatestAt(f, t))
<1> DEFINE p == Max(StartedPhases(f, 1, t))
<1>1. ASSUME NEW q, NEW r PROVE AtOrBefore(g, q, r, t) <=> AtOrBefore(f, q, r, t)
  <2>1. ASSUME AtOrBefore(f, q, r, t) PROVE AtOrBefore(g, q, r, t)
    BY <2>1 DEF AtOrBefore, Exists, Continues
  <2>2. ASSUME AtOrBefore(g, q, r, t) PROVE AtOrBefore(f, q, r, t)
    <3>1. q \in DOMAIN g /\ r \in DOMAIN g[q] /\ g[q][r].at <= t
      BY <2>2 DEF AtOrBefore, Exists
    <3>2. g[q][r].at \in Nat
      BY <3>1, HistoryTypes DEF CleanHistory
    <3>3. q \in DOMAIN f /\ r \in DOMAIN f[q]
      BY <3>1, <3>2 DEF AddsAfter
    <3>4. g[q][r] = f[q][r]
      BY <3>3 DEF Continues
    <3> QED
      BY <2>2, <3>3, <3>4 DEF AtOrBefore, Exists
  <2> QED
    BY <2>1, <2>2
<1>2. /\ Len(f) \in Nat /\ DOMAIN f = 1 .. Len(f)
      /\ Len(g) \in Nat /\ DOMAIN g = 1 .. Len(g)
  BY HistoryTypes DEF CleanHistory
<1>3. StartedPhases(g, 1, t) = StartedPhases(f, 1, t)
  <2>1. ASSUME NEW q, AtOrBefore(f, q, 1, t) PROVE q \in 1 .. Len(f) /\ q \in 1 .. Len(g)
    BY <1>1, <1>2, <2>1 DEF AtOrBefore, Exists
  <2> QED
    BY <1>1, <2>1 DEF StartedPhases
<1>4. Located(g, t)
  BY <1>3 DEF Located
<1>5. /\ Reached(f, Cursor(p, 1), t)
      /\ LatestAt(f, t) = Cursor(p, Max(Counting(f, p, t)))
      /\ LatestAt(g, t) = Cursor(p, Max(Counting(g, p, t)))
  BY <1>3, <1>4, LatestIs
<1>6. Counting(g, p, t) = Counting(f, p, t)
  <2>1. ASSUME NEW r, AtOrBefore(f, p, r, t) PROVE r \in DOMAIN f[p] /\ r \in DOMAIN g[p]
    BY <1>1, <2>1 DEF AtOrBefore, Exists
  <2> QED
    BY <1>1, <2>1 DEF Counting
<1>7. LatestAt(g, t) = LatestAt(f, t)
  BY <1>5, <1>6
<1>8. Reached(f, LatestAt(f, t), t)
  BY LocateFinds
<1> QED
  BY <1>4, <1>7, <1>8 DEF AnswerAt, Reached, Continues

\* A sample due by a time is one of the window, at or before that time.
LEMMA DueTimes ==
    ASSUME NEW x \in Nat, NEW i \in Nat, 1 <= i, i <= Due(x)
    PROVE  i <= Total /\ SampleTime(i) <= x
<1> DEFINE d == x - Start
           q == d \div SampleInterval
<1>1. Start \in Nat /\ SampleInterval \in Nat /\ SampleInterval > 0 /\ Total \in Nat
  BY WindowAssumption, TotalType
<1>2. ~(x < Start)
  BY <1>1 DEF Due
<1>3. d \in Nat
  BY <1>1, <1>2
<1>4. q \in Nat
  BY <1>3, Intervals
<1>5. i <= q + 1 /\ i <= Total
  <2>1. Due(x) = IF q + 1 > Total THEN Total ELSE q + 1
    BY <1>2 DEF Due
  <2> HIDE DEF q
  <2> QED
    BY <1>1, <1>4, <2>1
<1>6. q * SampleInterval <= d
  <2> HIDE DEF d
  <2> QED
    BY <1>1, <1>3
<1>7. SampleTime(i) = Start + (i - 1) * SampleInterval
  BY DEF SampleTime
<1> HIDE DEF q
<1> DEFINE k == i - 1
<1>8. k \in Nat /\ k <= q
  BY <1>4, <1>5
<1> HIDE DEF k
<1>9. k * SampleInterval <= q * SampleInterval /\ k * SampleInterval \in Nat
      /\ q * SampleInterval \in Nat
  BY <1>1, <1>4, <1>8
<1>10. SampleTime(i) = Start + k * SampleInterval
  BY <1>7 DEF k
<1> QED
  BY <1>1, <1>3, <1>5, <1>6, <1>9, <1>10

\* A sample stored lies in the past.
LEMMA StoredPast ==
    ASSUME ProgressInv, NEW i \in 1 .. acc.processedSamples
    PROVE  i \in 1 .. Total /\ SampleTime(i) \in Nat /\ SampleTime(i) <= now
<1> DEFINE x == IF now < Expiry THEN now ELSE Expiry
<1>1. x \in Nat /\ x <= now /\ now \in Nat
  BY WindowAssumption DEF ProgressInv
<1>2. Available = Due(x)
  BY AvailableIsDue
<1> HIDE DEF x
<1>3. Due(x) \in Nat
  BY <1>1, DueGrows
<1>4. i \in Nat /\ 1 <= i /\ i <= Due(x)
  BY <1>2, <1>3 DEF ProgressInv
<1>5. i <= Total /\ SampleTime(i) <= x
  BY <1>1, <1>4, DueTimes
<1>6. SampleTime(i) \in Nat
  BY <1>4, SampleTimesGrow
<1> QED
  BY <1>1, <1>4, <1>5, <1>6, TotalType

\* A sample's price on a feed, the squared returns up to a sample, their sum.
SamplePrice(f, i) == AnswerAt(f, LatestAt(f, SampleTime(i)))

Returns(f, n) == [i \in 2 .. n |-> SquaredReturn(SamplePrice(f, i - 1), SamplePrice(f, i))]

Tally(f, n) == SumFunctionOnSet(Returns(f, n), 2 .. n)

LEMMA OneShotIs ==
    ASSUME NEW n \in Nat
    PROVE  OneShotSum(n) = Tally(feed, n)
<1> DEFINE price == [i \in 1 .. n |-> AnswerAt(feed, LatestAt(feed, SampleTime(i)))]
           f == [i \in 2 .. n |-> SquaredReturn(price[i - 1], price[i])]
<1>1. OneShotSum(n) = SumFunction(f)
  BY DEF OneShotSum
<1>2. f = Returns(feed, n)
  <2>1. \A i \in 2 .. n : i \in 1 .. n /\ i - 1 \in 1 .. n
    OBVIOUS
  <2>2. \A i \in 1 .. n : price[i] = SamplePrice(feed, i)
    BY DEF SamplePrice
  <2> HIDE DEF price
  <2>3. \A i \in 2 .. n : SquaredReturn(price[i - 1], price[i])
                            = SquaredReturn(SamplePrice(feed, i - 1), SamplePrice(feed, i))
    BY <2>1, <2>2
  <2> QED
    BY <2>3 DEF Returns
<1>3. DOMAIN Returns(feed, n) = 2 .. n
  BY DEF Returns
<1> HIDE DEF f
<1> QED
  BY <1>1, <1>2, <1>3 DEF SumFunction, Tally

\* What is stored is what the feed says now.
TallyInv ==
    /\ \A i \in 1 .. acc.processedSamples : Located(feed, SampleTime(i))
    /\ acc.sum = Tally(feed, acc.processedSamples)
    /\ acc.processedSamples > 0 =>
        /\ acc.lastRound = LatestAt(feed, SampleTime(acc.processedSamples))
        /\ acc.lastPrice = AnswerAt(feed, acc.lastRound)

LEMMA TallyInit == Init => TallyInv
<1> SUFFICES ASSUME Init PROVE TallyInv
  OBVIOUS
<1>1. acc.processedSamples = 0 /\ acc.sum = 0
  BY DEF Init, EmptyAccumulator
<1>2. 2 .. 0 = {}
  OBVIOUS
<1>3. Tally(feed, 0) = 0
  BY <1>2, SumOfNothing DEF Tally
<1> QED
  BY <1>1, <1>3 DEF TallyInv

\* Rounds added after the samples leave the sum of their returns alone.
LEMMA TallyStays ==
    ASSUME NEW f, CleanHistory(f), NEW g, CleanHistory(g), Continues(g, f),
           NEW n \in Nat,
           \A i \in 1 .. n : /\ SampleTime(i) \in Nat /\ Located(f, SampleTime(i))
                             /\ AddsAfter(g, f, SampleTime(i))
    PROVE  Tally(g, n) = Tally(f, n)
<1>1. \A i \in 1 .. n : SamplePrice(g, i) = SamplePrice(f, i)
  BY LatestKept DEF SamplePrice
<1>2. \A i \in 2 .. n : i \in 1 .. n /\ i - 1 \in 1 .. n
  OBVIOUS
<1>3. Returns(g, n) = Returns(f, n)
  BY <1>1, <1>2 DEF Returns
<1> QED
  BY <1>3 DEF Tally

\* The feed and the clock leave it so.
LEMMA TallyKept ==
    ASSUME CleanHistory(feed), CleanHistory(feed'), Continues(feed', feed), acc' = acc,
           ProgressInv, TallyInv,
           \A i \in 1 .. acc.processedSamples : AddsAfter(feed', feed, SampleTime(i))
    PROVE  TallyInv'
<1> DEFINE n == acc.processedSamples
<1>1. n \in Nat
  BY DEF ProgressInv
<1>2. \A i \in 1 .. n : SampleTime(i) \in Nat /\ Located(feed, SampleTime(i))
                        /\ AddsAfter(feed', feed, SampleTime(i))
  BY StoredPast DEF TallyInv
<1>3. \A i \in 1 .. n :
        /\ Located(feed', SampleTime(i))
        /\ LatestAt(feed', SampleTime(i)) = LatestAt(feed, SampleTime(i))
        /\ AnswerAt(feed', LatestAt(feed', SampleTime(i)))
             = AnswerAt(feed, LatestAt(feed, SampleTime(i)))
  <2> HIDE DEF n
  <2> QED
    BY <1>2, LatestKept
<1>4. Tally(feed', n) = Tally(feed, n)
  <2> HIDE DEF n
  <2> QED
    BY <1>1, <1>2, TallyStays
<1>5. ASSUME n > 0
      PROVE  /\ acc.lastRound = LatestAt(feed', SampleTime(n))
             /\ acc.lastPrice = AnswerAt(feed', acc.lastRound)
  <2>1. n \in 1 .. n
    BY <1>1, <1>5
  <2>2. /\ acc.lastRound = LatestAt(feed, SampleTime(n))
        /\ acc.lastPrice = AnswerAt(feed, acc.lastRound)
    BY <1>5 DEF TallyInv
  <2> QED
    BY <1>3, <2>1, <2>2
<1> QED
  BY <1>3, <1>4, <1>5 DEF TallyInv, SampleTime

\* A sample's price is a number.
LEMMA PriceType ==
    ASSUME NEW f, CleanHistory(f), NEW i, SampleTime(i) \in Nat, Located(f, SampleTime(i))
    PROVE  SamplePrice(f, i) \in Int
<1> DEFINE c == LatestAt(f, SampleTime(i))
<1>1. c.phase \in DOMAIN f /\ c.round \in DOMAIN f[c.phase]
  BY LocateFinds DEF Reached
<1> HIDE DEF c
<1>2. f[c.phase][c.round] \in Rounds
  BY <1>1, HistoryTypes DEF CleanHistory
<1> QED
  BY <1>2 DEF SamplePrice, AnswerAt, Rounds, c

\* A sum up to one sample and over those from there on is one up to the last.
LEMMA TallySplits ==
    ASSUME IntegerReturns, NEW f, NEW first \in Nat, NEW last \in Nat, 1 <= first, first <= last,
           \A i \in 1 .. last : SamplePrice(f, i) \in Int,
           NEW more, more = [i \in Max({first, 2}) .. last |->
                                SquaredReturn(SamplePrice(f, i - 1), SamplePrice(f, i))]
    PROVE  Tally(f, last) = Tally(f, first - 1) + SumFunction(more)
<1> DEFINE all == Returns(f, last)
           start == Max({first, 2})
           before == 2 .. first - 1
           S == 2 .. last
<1>1. start \in {first, 2} /\ start >= first /\ start >= 2
  <2>1. {first, 2} \subseteq 0 .. first + 2 /\ {first, 2} # {} /\ first + 2 \in Nat
    OBVIOUS
  <2>2. Max({first, 2}) \in {first, 2} /\ \A x \in {first, 2} : x <= Max({first, 2})
    BY <2>1, MaxOfNumbers
  <2> QED
    BY <2>2
<1> HIDE DEF start
<1>2. before \in SUBSET S /\ S \ before = start .. last
  BY <1>1
<1>3. \A i \in S : i - 1 \in 1 .. last /\ i \in 1 .. last
  OBVIOUS
<1>4. \A i \in S : all[i] = SquaredReturn(SamplePrice(f, i - 1), SamplePrice(f, i)) /\ all[i] \in Int
  BY <1>3 DEF Returns, IntegerReturns
<1>5. IsFiniteSet(S) /\ IsFiniteSet(before) /\ IsFiniteSet(start .. last)
  <2>1. start \in Int /\ first - 1 \in Int /\ last \in Int
    BY <1>1
  <2> QED
    BY <2>1, FS_Interval
<1> HIDE DEF all
<1>6. SumFunctionOnSet(all, S) = SumFunctionOnSet(all, before) + SumFunctionOnSet(all, start .. last)
  <2>1. IsFiniteSet(S) /\ (\A i \in S : all[i] \in Int) /\ before \in SUBSET S
    BY <1>2, <1>4, <1>5
  <2> HIDE DEF S, before
  <2>2. SumFunctionOnSet(all, S) = SumFunctionOnSet(all, before) + SumFunctionOnSet(all, S \ before)
    BY <2>1, SumSplit
  <2> QED
    BY <1>2, <2>2
<1>7. SumFunctionOnSet(all, before) = Tally(f, first - 1)
  <2> DEFINE e == Returns(f, first - 1)
  <2>1. \A i \in before : i \in S /\ e[i] = SquaredReturn(SamplePrice(f, i - 1), SamplePrice(f, i))
    BY <1>2 DEF Returns
  <2>2. \A i \in before : all[i] = e[i]
    BY <1>4, <2>1
  <2> HIDE DEF e, before
  <2>3. SumFunctionOnSet(all, before) = SumFunctionOnSet(e, before)
    BY <1>5, <2>2, SumSameValues
  <2> QED
    BY <2>3 DEF Tally, e, before
<1>8. SumFunctionOnSet(all, start .. last) = SumFunction(more)
  <2>1. DOMAIN more = start .. last
    BY DEF start
  <2>2. \A i \in start .. last : i \in S /\ more[i] = SquaredReturn(SamplePrice(f, i - 1), SamplePrice(f, i))
    BY <1>1 DEF start
  <2>3. \A i \in start .. last : all[i] = more[i]
    BY <1>4, <2>2
  <2>4. SumFunctionOnSet(all, start .. last) = SumFunctionOnSet(more, start .. last)
    BY <1>5, <2>3, SumSameValues
  <2> QED
    BY <2>1, <2>4 DEF SumFunction
<1> QED
  BY <1>6, <1>7, <1>8 DEF Tally, all

LEMMA TallyCheckpoint ==
    ASSUME IntegerReturns, FeedInv, ProgressInv, SamplesInv, TallyInv,
           NEW maxSamples \in Nat \ {0}, Checkpoint(maxSamples)
    PROVE  TallyInv'
<1> DEFINE first == acc.processedSamples + 1
           last == acc'.processedSamples
           cursor == Scan(first, last)
           Price(i) == IF i < first THEN acc.lastPrice ELSE AnswerAt(feed, cursor[i])
           more == [i \in Max({first, 2}) .. last |-> SquaredReturn(Price(i - 1), Price(i))]
<1>1. /\ first \in Nat /\ first >= 1 /\ last \in Nat /\ first <= last
      /\ first = 1 => Located(feed, Start)
      /\ \A i \in first - 1 .. last :
            cursor[i] = IF i < first THEN acc.lastRound ELSE LatestAt(feed, SampleTime(i))
      /\ acc'.lastRound = LatestAt(feed, SampleTime(last))
  BY CheckpointScans
<1>2. /\ acc'.sum = acc.sum + SumFunction(more)
      /\ acc'.lastPrice = Price(last)
      /\ feed' = feed
  BY DEF Checkpoint
<1>3. first - 1 = acc.processedSamples /\ acc.processedSamples \in Nat
  BY DEF SamplesInv
<1>4. CleanHistory(feed) /\ Resumable(first - 1)
  <2>1. Resumable(acc.processedSamples) /\ CleanHistory(feed)
    BY DEF SamplesInv, FeedInv
  <2> HIDE DEF first
  <2> QED
    BY <1>3, <2>1
<1> HIDE DEF first, last, cursor
<1>5. ASSUME NEW i \in 1 .. last
      PROVE  Located(feed, SampleTime(i)) /\ SamplePrice(feed, i) \in Int
  <2>1. Located(feed, SampleTime(i))
    <3>1. CASE i < first
      <4>1. i \in 1 .. acc.processedSamples
        BY <1>1, <1>3, <3>1
      <4> QED
        BY <4>1 DEF TallyInv
    <3>2. CASE ~(i < first)
      <4>1. i \in Nat /\ i >= first
        BY <1>1, <3>2
      <4> QED
        BY <1>1, <1>4, <4>1, SamplesReached
    <3> QED
      BY <3>1, <3>2
  <2>2. SampleTime(i) \in Nat
    BY <1>1, SampleTimesGrow
  <2> QED
    BY <1>4, <2>1, <2>2, PriceType
<1>6. ASSUME NEW i \in first - 1 .. last, i >= 1
      PROVE  Price(i) = SamplePrice(feed, i)
  <2>1. CASE i < first
    <3>1. i = acc.processedSamples /\ acc.processedSamples > 0
      BY <1>1, <1>3, <1>6, <2>1
    <3>2. acc.lastPrice = SamplePrice(feed, i)
      BY <3>1 DEF TallyInv, SamplePrice
    <3> QED
      BY <2>1, <3>2
  <2>2. CASE ~(i < first)
    <3>1. cursor[i] = LatestAt(feed, SampleTime(i))
      BY <1>1, <2>2
    <3> QED
      BY <2>2, <3>1 DEF SamplePrice
  <2> QED
    BY <2>1, <2>2
<1> HIDE DEF Price
<1>7. more = [i \in Max({first, 2}) .. last |->
                 SquaredReturn(SamplePrice(feed, i - 1), SamplePrice(feed, i))]
  <2>1. Max({first, 2}) \in Nat /\ Max({first, 2}) >= first /\ Max({first, 2}) >= 2
    <3>1. {first, 2} \subseteq 0 .. first + 2 /\ {first, 2} # {} /\ first + 2 \in Nat
      BY <1>1
    <3>2. Max({first, 2}) \in {first, 2} /\ \A x \in {first, 2} : x <= Max({first, 2})
      BY <3>1, MaxOfNumbers
    <3> QED
      BY <1>1, <3>2
  <2>2. ASSUME NEW i \in Max({first, 2}) .. last
        PROVE  Price(i - 1) = SamplePrice(feed, i - 1) /\ Price(i) = SamplePrice(feed, i)
    <3>1. i - 1 \in first - 1 .. last /\ i - 1 >= 1 /\ i \in first - 1 .. last /\ i >= 1
      BY <1>1, <2>1
    <3> QED
      BY <1>6, <3>1
  <2> QED
    BY <2>2
<1> HIDE DEF more
<1>8. acc'.sum = Tally(feed, last)
  <2>1. Tally(feed, last) = Tally(feed, first - 1) + SumFunction(more)
    BY <1>1, <1>5, <1>7, TallySplits
  <2>2. acc.sum = Tally(feed, first - 1)
    BY <1>3 DEF TallyInv
  <2> QED
    BY <1>2, <2>1, <2>2
<1>9. acc'.lastPrice = AnswerAt(feed, acc'.lastRound)
  <2>1. last \in first - 1 .. last /\ last >= 1
    BY <1>1
  <2>2. acc'.lastPrice = SamplePrice(feed, last)
    BY <1>2, <1>6, <2>1
  <2> QED
    BY <1>1, <2>2 DEF SamplePrice
<1> QED
  BY <1>1, <1>2, <1>5, <1>8, <1>9 DEF TallyInv, last, SampleTime

LEMMA TallyStep ==
    ASSUME QuietFeed, IntegerReturns, FeedInv, ProgressInv, SamplesInv, TallyInv, [Next]_vars
    PROVE  TallyInv'
<1>1. /\ CleanHistory(feed) /\ CleanHistory(feed') /\ Continues(feed', feed)
  BY FeedStep, FeedContinues DEF QuietFeed, FeedInv
<1>2. CASE CheckpointAny
  <2>1. PICK maxSamples \in 1 .. MaxSamplesPerCall : Checkpoint(maxSamples)
    BY <1>2 DEF CheckpointAny
  <2>2. maxSamples \in Nat \ {0}
    BY WindowAssumption
  <2> QED
    BY <2>1, <2>2, TallyCheckpoint
<1>3. CASE Heartbeat
  <2>1. PICK answer \in Answers, whole \in Wholeness : PushRound(answer, whole)
    BY <1>3 DEF Heartbeat
  <2>2. acc' = acc
    BY <2>1 DEF PushRound
  <2>3. ASSUME NEW i \in 1 .. acc.processedSamples
        PROVE  AddsAfter(feed', feed, SampleTime(i))
    <3>1. i \in 1 .. Total /\ SampleTime(i) \in Nat /\ SampleTime(i) <= now /\ now \in Nat
      BY StoredPast DEF ProgressInv
    <3>2. SampleTime(i) # now
      BY <2>1, <3>1, RoundAdded DEF QuietFeed
    <3>3. now > SampleTime(i)
      BY <3>1, <3>2
    <3>4. \A p \in DOMAIN feed' : \A r \in DOMAIN feed'[p] :
             \/ p \in DOMAIN feed /\ r \in DOMAIN feed[p]
             \/ feed'[p][r].at = now
      BY <2>1, RoundAdded DEF QuietFeed
    <3> QED
      BY <3>3, <3>4 DEF AddsAfter
  <2> QED
    BY <1>1, <2>2, <2>3, TallyKept
<1>4. CASE \E rounds \in NewPhases : NewPhase(rounds)
  <2>1. PICK rounds \in NewPhases : NewPhase(rounds)
    BY <1>4
  <2>2. acc' = acc
    BY <2>1 DEF NewPhase
  <2>3. DOMAIN rounds = {}
    BY DEF QuietFeed
  <2>4. \A p \in DOMAIN feed' : \A r \in DOMAIN feed'[p] : p \in DOMAIN feed /\ r \in DOMAIN feed[p]
    BY <2>1, <2>3, PhaseAdded DEF QuietFeed
  <2>5. \A i \in 1 .. acc.processedSamples : AddsAfter(feed', feed, SampleTime(i))
    BY <2>4 DEF AddsAfter
  <2> QED
    BY <1>1, <2>2, <2>5, TallyKept
<1>5. CASE Finalize \/ Tick \/ UNCHANGED vars
  <2>1. feed' = feed /\ acc' = acc
    BY <1>5 DEF Finalize, Tick, vars
  <2> QED
    BY <2>1 DEF TallyInv, SampleTime
<1> QED
  BY <1>2, <1>3, <1>4, <1>5 DEF Next

\* While the feed adds no round at a sample's very time and no phase with a
\* past of its own, checkpoints of any sizes at any times add up to the sum a
\* computation in one go gives on the feed as it is then (checkpoint,
\* RealizedVariance.compute).
THEOREM OneShotTheorem ==
    ASSUME QuietFeed, IntegerReturns PROVE Spec => []IncrementalIsOneShot
<1>1. ProgressInv /\ TallyInv => IncrementalIsOneShot
  <2> SUFFICES ASSUME ProgressInv, TallyInv, acc.processedSamples > 0
               PROVE  /\ acc.sum = OneShotSum(acc.processedSamples)
                      /\ acc.lastRound = LatestAt(feed, acc.processedThrough)
    BY DEF IncrementalIsOneShot
  <2>1. acc.processedSamples \in Nat
    BY DEF ProgressInv
  <2>2. acc.sum = OneShotSum(acc.processedSamples)
    BY <2>1, OneShotIs DEF TallyInv
  <2> QED
    BY <2>2 DEF TallyInv, ProgressInv
<1>2. Init => FeedInv /\ ProgressInv /\ SamplesInv /\ TallyInv
  BY FeedInit, ProgressInit, SamplesInit, TallyInit DEF QuietFeed
<1>3. FeedInv /\ ProgressInv /\ SamplesInv /\ TallyInv /\ [Next]_vars
        => FeedInv' /\ ProgressInv' /\ SamplesInv' /\ TallyInv'
  BY FeedStep, ProgressStep, SamplesStep, TallyStep DEF QuietFeed
<1> QED
  BY <1>1, <1>2, <1>3, PTL DEF Spec
=============================================================================

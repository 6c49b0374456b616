----------------------------- MODULE RoundSearch -----------------------------
(***************************************************************************)
(* The search for sample rounds (contracts/src/libs/RealizedVariance.sol). *)
(* A feed is a sequence of phases, the last one current, and a phase a     *)
(* sequence of rounds [at, answer, whole]: when it was updated, what it    *)
(* answered, and whether it was answered in itself rather than carried     *)
(* over from an earlier round.  A cursor [phase, round] names one round;   *)
(* its answer is read off the feed, whose history never changes.           *)
(***************************************************************************)
EXTENDS Integers, Sequences, FiniteSetsExt

Rounds == [at : Nat, answer : Int, whole : BOOLEAN]

Cursors == [phase : Nat, round : Nat]

Cursor(p, r) == [phase |-> p, round |-> r]

AnswerAt(feed, c) == feed[c.phase][c.round].answer

\* _resolve's check of the round a sample lands on.
ValidAnswer(answer) == answer > 0

\* The ok of _read: a round not there yet, not timestamped or carried over
\* does not count.
Exists(feed, p, r) ==
    /\ p \in DOMAIN feed /\ r \in DOMAIN feed[p]
    /\ feed[p][r].at /= 0
    /\ feed[p][r].whole

\* A round at the very sample time is left out.
StrictlyBefore(feed, p, r, t) == Exists(feed, p, r) /\ feed[p][r].at < t

AtOrBefore(feed, p, r, t) == Exists(feed, p, r) /\ feed[p][r].at <= t

\* _latest reverts while the current phase has no round.
HasLatest(feed) == feed[Len(feed)] /= <<>>

\* What a search is given: the rounds that qualify, the first one to try,
\* which does, and the last one there is.
Searches == [ok : SUBSET Nat, lo : Nat, hi : Nat]

\* The largest round of q.ok in q.lo..q.hi: probes twice as far each time
\* until one fails, then bisection of the last gap.  Both loops are over
\* within q.hi rounds of them.
LargestIn[q \in Searches] ==
    LET probe == [g \in [good : q.lo .. q.hi, step : 1 .. 2 * q.hi] |->
                    IF g.good + g.step <= q.hi /\ g.good + g.step \in q.ok
                    THEN [good |-> g.good + g.step, step |-> 2 * g.step] ELSE g]
        gallop[n \in Nat] ==
            IF n = 0 THEN [good |-> q.lo, step |-> 1] ELSE probe[gallop[n - 1]]
        last == gallop[q.hi]
        Middle(b) == b.good + (b.bad - b.good) \div 2
        halve == [b \in [good : q.lo .. q.hi, bad : q.lo .. q.hi + 1] |->
                    IF b.bad - b.good <= 1 THEN b
                    ELSE IF Middle(b) \in q.ok THEN [b EXCEPT !.good = Middle(b)]
                                               ELSE [b EXCEPT !.bad = Middle(b)]]
        bisect[n \in Nat] ==
            IF n = 0 THEN [good |-> last.good, bad |-> Min({last.good + last.step, q.hi + 1})]
                     ELSE halve[bisect[n - 1]]
    IN  IF q.lo >= q.hi THEN q.lo ELSE bisect[q.hi].good

Search(ok, lo, hi) == LargestIn[[ok |-> ok, lo |-> lo, hi |-> hi]]

\* _findLast probes 2, 4, 8, ... as a gallop from round 1 does; none of its
\* probes succeeds beyond the last round.
FindLast(feed, p) ==
    Search({r \in DOMAIN feed[p] : Exists(feed, p, r)}, 1, 2 * Len(feed[p]))

\* The current phase's last round bounds the search in an older phase too.
LastRoundOfCurrent(feed, p) == Len(feed[Len(feed)])

LastRound(feed, p) == IF p = Len(feed) THEN Len(feed[p]) ELSE FindLast(feed, p)

Advance(feed, c, t) ==
    Cursor(c.phase,
           Search({r \in DOMAIN feed[c.phase] : AtOrBefore(feed, c.phase, r, t)},
                  c.round, LastRound(feed, c.phase)))

\* The phases from p on whose first round is at or before t.
StartedPhases(feed, p, t) == {q \in p .. Len(feed) : AtOrBefore(feed, q, 1, t)}

\* _locate, without its revert WindowPredatesFeed when no phase has started.
Located(feed, t) == StartedPhases(feed, 1, t) /= {}
Locate(feed, t) == Advance(feed, Cursor(Max(StartedPhases(feed, 1, t)), 1), t)

\* A later phase is not looked for.
NextSampleSamePhase(feed, c, t) == Advance(feed, c, t)

\* nextSample: a later phase that has started by t takes over at its first
\* round, and the search gallops on from there.
NextSample(feed, c, t) ==
    LET later == StartedPhases(feed, c.phase + 1, t)
    IN  Advance(feed, IF later = {} THEN c ELSE Cursor(Max(later), 1), t)

-----------------------------------------------------------------------------
\* What the searches are for: the round a sample at time t stands for.

\* Highest phase whose first round is at or before t, then its largest valid
\* round at or before t.
LatestAt(feed, t) ==
    LET Valid(p, r) == feed[p][r].whole /\ feed[p][r].at \in 1 .. t
        p == Max({q \in DOMAIN feed : feed[q] /= <<>> /\ Valid(q, 1)})
    IN  Cursor(p, Max({r \in DOMAIN feed[p] : Valid(p, r)}))
=============================================================================
